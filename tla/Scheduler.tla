------------------------------ MODULE Scheduler ------------------------------
(***************************************************************************)
(* The unattended scheduler of src/src/scheduler.py: one process that,     *)
(* every loop_sleep_seconds, walks four tasks in a fixed order, runs those *)
(* that are due, and records in a small file when each last completed.     *)
(*                                                                         *)
(* The modelled system is the process, its memory, that file, the signals  *)
(* and kills it receives, and the one fact about the chain its rules are   *)
(* about: whether the newest reward distribution (task_ascend) is already  *)
(* contained in the value the oracle publishes (task_oracle_update).       *)
(*                                                                         *)
(* Time is counted in ticks and moves with the steps: now is the clock at  *)
(* the last step, and a step that takes time chooses how long it took.     *)
(* Time stamps start at 1, so 0 stands for the code's "none" (0.0 in       *)
(* retry_after, skipping_since and refusal_announced_at) and, in the file, *)
(* for a task that has no entry.                                           *)
(***************************************************************************)
EXTENDS Integers

CONSTANTS
  interval,         \* SchedulerConfig.interval(task), in ticks
  loop_sleep,       \* loop_sleep_seconds
  gap,              \* post_ascend_gap_seconds
  SecureInterval,   \* how far behind the chain the oracle's reads are taken
  alert_after,      \* alert_after_failures
  OracleSkipAlert,  \* SKIP_ALERT_AFTER_SECONDS["oracle_update"]
  SavedSchedules,   \* the state files a first start may find
  RestartPauses,    \* how long the process may stay down
  MaxRun,           \* bound: the ticks one handler may take
  MaxTime,          \* bound: no cycle and no restart begins after this
  MaxFaults         \* bound: signals, kills and failed saves together

Task == {"ascend", "oracle_update", "rebalance", "handle_epoch"}

ASSUME ConstantsAssumption ==
  /\ interval \in [Task -> Nat \ {0}]
  /\ {loop_sleep, alert_after, OracleSkipAlert} \subseteq Nat \ {0}
  /\ {gap, SecureInterval, MaxRun, MaxTime, MaxFaults} \subseteq Nat
  /\ SavedSchedules \subseteq [Task -> 0 .. 1]
  /\ RestartPauses \subseteq Nat \ {0}

VARIABLES
  now,                  \* the clock at the last step
  mode,                 \* what the process is doing, see Modes
  turn,                 \* the task whose slot in the cycle is next or running
  last_run,             \* start of each task's last completed run, or a seed
  has_record,           \* _has_record: the tasks whose last_run is a real run
  state_file,           \* the saved schedule: what survives the process
  failures,             \* consecutive failures of each task
  retry_after,          \* when a failed task may be retried; 0 is no retry
  skipping_since,       \* when the current run of skips began; 0 is none
  skip_alerts,          \* alerts that run of skips has already produced
  resync_requested,     \* rebalancing found the oracle out of line
  refusal_announced_at, \* when a refused write was last announced; 0 is never
  stopping,             \* a stop signal arrived
  faults,               \* signals, kills and failed saves so far
  \* History variables, which no guard reads.
  unpriced,     \* time of the newest distribution the oracle lacks; 0 is none
  done_at,      \* start of the last run each task really completed
  failed_at,    \* end of the failed run a task has not recovered from; 0 is none
  unfinished,   \* tasks started and not completed since this start
  quiet_since,  \* since when a task neither acted nor was heard of; 0 is never
  told_at,      \* start of the run that last delivered a refusal alert
  answered      \* a write was attempted since rebalancing last asked for one

memory == <<last_run, has_record, failures, retry_after, skipping_since,
            skip_alerts, resync_requested, refusal_announced_at, stopping>>
history == <<unpriced, done_at, failed_at, unfinished, quiet_since, told_at,
             answered>>
vars == <<now, mode, turn, state_file, faults, memory, history>>

\* "loop": run_cycle is about to consider turn.  "run": turn's handler runs.
\* "gap": the pause after ascend.  "sleep": between two cycles.  "down": no
\* process; now is then the time it ended.
Modes == {"loop", "run", "gap", "sleep", "down"}

AllTasks(v) == [t \in Task |-> v]

---------------------------------------------------------------------------
(* The rules that decide whether a task runs.                              *)

\* now lies in a later bucket of the interval than last.
is_due(last, time, length) == last \div length < time \div length

owes_dependency(t) ==
  /\ t = "oracle_update"
  /\ \/ "oracle_update" \notin has_record /\ "ascend" \in has_record
     \/ last_run["ascend"] > last_run["oracle_update"]

RetryPending(t) == retry_after[t] # 0

\* Mutation: the schedule goes on while a retry is pending.
RetryOrSchedule(t) ==
  \/ RetryPending(t) /\ now >= retry_after[t]
  \/ owes_dependency(t) \/ is_due(last_run[t], now, interval[t])

\* A pending retry replaces the schedule; otherwise a debt, then the bucket.
Due(t) ==
  \/ RetryPending(t) /\ now >= retry_after[t]
  \/ /\ ~RetryPending(t)
     /\ owes_dependency(t) \/ is_due(last_run[t], now, interval[t])

\* Backoff after the n-th failure in a row, doubling up to the interval.
retry_delay(t, n) ==
  LET delay == loop_sleep * 2^(n - 1)
  IN  IF delay < interval[t] THEN delay ELSE interval[t]

\* Measured from when the run ended, not from when it began.
RetryTime(t, n, end) == end + retry_delay(t, n)

skip_alert_after(t) ==
  IF t = "oracle_update" THEN OracleSkipAlert ELSE alert_after * interval[t]

---------------------------------------------------------------------------
(* Starting, dying and the state file.                                     *)

\* Mutation: seeds are written back as if they were records of a run.
AllRecords(lastRun, recorded) == lastRun

\* What _save_state writes: only tasks with a record of having run.
Records(lastRun, recorded) ==
  [t \in Task |-> IF t \in recorded THEN lastRun[t] ELSE 0]

\* _save_state: the rename replaces the file whole, or the save fails and the
\* failure is swallowed.
_save_state(lastRun, recorded) ==
  \/ state_file' = Records(lastRun, recorded) /\ UNCHANGED faults
  \/ /\ faults < MaxFaults
     /\ faults' = faults + 1
     /\ UNCHANGED state_file

Forgotten ==
  /\ last_run' = AllTasks(0)
  /\ has_record' = {}
  /\ failures' = AllTasks(0)
  /\ retry_after' = AllTasks(0)
  /\ skipping_since' = AllTasks(0)
  /\ skip_alerts' = AllTasks(0)
  /\ resync_requested' = FALSE
  /\ refusal_announced_at' = 0
  /\ stopping' = FALSE
  /\ failed_at' = AllTasks(0)
  /\ unfinished' = {}
  /\ quiet_since' = AllTasks(0)
  /\ told_at' = 0
  /\ answered' = TRUE

Init ==
  /\ now = 1
  /\ mode = "down"
  /\ turn = "ascend"
  /\ state_file \in SavedSchedules
  /\ done_at = state_file
  /\ last_run = AllTasks(0)
  /\ has_record = {}
  /\ failures = AllTasks(0)
  /\ retry_after = AllTasks(0)
  /\ skipping_since = AllTasks(0)
  /\ skip_alerts = AllTasks(0)
  /\ resync_requested = FALSE
  /\ refusal_announced_at = 0
  /\ stopping = FALSE
  /\ faults = 0
  /\ unpriced = 0
  /\ failed_at = AllTasks(0)
  /\ unfinished = {}
  /\ quiet_since = AllTasks(0)
  /\ told_at = 0
  /\ answered = TRUE

\* Scheduler.__init__: everything starts afresh except what the file holds; a
\* task without an entry is seeded with the start time and has no record.
Start ==
  /\ mode = "down"
  /\ \E pause \in RestartPauses :
       /\ now + pause <= MaxTime
       /\ now' = now + pause
       /\ last_run' = [t \in Task |->
            IF state_file[t] # 0 THEN state_file[t] ELSE now + pause]
  /\ has_record' = {t \in Task : state_file[t] # 0}
  /\ mode' = "loop"
  /\ turn' = "ascend"
  /\ UNCHANGED <<failures, retry_after, skipping_since, skip_alerts,
                 resync_requested, refusal_announced_at, stopping,
                 state_file, faults, history>>

\* The process is killed (a second signal, SIGKILL, power).  A handler in
\* flight may already have had its effect on the chain.
Crash ==
  /\ mode # "down"
  /\ faults < MaxFaults
  /\ faults' = faults + 1
  /\ mode' = "down"
  /\ \E later \in now .. now + MaxRun :
       /\ now' = later
       /\ unpriced' \in IF mode = "run" /\ turn = "ascend"
                        THEN {unpriced, later} ELSE {unpriced}
  /\ Forgotten
  /\ UNCHANGED <<turn, state_file, done_at>>

\* The first SIGTERM or SIGINT.
request_stop ==
  /\ mode # "down"
  /\ ~stopping
  /\ faults < MaxFaults
  /\ faults' = faults + 1
  /\ stopping' = TRUE
  /\ UNCHANGED <<now, mode, turn, state_file, last_run, has_record,
                 failures, retry_after, skipping_since, skip_alerts,
                 resync_requested, refusal_announced_at, history>>

---------------------------------------------------------------------------
(* Walking the cycle.                                                      *)

\* Mutation: the last slot leads to a task that no longer exists.
RenamedTask == [oracle_update |-> "rebalance", ascend |-> "oracle_update",
                rebalance |-> "handle_epoch", handle_epoch |-> "harvest"]

\* TASK_ORDER
After == [ascend |-> "oracle_update", oracle_update |-> "rebalance",
          rebalance |-> "handle_epoch", handle_epoch |-> "ascend"]

Proceed ==
  /\ turn' = After[turn]
  /\ mode' = IF turn = "handle_epoch" THEN "sleep" ELSE "loop"

\* A handler that ran ascend, however it ended, is followed by the gap.
AfterRun ==
  IF turn = "ascend" THEN mode' = "gap" /\ UNCHANGED turn ELSE Proceed

InSlot == mode = "loop" /\ ~stopping

\* Mutation: a request waits for the next heartbeat.
AnsweredByHeartbeat == FALSE

\* A resync stands in for the heartbeat, and only where none is due.
ResyncDue ==
  turn = "oracle_update" /\ resync_requested /\ ~RetryPending(turn)

\* Not due, or waiting out a backoff.
PassSlot ==
  /\ InSlot
  /\ ~Due(turn)
  /\ ~ResyncDue
  /\ Proceed
  /\ UNCHANGED <<now, state_file, faults, memory, history>>

\* A write whose value was read at time read contains what the chain held
\* SecureInterval earlier.
Priced(read) == IF unpriced + SecureInterval <= read THEN 0 ELSE unpriced

\* run_resync: no schedule, no last_run, no failure count; the request stands
\* while the question is open (a transfer in flight, a failure).
run_resync ==
  /\ InSlot
  /\ ~Due(turn)
  /\ ResyncDue
  /\ \E later \in now .. now + MaxRun :
       /\ now' = later
       /\ unpriced' \in {unpriced} \cup {Priced(read) : read \in now .. later}
  /\ resync_requested' \in BOOLEAN
  /\ answered' = TRUE
  /\ Proceed
  /\ UNCHANGED <<state_file, faults, last_run, has_record, failures,
                 retry_after, skipping_since, skip_alerts,
                 refusal_announced_at, stopping, done_at, failed_at,
                 unfinished, quiet_since, told_at>>

\* The heartbeat rereads the value itself, so it also answers a request.
StartTask ==
  /\ InSlot
  /\ Due(turn)
  /\ mode' = "run"
  /\ unfinished' = unfinished \cup {turn}
  /\ resync_requested' = (resync_requested /\ turn # "oracle_update")
  /\ answered' = (answered \/ turn = "oracle_update")
  /\ UNCHANGED <<now, turn, state_file, faults, last_run, has_record,
                 failures, retry_after, skipping_since, skip_alerts,
                 refusal_announced_at, stopping, unpriced, done_at, failed_at,
                 quiet_since, told_at>>

---------------------------------------------------------------------------
(* How a run ends.                                                         *)

\* What a reader of the alerts knows of t, one of the two tasks that can
\* decline, after a run that ended at end.
Heard(t, end, acted, told) ==
  quiet_since' = [quiet_since EXCEPT ![t] =
    IF acted \/ t \in {"ascend", "handle_epoch"} THEN 0
    ELSE IF told \/ @ = 0 THEN end ELSE @]

record_success(t) ==
  /\ retry_after' = [retry_after EXCEPT ![t] = 0]
  /\ failures' = [failures EXCEPT ![t] = 0]
  /\ failed_at' = [failed_at EXCEPT ![t] = 0]

\* Mutation: a task never joins the recorded ones while the process lives.
RecordedAtStartOnly(t) == has_record

WithRecord(t) == has_record \cup {t}

\* The handler returned anything but False.
Completed(t) ==
  /\ record_success(t)
  /\ last_run' = [last_run EXCEPT ![t] = now]
  /\ has_record' = WithRecord(t)
  /\ _save_state(last_run', has_record')
  /\ done_at' = [done_at EXCEPT ![t] = now]
  /\ unfinished' = unfinished \ {t}

\* Mutation: last_run moves before it is known whether the task acted.
DeclinedAdvances(t) ==
  /\ record_success(t)
  /\ last_run' = [last_run EXCEPT ![t] = now]
  /\ UNCHANGED <<has_record, state_file, faults, done_at, unfinished>>

\* The handler returned False: not a failure and not a run.
Declined(t) ==
  /\ record_success(t)
  /\ UNCHANGED <<last_run, has_record, state_file, faults, done_at, unfinished>>

SkipWindow(t, end) == IF skipping_since[t] = 0 THEN end ELSE skipping_since[t]

\* Whether record_skip notifies: another threshold has passed since it did.
SkipSpeaks(t, end, alert) ==
  /\ alert
  /\ (end - SkipWindow(t, end)) \div skip_alert_after(t) > skip_alerts[t]

record_skip(t, end, alert) ==
  /\ skipping_since' = [skipping_since EXCEPT ![t] = SkipWindow(t, end)]
  /\ skip_alerts' = [skip_alerts EXCEPT ![t] =
       IF SkipSpeaks(t, end, alert)
       THEN (end - SkipWindow(t, end)) \div skip_alert_after(t) ELSE @]

clear_skips(t) ==
  /\ skipping_since' = [skipping_since EXCEPT ![t] = 0]
  /\ skip_alerts' = [skip_alerts EXCEPT ![t] = 0]

\* Mutation: a failure closes the window in which skips are counted.
FailureClosesSkips(t) == clear_skips(t)

\* record_failure leaves the skip window alone.
KeepSkips(t) == UNCHANGED <<skipping_since, skip_alerts>>

\* task_ascend and task_handle_epoch either raise or count as a run.
FinishPlain ==
  /\ mode = "run"
  /\ turn \in {"ascend", "handle_epoch"}
  /\ \E later \in now .. now + MaxRun :
       /\ now' = later
       /\ unpriced' \in
            IF turn = "ascend" THEN {unpriced, later} ELSE {unpriced}
       /\ Heard(turn, later, TRUE, FALSE)
  /\ Completed(turn)
  /\ AfterRun
  /\ UNCHANGED <<skipping_since, skip_alerts, resync_requested,
                 refusal_announced_at, stopping, told_at, answered>>

\* Any handler raising: the run stays owed and is retried on a backoff.  What
\* it had already sent may be on the chain.
Fail ==
  /\ mode = "run"
  /\ \E later \in now .. now + MaxRun :
       /\ now' = later
       /\ retry_after' = [retry_after EXCEPT ![turn] =
            RetryTime(turn, failures[turn] + 1, later)]
       /\ unpriced' \in CASE turn = "ascend" -> {unpriced, later}
            [] turn = "oracle_update" -> {unpriced} \cup
                 {Priced(read) : read \in now .. later}
            [] OTHER -> {unpriced}
       /\ failed_at' = [failed_at EXCEPT ![turn] = later]
       /\ Heard(turn, later, FALSE, (failures[turn] + 1) % alert_after = 0)
  /\ failures' = [failures EXCEPT ![turn] = @ + 1]
  /\ KeepSkips(turn)
  /\ AfterRun
  /\ UNCHANGED <<state_file, faults, last_run, has_record, resync_requested,
                 refusal_announced_at, stopping, done_at, unfinished, told_at,
                 answered>>

\* task_oracle_update after a write.
FinishOracleWritten ==
  /\ mode = "run"
  /\ turn = "oracle_update"
  /\ \E later \in now .. now + MaxRun, read \in now .. now + MaxRun :
       /\ read <= later
       /\ now' = later
       /\ unpriced' = Priced(read)
       /\ Heard(turn, later, TRUE, FALSE)
  /\ refusal_announced_at' = 0
  /\ clear_skips(turn)
  /\ Completed(turn)
  /\ AfterRun
  /\ told_at' = 0
  /\ UNCHANGED <<resync_requested, stopping, answered>>

\* Mutation: a refusal is announced on every retry.
AnnounceAlways == TRUE

\* Said once, then once per oracle interval.
announce ==
  \/ refusal_announced_at = 0
  \/ now - refusal_announced_at >= interval["oracle_update"]

\* task_oracle_update with nothing written.  skipped: some deployment waits
\* for a transfer; refused: a guard refused one; attention: there is something
\* to announce, a refusal or a deployment that failed.  The announcement may
\* not be delivered.
FinishOracleNotWritten ==
  /\ mode = "run"
  /\ turn = "oracle_update"
  /\ \E later \in now .. now + MaxRun, skipped, refused, failed,
        delivered \in BOOLEAN :
       LET attempt == announce /\ (refused \/ failed)
           alert == skipped \/ ~refused
       IN  /\ skipped \/ refused
           /\ delivered => attempt
           /\ now' = later
           /\ refusal_announced_at' =
                IF delivered THEN now ELSE refusal_announced_at
           /\ told_at' = IF delivered THEN now ELSE told_at
           /\ record_skip(turn, later, alert)
           /\ Heard(turn, later, FALSE,
                    attempt \/ SkipSpeaks(turn, later, alert))
  /\ Declined(turn)
  /\ AfterRun
  /\ UNCHANGED <<resync_requested, stopping, unpriced, answered>>

\* task_rebalance.  off: the oracle disagrees with the value for some
\* deployment, so a resync is requested and the task stays due; all: every
\* deployment was skipped.
FinishRebalance ==
  /\ mode = "run"
  /\ turn = "rebalance"
  /\ \E later \in now .. now + MaxRun, off, all \in BOOLEAN :
       /\ now' = later
       /\ resync_requested' = (resync_requested \/ off)
       /\ answered' = (answered /\ ~off)
       /\ IF all THEN record_skip(turn, later, TRUE) ELSE clear_skips(turn)
       /\ Heard(turn, later, ~all, SkipSpeaks(turn, later, all))
       /\ IF off THEN Declined(turn) ELSE Completed(turn)
  /\ AfterRun
  /\ UNCHANGED <<refusal_announced_at, stopping, unpriced, told_at>>

---------------------------------------------------------------------------
(* Pausing and stopping.                                                   *)

\* Mutation: the oracle follows ascend at once.
NoGap == 0

\* post_ascend_gap_seconds, slept after every run of ascend.
SettlingTime == gap

\* The pause after ascend is a plain sleep: a stop request does not cut it.
EndGap ==
  /\ mode = "gap"
  /\ now' = now + SettlingTime
  /\ Proceed
  /\ UNCHANGED <<state_file, faults, memory, history>>

\* The sleep between cycles ran its length.
EndSleep ==
  /\ mode = "sleep"
  /\ ~stopping
  /\ now + loop_sleep <= MaxTime
  /\ now' = now + loop_sleep
  /\ mode' = "loop"
  /\ UNCHANGED <<turn, state_file, faults, memory, history>>

\* Mutation: only the slots of a cycle look at the request.
StopSeenInSlotsOnly == {"loop"}

\* Where a stop request is honoured: before a slot and in the sleep.
StopPoints == {"loop", "sleep"}

\* run_cycle returns, run_forever breaks, main releases and returns.
Exit ==
  /\ stopping
  /\ mode \in StopPoints
  /\ mode' = "down"
  /\ Forgotten
  /\ UNCHANGED <<now, turn, state_file, faults, unpriced, done_at>>

Run ==
  \/ PassSlot \/ run_resync \/ StartTask
  \/ FinishPlain \/ Fail
  \/ FinishOracleWritten \/ FinishOracleNotWritten \/ FinishRebalance
  \/ EndGap \/ EndSleep \/ Exit

Next == Start \/ Crash \/ request_stop \/ Run

Spec == Init /\ [][Next]_vars

\* The process keeps executing as long as it is not killed.
FairSpec == Spec /\ WF_vars(Run)

---------------------------------------------------------------------------
(* Properties.                                                             *)

\* Every variable keeps its shape: memory, file, clock and history.
TypeOK ==
  /\ now \in Nat \ {0}
  /\ mode \in Modes
  /\ turn \in Task
  /\ last_run \in [Task -> Nat]
  /\ has_record \in SUBSET Task
  /\ state_file \in [Task -> Nat]
  /\ failures \in [Task -> Nat]
  /\ retry_after \in [Task -> Nat]
  /\ skipping_since \in [Task -> Nat]
  /\ skip_alerts \in [Task -> Nat]
  /\ resync_requested \in BOOLEAN
  /\ refusal_announced_at \in Nat
  /\ stopping \in BOOLEAN
  /\ faults \in Nat
  /\ unpriced \in Nat
  /\ done_at \in [Task -> Nat]
  /\ failed_at \in [Task -> Nat]
  /\ unfinished \in SUBSET Task
  /\ quiet_since \in [Task -> Nat]
  /\ told_at \in Nat
  /\ answered \in BOOLEAN

AscendDue(record) == is_due(record, now, interval["ascend"])

\* While the oracle lacks the newest distribution, the running process owes
\* either the write (the dependency rule) or another pass over ascend, after
\* which it owes the write.
OwedInMemory ==
  mode # "down" /\ "ascend" \in has_record /\ unpriced # 0 =>
    owes_dependency("oracle_update") \/ AscendDue(last_run["ascend"])

\* ... and so does a process started from the file as it is now.
OwedOnDisk ==
  state_file["ascend"] # 0 /\ unpriced # 0 =>
    \/ state_file["oracle_update"] = 0
    \/ state_file["ascend"] > state_file["oracle_update"]
    \/ AscendDue(state_file["ascend"])

\* No interleaving of runs, refusals, failures, failed saves, kills and
\* restarts marks the debt of a reward distribution as paid while the oracle
\* does not contain it (TASK_DEPENDENCIES, _has_record, the gap).
DistributionStaysOwed == OwedInMemory /\ OwedOnDisk

\* What makes DistributionStaysOwed inductive.  No stamp lies in the future and
\* the file is never ahead of the memory ...
StampsPast ==
  \A t \in Task :
    /\ last_run[t] <= now
    /\ state_file[t] <= now
    /\ mode # "down" /\ state_file[t] # 0 =>
         t \in has_record /\ state_file[t] <= last_run[t]

\* ... a run of ascend that is open or to be retried is due by its bucket ...
AscendOpen ==
  \/ RetryPending("ascend")
  \/ mode = "run" /\ turn = "ascend"

OpenMeansDue ==
  /\ mode = "down" => ~RetryPending("ascend")
  /\ AscendOpen => AscendDue(last_run["ascend"])

\* ... a run of ascend starts strictly after the oracle's last run ...
OracleBefore ==
  /\ turn = "ascend"
  /\ mode \in {"loop", "run"}
  /\ "oracle_update" \in has_record
  => last_run["oracle_update"] < now

\* ... and outside the gap every distribution is old enough to be read.
Readable ==
  unpriced # 0 =>
    IF mode \in {"gap", "down"} THEN unpriced <= now
    ELSE unpriced + SecureInterval <= now

OwedInv ==
  /\ DistributionStaysOwed
  /\ StampsPast
  /\ OpenMeansDue
  /\ OracleBefore
  /\ Readable

\* The two durations the argument rests on: the gap, and the time between a
\* kill and the next start, are at least as long as the reads lag.
SettledReads ==
  gap >= SecureInterval /\ \A pause \in RestartPauses : pause >= SecureInterval

\* A task that was started and did not complete keeps being owed, by a retry,
\* a debt or its bucket: failing and declining never use up the slot.
UnfinishedStaysDue ==
  mode # "down" =>
    \A t \in unfinished :
      \/ RetryPending(t)
      \/ owes_dependency(t)
      \/ is_due(last_run[t], now, interval[t])

\* The file never claims a run that did not complete: no seed, no declined and
\* no failed run is ever read back as one (_save_state's filter).
LedgerHonest == \A t \in Task : state_file[t] <= done_at[t]

\* What makes LedgerHonest inductive: the memory claims no more either.
HonestInv ==
  /\ LedgerHonest
  /\ \A t \in Task : done_at[t] <= now
  /\ \A t \in has_record : last_run[t] <= done_at[t]

\* A task whose last completed run this process knows of is not started again
\* in the same bucket, unless a run of it is still open, or it is the oracle
\* and ascend completed since, or ascend has no record and its seed is later
\* than that run.  Without it there is a write on every loop.
RunsAreEarned ==
  [][StartTask =>
       \/ turn \in unfinished
       \/ last_run[turn] # done_at[turn]
       \/ is_due(done_at[turn], now, interval[turn])
       \/ /\ turn = "oracle_update"
          /\ \/ done_at["ascend"] > done_at[turn]
             \/ "ascend" \notin has_record /\ last_run["ascend"] > done_at[turn]
      ]_vars

\* A failed task rests for its backoff, counted from the end of the failed
\* run, however long that run took.
RetriesPaced ==
  [][StartTask /\ failures[turn] > 0 =>
       now >= failed_at[turn] + retry_delay(turn, failures[turn])]_vars

\* Longest time between two slots of a task.
CycleTime == loop_sleep + gap + 4 * MaxRun

Larger(a, b) == IF a < b THEN b ELSE a

\* What a failure may cost: its backoff, and the cycle in which that ends.
FailureTime(t) == interval[t] + CycleTime

\* A threshold (of skips, or of repeated announcements) has to pass.  Before its
\* window opens there are at most alert_after failures since the last report,
\* and after the last run that declined without speaking at most
\* alert_after - 1, for the next one is reported.
SilenceLimit(t) ==
  Larger(skip_alert_after(t), interval[t])
    + (2 * alert_after - 1) * FailureTime(t)

\* However failures, skips and refusals alternate, a task that keeps not
\* acting is reported within a bounded time: a run that ends later than that
\* after the last report speaks or acts (record_failure keeps the skip window;
\* record_skip counts time, not attempts).
NoSilentStandstill ==
  [][mode = "run" /\ mode' \notin {"run", "down"} /\ quiet_since'[turn] # 0 =>
       now' - quiet_since'[turn] <= SilenceLimit(turn)]_vars

\* A refusal that stands is announced once per oracle interval, not on every
\* retry (refusal_announced_at).
RefusalPaced ==
  [][told_at # 0 /\ told_at' # 0 /\ told_at' # told_at =>
       told_at' - told_at >= interval["oracle_update"]]_vars

\* An oracle run that writes leaves no distribution behind: the gap is long
\* enough for its lagged read to land after the distribution.
WriteContainsDistribution == [][FinishOracleWritten => unpriced' = 0]_vars

\* When rebalancing runs after it has found the oracle out of line, a write of
\* the oracle has been attempted in between, unless the oracle is in backoff.
RefusalAnswered ==
  mode = "run" /\ turn = "rebalance" =>
    answered \/ RetryPending("oracle_update")

\* A requested stop is honoured, from whatever the process was doing.
StopHonoured == stopping ~> mode = "down"
=============================================================================
