------------------------ MODULE SchedulerPacingProofs ------------------------
(***************************************************************************)
(* Theorems about what the scheduler may do next, and when: retries keep   *)
(* their distance, runs are earned, a refusal is announced once per        *)
(* interval, and no task stands still in silence for longer than a bound.  *)
(***************************************************************************)
EXTENDS SchedulerProofs

\* A handler's run ends in one of three ways; no other step but the end of the
\* process touches what is known of the tasks.
LEMMA StepKinds ==
  ASSUME [Next]_vars
  PROVE  \/ Start \/ Crash \/ Exit
         \/ mode = "run" /\ (Fail \/ Completed(turn) \/ Declined(turn))
         \/ UNCHANGED <<failures, retry_after, failed_at, last_run, has_record,
                        done_at>>
            /\ (mode = "down" <=> mode' = "down")
<1>1. CASE FinishPlain \/ FinishOracleWritten \/ FinishOracleNotWritten
           \/ FinishRebalance \/ Fail
  BY <1>1 DEF FinishPlain, FinishOracleWritten, FinishOracleNotWritten,
              FinishRebalance, Fail
<1>2. CASE request_stop \/ PassSlot \/ run_resync \/ StartTask \/ EndGap
           \/ EndSleep \/ UNCHANGED vars
  BY <1>2 DEF request_stop, PassSlot, run_resync, StartTask, EndGap, EndSleep,
              InSlot, Proceed, vars, memory, history
<1> QED
  BY <1>1, <1>2 DEF Next, Run

---------------------------------------------------------------------------
(* Retries.                                                                *)

\* A task that failed has a retry to wait for, a backoff after its failure.
RetryInv ==
  \A t \in Task :
    failures[t] > 0 =>
      /\ RetryPending(t)
      /\ retry_after[t] = failed_at[t] + retry_delay(t, failures[t])

LEMMA RetryNext == ASSUME TypeOK, RetryInv, [Next]_vars PROVE RetryInv'
<1>1. CASE Crash \/ Exit
  BY <1>1 DEF Crash, Exit, Forgotten, RetryInv, AllTasks
<1>2. CASE Fail
  <2>1. PICK later \in now .. now + MaxRun :
          /\ retry_after' = [retry_after EXCEPT ![turn] =
               RetryTime(turn, failures[turn] + 1, later)]
          /\ failed_at' = [failed_at EXCEPT ![turn] = later]
    BY <1>2 DEF Fail
  <2>2. failures' = [failures EXCEPT ![turn] = @ + 1]
    BY <1>2 DEF Fail
  <2>3. /\ later \in Nat \ {0} /\ failures[turn] + 1 \in Nat \ {0}
        /\ retry_delay(turn, failures[turn] + 1) \in Nat
    BY LaterType, DelayType DEF TypeOK
  <2>4. ASSUME NEW t \in Task, failures'[t] > 0
        PROVE  /\ retry_after'[t] # 0
               /\ retry_after'[t] = failed_at'[t] + retry_delay(t, failures'[t])
    <3>1. CASE t = turn
      <4>1. /\ retry_after'[t] = later + retry_delay(t, failures[t] + 1)
            /\ failed_at'[t] = later /\ failures'[t] = failures[t] + 1
        BY <2>1, <2>2, <3>1 DEF TypeOK, RetryTime
      <4> QED BY <2>3, <3>1, <4>1
    <3>2. CASE t # turn
      BY <2>1, <2>2, <2>4, <3>2 DEF RetryInv, RetryPending, TypeOK
    <3> QED BY <3>1, <3>2
  <2> QED BY <2>4 DEF RetryInv, RetryPending, retry_delay
<1>3. CASE Completed(turn) \/ Declined(turn)
  BY <1>3 DEF Completed, Declined, record_success, RetryInv, RetryPending,
              TypeOK, retry_delay
<1>4. CASE Start \/ UNCHANGED <<failures, retry_after, failed_at>>
  BY <1>4 DEF Start, history, RetryInv, RetryPending, retry_delay
<1> QED BY <1>1, <1>2, <1>3, <1>4, StepKinds

\* Whatever the backoff and however long runs take: a task that failed is not
\* started again before its backoff, counted from the end of the failed run,
\* has passed.
THEOREM RetriesArePaced == Spec => RetriesPaced
<1>1. Init => RetryInv
  BY DEF Init, RetryInv, AllTasks
<1>2. TypeOK /\ RetryInv /\ [Next]_vars => RetryInv'
  BY RetryNext
<1>3. TypeOK /\ RetryInv =>
        [StartTask /\ failures[turn] > 0 =>
           now >= failed_at[turn] + retry_delay(turn, failures[turn])]_vars
  BY DEF StartTask, Due, RetryInv, TypeOK
<1> QED BY <1>1, <1>2, <1>3, TypeCorrect, PTL DEF Spec, RetriesPaced

---------------------------------------------------------------------------
(* Refusals.                                                               *)

\* The last alert that was delivered is the one the next is measured from.
ToldInv == told_at # 0 => told_at = refusal_announced_at

LEMMA ToldNext ==
  ASSUME TypeOK, ToldInv, [Next]_vars
  PROVE  /\ ToldInv'
         /\ told_at # 0 /\ told_at' # 0 /\ told_at' # told_at =>
              told_at' - told_at >= interval["oracle_update"]
<1>1. CASE Crash \/ Exit
  BY <1>1 DEF Crash, Exit, Forgotten, ToldInv
<1>2. CASE FinishOracleWritten
  BY <1>2 DEF FinishOracleWritten, ToldInv
<1>3. CASE FinishOracleNotWritten
  <2>1. PICK delivered \in BOOLEAN :
          /\ delivered => announce
          /\ refusal_announced_at' =
               IF delivered THEN now ELSE refusal_announced_at
          /\ told_at' = IF delivered THEN now ELSE told_at
    BY <1>3 DEF FinishOracleNotWritten
  <2> QED BY <2>1 DEF announce, ToldInv, TypeOK
<1>4. CASE \/ Start \/ request_stop \/ PassSlot \/ run_resync \/ StartTask
           \/ FinishPlain \/ Fail \/ FinishRebalance \/ EndGap \/ EndSleep
           \/ UNCHANGED vars
  <2>1. UNCHANGED <<told_at, refusal_announced_at>>
    BY <1>4 DEF Start, request_stop, PassSlot, run_resync, StartTask, FinishPlain,
       Fail, FinishRebalance, EndGap, EndSleep, vars, memory, history
  <2> QED BY <2>1 DEF ToldInv
<1> QED BY <1>1, <1>2, <1>3, <1>4 DEF Next, Run

\* Two alerts about a refusal that stands are an oracle interval apart, however
\* often the oracle's run is retried in between.
THEOREM RefusalsArePaced == Spec => RefusalPaced
<1>1. Init => ToldInv
  BY DEF Init, ToldInv
<1>2. TypeOK /\ ToldInv /\ [Next]_vars => ToldInv'
  BY ToldNext
<1>3. TypeOK /\ ToldInv /\ [Next]_vars =>
        [told_at # 0 /\ told_at' # 0 /\ told_at' # told_at =>
           told_at' - told_at >= interval["oracle_update"]]_vars
  BY ToldNext
<1> QED BY <1>1, <1>2, <1>3, TypeCorrect, PTL DEF Spec, RefusalPaced

---------------------------------------------------------------------------
(* Runs.                                                                   *)

\* A task without a record is seeded with a later time than its last run.
SeedInv ==
  mode # "down" =>
    \A t \in Task \ has_record : last_run[t] > done_at[t]

LEMMA SeedNext ==
  ASSUME TypeOK, TypeOK', HonestInv, SeedInv, [Next]_vars PROVE SeedInv'
<1>1. CASE Start
  <2>1. PICK pause \in RestartPauses :
          last_run' = [t \in Task |->
            IF state_file[t] # 0 THEN state_file[t] ELSE now + pause]
    BY <1>1 DEF Start
  <2>2. /\ has_record' = {t \in Task : state_file[t] # 0} /\ done_at' = done_at
        /\ pause \in Nat \ {0}
    BY <1>1, ConstantsAssumption DEF Start, history
  <2> QED BY <2>1, <2>2 DEF SeedInv, HonestInv, TypeOK
<1>2. CASE Crash \/ Exit
  BY <1>2 DEF Crash, Exit, SeedInv
<1>3. CASE mode = "run" /\ Completed(turn)
  BY <1>3 DEF Completed, WithRecord, SeedInv, TypeOK
<1>4. CASE /\ mode = "down" <=> mode' = "down"
           /\ UNCHANGED <<last_run, has_record, done_at>>
  BY <1>4 DEF SeedInv
<1>5. CASE mode = "run" /\ (Fail \/ Declined(turn))
  BY <1>5 DEF Fail, Declined, SeedInv
<1> QED BY <1>1, <1>2, <1>3, <1>4, <1>5, StepKinds

\* A task is started because a run of it is open, for its bucket, or, if it is
\* the oracle, for a distribution that is later than its last run.
LEMMA StartsEarned ==
  ASSUME TypeOK, HonestInv, DueInv, SeedInv, StartTask
  PROVE  \/ turn \in unfinished
         \/ last_run[turn] # done_at[turn]
         \/ is_due(done_at[turn], now, interval[turn])
         \/ /\ turn = "oracle_update"
            /\ \/ done_at["ascend"] > done_at[turn]
               \/ "ascend" \notin has_record /\ last_run["ascend"] > done_at[turn]
<1> SUFFICES ASSUME turn \notin unfinished, last_run[turn] = done_at[turn],
                    ~is_due(done_at[turn], now, interval[turn])
             PROVE  /\ turn = "oracle_update"
                    /\ \/ done_at["ascend"] > done_at[turn]
                       \/ /\ "ascend" \notin has_record
                          /\ last_run["ascend"] > done_at[turn]
  OBVIOUS
<1>1. /\ turn \in Task /\ mode = "loop" /\ ~RetryPending(turn)
      /\ last_run[turn] \in Nat /\ last_run["ascend"] \in Nat
      /\ done_at["ascend"] \in Nat
  BY DEF StartTask, InSlot, DueInv, TypeOK, Task
<1>2. owes_dependency(turn)
  BY <1>1 DEF StartTask, Due
<1>3. turn = "oracle_update" /\ turn \in has_record
  BY <1>1, <1>2 DEF owes_dependency, SeedInv
<1>4. last_run["ascend"] > done_at[turn]
  BY <1>2, <1>3 DEF owes_dependency
<1>5. "ascend" \in has_record => last_run["ascend"] <= done_at["ascend"]
  BY DEF HonestInv
<1> QED BY <1>1, <1>3, <1>4, <1>5

\* Whatever restarts, failed saves and declined runs came before: a task whose
\* last completed run the process knows of is started again only for a reason.
THEOREM RunsEarned == Spec => RunsAreEarned
<1>1. Init => DueInv /\ SeedInv
  BY DEF Init, DueInv, SeedInv, RetryPending, AllTasks
<1>2. TypeOK /\ TypeOK' /\ HonestInv /\ DueInv /\ SeedInv /\ [Next]_vars =>
        (DueInv /\ SeedInv)'
  BY DueNext, SeedNext
<1>3. TypeOK /\ HonestInv /\ DueInv /\ SeedInv =>
        [StartTask =>
           \/ turn \in unfinished
           \/ last_run[turn] # done_at[turn]
           \/ is_due(done_at[turn], now, interval[turn])
           \/ /\ turn = "oracle_update"
              /\ \/ done_at["ascend"] > done_at[turn]
                 \/ "ascend" \notin has_record /\ last_run["ascend"] > done_at[turn]
        ]_vars
  BY StartsEarned
<1> QED BY <1>1, <1>2, <1>3, HonestAlways, PTL DEF Spec, RunsAreEarned
---------------------------------------------------------------------------
(* Silence.  A task that does not act fails or declines.  Failures are     *)
(* reported in batches of alert_after, declines when a threshold has       *)
(* passed since the first of them; the invariant follows how far the last  *)
(* report lies behind the last failure, the window of the declines, and    *)
(* the clock.                                                              *)

\* The tasks that can decline.
Decliners == {"oracle_update", "rebalance"}

\* The longest time from the end of t's last slot to this place in the cycle.
Waited(t) ==
  IF t = "oracle_update"
  THEN IF mode = "sleep" THEN 2 * MaxRun
       ELSE IF mode = "gap" THEN 3 * MaxRun + loop_sleep
       ELSE IF turn = "rebalance" THEN 0
       ELSE IF turn = "handle_epoch" THEN MaxRun
       ELSE IF turn = "ascend" THEN 2 * MaxRun + loop_sleep
       ELSE 3 * MaxRun + loop_sleep + gap
  ELSE IF mode = "sleep" THEN MaxRun
       ELSE IF mode = "gap" THEN 2 * MaxRun + loop_sleep
       ELSE IF turn = "handle_epoch" THEN 0
       ELSE IF turn = "ascend" THEN MaxRun + loop_sleep
       ELSE IF turn = "oracle_update" THEN 2 * MaxRun + loop_sleep + gap
       ELSE 3 * MaxRun + loop_sleep + gap

\* How long after the last report a run may decline without speaking.
DeclineLimit(t) ==
  Larger(skip_alert_after(t), interval[t]) + alert_after * FailureTime(t)

\* A task that is not quiet has nothing open: no failure, no window of skips,
\* no refusal announced.
NothingOpen(t) ==
  /\ failures[t] = 0 /\ skipping_since[t] = 0
  /\ t = "oracle_update" => refusal_announced_at = 0

\* The last threshold passed in the window, and the last announcement, are not
\* later than the last report, but for the failures before the window.
WindowsReported(t) ==
  /\ failures[t] = 0 => skipping_since[t] # 0
  /\ skipping_since[t] + skip_alert_after(t) * skip_alerts[t]
       <= quiet_since[t] + alert_after * FailureTime(t)
  /\ t = "oracle_update" =>
       t \in unfinished /\ refusal_announced_at <= quiet_since[t]

\* After a run that declined: it did so within the limit, and the next run
\* comes with the schedule.
AfterDecline(t) ==
  failures[t] = 0 =>
    /\ last_run[t] <= quiet_since[t] + DeclineLimit(t)
    /\ now <= quiet_since[t] + DeclineLimit(t) + interval[t] + Waited(t)

\* After a failure: each since the last report took its time, and the next run
\* comes with the retry.
AfterFailure(t) ==
  failures[t] > 0 =>
    /\ failed_at[t] <= quiet_since[t]
         + (IF skipping_since[t] = 0 THEN 0 ELSE DeclineLimit(t))
         + (failures[t] % alert_after) * FailureTime(t)
    /\ now <= failed_at[t] + interval[t] + Waited(t)

QuietOf(t) ==
  /\ quiet_since[t] <= now /\ skipping_since[t] <= now
  /\ skipping_since[t] = 0 => skip_alerts[t] = 0
  /\ failures[t] > 0 <=> RetryPending(t)
  /\ quiet_since[t] = 0 => NothingOpen(t)
  /\ quiet_since[t] # 0 =>
       WindowsReported(t) /\ AfterDecline(t) /\ AfterFailure(t)

QuietInv ==
  /\ mode \in {"gap", "sleep"} => turn = "ascend"
  /\ mode = "down" => \A t \in Decliners : quiet_since[t] = 0
  /\ \A t \in Decliners : QuietOf(t)

\* m failures of an incomplete batch and one more are at most a batch.
LEMMA BatchTime ==
  ASSUME NEW m \in Nat, NEW a \in Nat, NEW f \in Nat, m < a
  PROVE  /\ m * f \in Nat /\ a * f \in Nat
         /\ m * f + f <= a * f
         /\ (m + 1) * f = m * f + f
<1>1. (a - m - 1) * f \in Nat /\ m * f \in Nat /\ a * f \in Nat
  OBVIOUS
<1>2. (a - m - 1) * f = a * f - m * f - f
  OBVIOUS
<1> QED BY <1>1, <1>2

\* Division with remainder, and that it is unique.
LEMMA Division ==
  ASSUME NEW x \in Nat, NEW a \in Nat \ {0}
  PROVE  /\ x \div a \in Nat /\ x % a \in Nat /\ x % a < a
         /\ x = (x \div a) * a + (x % a)
  OBVIOUS

LEMMA Remainder ==
  ASSUME NEW a \in Nat \ {0}, NEW q \in Nat, NEW r \in Nat, r < a
  PROVE  (q * a + r) % a = r
<1> DEFINE x == q * a + r
           p == x \div a
<1>1. x \in Nat /\ q * a \in Nat
  OBVIOUS
<1> HIDE DEF x
<1>2. p \in Nat /\ x % a \in Nat /\ x % a < a /\ x = p * a + (x % a)
  BY <1>1, Division
<1> HIDE DEF p
<1>3. x = q * a + r /\ p * a \in Nat
  BY <1>2 DEF x
<1>4. ~(p < q) /\ ~(q < p)
  BY <1>1, <1>2, <1>3, BatchTime
<1>5. p = q
  BY <1>2, <1>4
<1> QED BY <1>1, <1>2, <1>3, <1>5 DEF x

\* Counting in batches of a: the next count is one more, unless it is full.
LEMMA BatchGrows ==
  ASSUME NEW n \in Nat, NEW a \in Nat \ {0}, (n + 1) % a # 0
  PROVE  (n + 1) % a = (n % a) + 1
<1> DEFINE q == n \div a
           r == n % a
<1>1. q \in Nat /\ r \in Nat /\ r < a /\ n = q * a + r
  BY Division
<1> HIDE DEF q, r
<1>2. CASE r + 1 < a
  <2>1. (q * a + (r + 1)) % a = r + 1
    BY <1>1, <1>2, Remainder
  <2>2. n + 1 = q * a + (r + 1)
    BY <1>1
  <2> QED BY <2>1, <2>2 DEF r
<1>3. CASE r + 1 = a
  <2>1. ((q + 1) * a + 0) % a = 0
    BY <1>1, Remainder
  <2>2. n + 1 = (q + 1) * a + 0
    BY <1>1, <1>3, BatchTime
  <2> QED BY <2>1, <2>2
<1> QED BY <1>1, <1>2, <1>3

\* A threshold that has been counted has passed, and the next one has not.
LEMMA Thresholds ==
  ASSUME NEW x \in Nat, NEW s \in Nat \ {0}
  PROVE  /\ x \div s \in Nat
         /\ s * (x \div s) <= x
         /\ x < s * (x \div s) + s
  OBVIOUS
\* What is not due comes less than an interval after the last run.
LEMMA SameBucket ==
  ASSUME NEW last \in Nat, NEW time \in Nat, NEW i \in Nat \ {0},
         ~is_due(last, time, i)
  PROVE  time <= last + i
<1> DEFINE a == time \div i
           b == last \div i
<1>1. /\ a \in Nat /\ b \in Nat
      /\ time < i * a + i /\ i * b <= last
  BY Thresholds
<1>2. a <= b
  BY <1>1 DEF is_due
<1> HIDE DEF a, b
<1>3. (b - a) * i \in Nat /\ i * a \in Nat /\ i * b \in Nat
  BY <1>1, <1>2
<1>4. (b - a) * i = i * b - i * a
  BY <1>1
<1> QED BY <1>1, <1>3, <1>4

\* The quantities of the argument, and how they compare.
LEMMA Limits ==
  ASSUME NEW t \in Decliners
  PROVE  /\ t \in Task /\ t # "ascend" /\ t # "handle_epoch"
         /\ interval[t] \in Nat \ {0} /\ skip_alert_after(t) \in Nat \ {0}
         /\ MaxRun \in Nat /\ loop_sleep \in Nat /\ gap \in Nat
         /\ alert_after \in Nat \ {0}
         /\ CycleTime \in Nat /\ MaxRun <= CycleTime
         /\ FailureTime(t) \in Nat /\ FailureTime(t) = interval[t] + CycleTime
         /\ alert_after * FailureTime(t) \in Nat
         /\ FailureTime(t) <= alert_after * FailureTime(t)
         /\ DeclineLimit(t) \in Nat
         /\ skip_alert_after(t) + alert_after * FailureTime(t) <= DeclineLimit(t)
         /\ interval[t] + alert_after * FailureTime(t) <= DeclineLimit(t)
         /\ SilenceLimit(t) = DeclineLimit(t)
              + (alert_after * FailureTime(t) - FailureTime(t))
<1>1. /\ t \in Task /\ t # "ascend" /\ t # "handle_epoch"
      /\ interval[t] \in Nat \ {0}
      /\ MaxRun \in Nat /\ loop_sleep \in Nat /\ gap \in Nat
      /\ alert_after \in Nat \ {0}
  BY ConstantsAssumption DEF Decliners, Task
<1>2. skip_alert_after(t) \in Nat \ {0}
  <2>1. alert_after * interval[t] \in Nat \ {0}
    BY <1>1
  <2> QED BY <2>1, ConstantsAssumption DEF skip_alert_after
<1>3. CycleTime \in Nat /\ MaxRun <= CycleTime
  BY <1>1 DEF CycleTime
<1>4. FailureTime(t) \in Nat /\ FailureTime(t) = interval[t] + CycleTime
  BY <1>1, <1>3 DEF FailureTime
<1> DEFINE f == FailureTime(t)
           l == Larger(skip_alert_after(t), interval[t])
<1>5. l \in Nat /\ skip_alert_after(t) <= l /\ interval[t] <= l
  BY <1>1, <1>2 DEF Larger
<1>6. DeclineLimit(t) = l + alert_after * f
      /\ SilenceLimit(t) = l + (2 * alert_after - 1) * f
  BY DEF DeclineLimit, SilenceLimit
<1>7. f \in Nat
  BY <1>4
<1> HIDE DEF f, l
<1>8. alert_after * f \in Nat /\ f <= alert_after * f
  <2>1. 0 * f + f <= alert_after * f /\ alert_after * f \in Nat /\ 0 * f = 0
    BY <1>1, <1>7, BatchTime
  <2> QED BY <1>7, <2>1
<1>9. (2 * alert_after - 1) * f = alert_after * f + (alert_after * f - f)
  BY <1>1, <1>7
<1>10. /\ DeclineLimit(t) \in Nat
       /\ skip_alert_after(t) + alert_after * f <= DeclineLimit(t)
       /\ interval[t] + alert_after * f <= DeclineLimit(t)
       /\ SilenceLimit(t) = DeclineLimit(t) + (alert_after * f - f)
  BY <1>1, <1>2, <1>5, <1>6, <1>7, <1>8, <1>9
<1> QED BY <1>1, <1>2, <1>3, <1>4, <1>8, <1>10 DEF f

\* A batch is not full before its last failure.
LEMMA Batches ==
  ASSUME NEW t \in Decliners, NEW n \in Nat
  PROVE  /\ (n % alert_after) * FailureTime(t) \in Nat
         /\ (n % alert_after) * FailureTime(t) + FailureTime(t)
              <= alert_after * FailureTime(t)
         /\ (n + 1) % alert_after # 0 =>
              ((n + 1) % alert_after) * FailureTime(t)
                = (n % alert_after) * FailureTime(t) + FailureTime(t)
<1> DEFINE f == FailureTime(t)
<1>1. alert_after \in Nat \ {0} /\ f \in Nat
  BY Limits
<1> HIDE DEF f
<1>2. n % alert_after \in Nat /\ n % alert_after < alert_after
  BY <1>1, Division
<1>3. /\ (n % alert_after) * f \in Nat
      /\ (n % alert_after) * f + f <= alert_after * f
      /\ ((n % alert_after) + 1) * f = (n % alert_after) * f + f
  BY <1>1, <1>2, BatchTime
<1>4. (n + 1) % alert_after # 0 => (n + 1) % alert_after = (n % alert_after) + 1
  BY <1>1, BatchGrows
<1> QED BY <1>3, <1>4 DEF f

---------------------------------------------------------------------------
(* The clock between two slots of a task.                                  *)

LEMMA WaitedType ==
  ASSUME TypeOK, NEW t \in Decliners
  PROVE  Waited(t) \in Nat /\ Waited(t) + MaxRun <= CycleTime
<1>1. MaxRun \in Nat /\ loop_sleep \in Nat /\ gap \in Nat
  BY Limits
<1> QED BY <1>1 DEF Waited, CycleTime

LEMMA WaitedNext ==
  ASSUME TypeOK', NEW t \in Decliners
  PROVE  Waited(t)' \in Nat
<1>1. MaxRun \in Nat /\ loop_sleep \in Nat /\ gap \in Nat
  BY Limits
<1> QED BY <1>1 DEF Waited

\* A slot of another task takes a run of time, and is allowed it.
LEMMA WaitGrows ==
  ASSUME TypeOK, NEW t \in Decliners, turn # t, mode \in {"loop", "run"},
         Proceed \/ AfterRun
  PROVE  Waited(t) + MaxRun <= Waited(t)'
<1>1. MaxRun \in Nat /\ loop_sleep \in Nat /\ gap \in Nat
  BY Limits
<1>2. CASE Proceed
  BY <1>1, <1>2 DEF Waited, Proceed, After, TypeOK, Task, Decliners
<1>3. CASE AfterRun /\ turn = "ascend"
  BY <1>1, <1>3 DEF Waited, AfterRun, Decliners
<1> QED BY <1>2, <1>3 DEF AfterRun

LEMMA WaitStarts ==
  ASSUME NEW t \in Decliners, turn = t, Proceed \/ AfterRun
  PROVE  Waited(t)' = 0 /\ mode' = "loop"
  BY DEF Waited, Proceed, AfterRun, After, Decliners

LEMMA WaitGap ==
  ASSUME NEW t \in Decliners, mode = "gap", turn = "ascend", Proceed
  PROVE  Waited(t)' = Waited(t) + gap
<1>1. MaxRun \in Nat /\ loop_sleep \in Nat /\ gap \in Nat
  BY Limits
<1> QED BY <1>1 DEF Waited, Proceed, After, Decliners

LEMMA WaitSleep ==
  ASSUME NEW t \in Decliners, mode = "sleep", turn = "ascend", mode' = "loop",
         turn' = turn
  PROVE  Waited(t)' = Waited(t) + loop_sleep
<1>1. MaxRun \in Nat /\ loop_sleep \in Nat /\ gap \in Nat
  BY Limits
<1> QED BY <1>1 DEF Waited, Decliners
---------------------------------------------------------------------------
(* The steps, for one task.                                                *)

\* What is known of t stays as it is.
SameFor(t) ==
  /\ failures'[t] = failures[t] /\ retry_after'[t] = retry_after[t]
  /\ failed_at'[t] = failed_at[t] /\ skipping_since'[t] = skipping_since[t]
  /\ skip_alerts'[t] = skip_alerts[t] /\ quiet_since'[t] = quiet_since[t]
  /\ t = "oracle_update" => refusal_announced_at' = refusal_announced_at

\* Time passes, and t's place in the cycle allows for it.
LEMMA QuietKept ==
  ASSUME TypeOK, TypeOK', NEW t \in Decliners, QuietOf(t), SameFor(t),
         now <= now',
         quiet_since[t] # 0 =>
           /\ last_run'[t] = last_run[t]
           /\ t = "oracle_update" => t \in unfinished'
           /\ now' - now <= Waited(t)' - Waited(t)
  PROVE  QuietOf(t)'
<1>1. /\ now \in Nat /\ now' \in Nat /\ Waited(t) \in Nat /\ Waited(t)' \in Nat
      /\ quiet_since[t] \in Nat /\ skipping_since[t] \in Nat
      /\ failed_at[t] \in Nat /\ last_run[t] \in Nat
      /\ interval[t] \in Nat /\ DeclineLimit(t) \in Nat
  BY Limits, WaitedType, WaitedNext DEF TypeOK
<1>2. /\ quiet_since'[t] <= now' /\ skipping_since'[t] <= now'
      /\ skipping_since'[t] = 0 => skip_alerts'[t] = 0
      /\ failures'[t] > 0 <=> RetryPending(t)'
      /\ quiet_since'[t] = 0 => NothingOpen(t)'
  BY <1>1 DEF QuietOf, SameFor, NothingOpen, RetryPending
<1>3. ASSUME quiet_since[t] # 0
      PROVE  WindowsReported(t)' /\ AfterDecline(t)' /\ AfterFailure(t)'
  <2>1. WindowsReported(t)'
    BY <1>3 DEF QuietOf, SameFor, WindowsReported, skip_alert_after, FailureTime,
                CycleTime
  <2>2. AfterDecline(t)'
    <3>1. failures[t] = 0 =>
            /\ last_run[t] <= quiet_since[t] + DeclineLimit(t)
            /\ now <= quiet_since[t] + DeclineLimit(t) + interval[t] + Waited(t)
      BY <1>3 DEF QuietOf, AfterDecline
    <3>2. DeclineLimit(t)' = DeclineLimit(t)
      BY DEF DeclineLimit, skip_alert_after, FailureTime, CycleTime
    <3> QED BY <1>1, <1>3, <3>1, <3>2 DEF SameFor, AfterDecline
  <2>3. AfterFailure(t)'
    <3>1. failures[t] > 0 => now <= failed_at[t] + interval[t] + Waited(t)
      BY <1>3 DEF QuietOf, AfterFailure
    <3>2. failures'[t] > 0 => now' <= failed_at'[t] + interval[t] + Waited(t)'
      BY <1>1, <1>3, <3>1 DEF SameFor
    <3>3. failures[t] > 0 =>
            failed_at[t] <= quiet_since[t]
              + (IF skipping_since[t] = 0 THEN 0 ELSE DeclineLimit(t))
              + (failures[t] % alert_after) * FailureTime(t)
      BY <1>3 DEF QuietOf, AfterFailure
    <3>4. /\ DeclineLimit(t)' = DeclineLimit(t) /\ FailureTime(t)' = FailureTime(t)
      BY DEF DeclineLimit, skip_alert_after, FailureTime, CycleTime
    <3> QED BY <3>2, <3>3, <3>4 DEF SameFor, AfterFailure
  <2> QED BY <2>1, <2>2, <2>3
<1> QED BY <1>2, <1>3 DEF QuietOf, SameFor

\* t's own slot passes while it waits, for its retry or its bucket.
LEMMA QuietPassed ==
  ASSUME TypeOK, TypeOK', NEW t \in Decliners, QuietOf(t), SameFor(t), RetryInv,
         now' = now, last_run'[t] = last_run[t], unfinished' = unfinished,
         ~Due(t), Waited(t)' = 0
  PROVE  QuietOf(t)'
<1>1. /\ now \in Nat /\ quiet_since[t] \in Nat /\ failures[t] \in Nat
      /\ failed_at[t] \in Nat /\ last_run[t] \in Nat /\ retry_after[t] \in Nat
      /\ t \in Task /\ interval[t] \in Nat \ {0} /\ DeclineLimit(t) \in Nat
  BY Limits DEF TypeOK
<1>2. failures[t] > 0 => now <= failed_at[t] + interval[t]
  <2> SUFFICES ASSUME failures[t] > 0 PROVE now <= failed_at[t] + interval[t]
    OBVIOUS
  <2>1. /\ RetryPending(t) /\ now < retry_after[t]
        /\ retry_after[t] = failed_at[t] + retry_delay(t, failures[t])
    BY <1>1 DEF RetryInv, Due
  <2>2. retry_delay(t, failures[t]) <= interval[t]
        /\ retry_delay(t, failures[t]) \in Nat
    <3>1. retry_delay(t, failures[t]) \in Nat
      BY <1>1, DelayType
    <3> QED BY <1>1, <3>1 DEF retry_delay
  <2> QED BY <1>1, <2>1, <2>2
<1>3. failures[t] = 0 => now <= last_run[t] + interval[t]
  <2> SUFFICES ASSUME failures[t] = 0 PROVE now <= last_run[t] + interval[t]
    OBVIOUS
  <2>1. ~is_due(last_run[t], now, interval[t])
    BY <1>1 DEF QuietOf, Due
  <2> QED BY <1>1, <2>1, SameBucket
<1>4. /\ quiet_since'[t] <= now' /\ skipping_since'[t] <= now'
      /\ skipping_since'[t] = 0 => skip_alerts'[t] = 0
      /\ failures'[t] > 0 <=> RetryPending(t)'
      /\ quiet_since'[t] = 0 => NothingOpen(t)'
  BY DEF QuietOf, SameFor, NothingOpen, RetryPending
<1>5. ASSUME quiet_since[t] # 0
      PROVE  WindowsReported(t)' /\ AfterDecline(t)' /\ AfterFailure(t)'
  <2>1. WindowsReported(t)'
    BY <1>5 DEF QuietOf, SameFor, WindowsReported, skip_alert_after, FailureTime,
                CycleTime
  <2>2. /\ DeclineLimit(t)' = DeclineLimit(t) /\ FailureTime(t)' = FailureTime(t)
    BY DEF DeclineLimit, skip_alert_after, FailureTime, CycleTime
  <2>3. AfterDecline(t)'
    <3>1. failures[t] = 0 => last_run[t] <= quiet_since[t] + DeclineLimit(t)
      BY <1>5 DEF QuietOf, AfterDecline
    <3> QED BY <1>1, <1>3, <2>2, <3>1 DEF SameFor, AfterDecline
  <2>4. AfterFailure(t)'
    <3>1. failures[t] > 0 =>
            failed_at[t] <= quiet_since[t]
              + (IF skipping_since[t] = 0 THEN 0 ELSE DeclineLimit(t))
              + (failures[t] % alert_after) * FailureTime(t)
      BY <1>5 DEF QuietOf, AfterFailure
    <3>2. failures'[t] > 0 => now' <= failed_at'[t] + interval[t] + Waited(t)'
      BY <1>1, <1>2 DEF SameFor
    <3> QED BY <2>2, <3>1, <3>2 DEF SameFor, AfterFailure
  <2> QED BY <2>1, <2>3, <2>4
<1> QED BY <1>4, <1>5 DEF QuietOf, SameFor
\* A run that ends: how long t has been quiet is within the limit.
WithinSilence(t) ==
  quiet_since'[t] # 0 => now' - quiet_since'[t] <= SilenceLimit(t)

\* A run that acts leaves nothing open.
LEMMA QuietActed ==
  ASSUME TypeOK', NEW t \in Decliners, quiet_since'[t] = 0,
         failures'[t] = 0, retry_after'[t] = 0, skipping_since'[t] = 0,
         skip_alerts'[t] = 0, t = "oracle_update" => refusal_announced_at' = 0
  PROVE  QuietOf(t)' /\ WithinSilence(t)
<1>1. now' \in Nat
  BY DEF TypeOK
<1> QED BY <1>1 DEF QuietOf, NothingOpen, WithinSilence, RetryPending

\* Where a run of t that was quiet before it can end.
LEMMA RunEnds ==
  ASSUME TypeOK, NEW t \in Decliners, QuietOf(t), quiet_since[t] # 0,
         NEW later \in now .. now + MaxRun
  PROVE  /\ failures[t] = 0 =>
              /\ skipping_since[t] # 0
              /\ later <= quiet_since[t] + DeclineLimit(t) + FailureTime(t)
         /\ failures[t] > 0 =>
              later <= quiet_since[t]
                + (IF skipping_since[t] = 0 THEN 0 ELSE DeclineLimit(t))
                + (failures[t] % alert_after) * FailureTime(t) + FailureTime(t)
<1>1. /\ now \in Nat /\ later \in Nat /\ later <= now + MaxRun
      /\ quiet_since[t] \in Nat /\ failed_at[t] \in Nat
      /\ interval[t] \in Nat /\ MaxRun \in Nat /\ CycleTime \in Nat
      /\ DeclineLimit(t) \in Nat /\ FailureTime(t) = interval[t] + CycleTime
      /\ Waited(t) \in Nat /\ Waited(t) + MaxRun <= CycleTime
  BY Limits, WaitedType DEF TypeOK
<1>2. failures[t] = 0 =>
        now <= quiet_since[t] + DeclineLimit(t) + interval[t] + Waited(t)
  BY DEF QuietOf, AfterDecline
<1>3. failures[t] = 0 => skipping_since[t] # 0
  BY DEF QuietOf, WindowsReported
<1> DEFINE window == IF skipping_since[t] = 0 THEN 0 ELSE DeclineLimit(t)
           batch == (failures[t] % alert_after) * FailureTime(t)
<1>4. failures[t] > 0 =>
        /\ failed_at[t] <= quiet_since[t] + window + batch
        /\ now <= failed_at[t] + interval[t] + Waited(t)
  BY DEF QuietOf, AfterFailure
<1>5. window \in Nat /\ batch \in Nat
  BY <1>1, Batches DEF TypeOK, Decliners, Task
<1> HIDE DEF window, batch
<1>6. failures[t] = 0 =>
        later <= quiet_since[t] + DeclineLimit(t) + FailureTime(t)
  BY <1>1, <1>2
<1>7. failures[t] > 0 =>
        later <= quiet_since[t] + window + batch + FailureTime(t)
  BY <1>1, <1>4, <1>5
<1> QED BY <1>3, <1>6, <1>7 DEF window, batch

\* A run that fails: reported if the batch is full.
LEMMA QuietFailed ==
  ASSUME TypeOK, TypeOK', NEW t \in Decliners, QuietOf(t), DueInv, RetryInv',
         mode = "run", turn = t, Fail
  PROVE  QuietOf(t)' /\ WithinSilence(t)
<1>1. PICK later \in now .. now + MaxRun :
        /\ now' = later
        /\ failed_at' = [failed_at EXCEPT ![turn] = later]
        /\ Heard(turn, later, FALSE, (failures[turn] + 1) % alert_after = 0)
  BY DEF Fail
<1>2. /\ failures' = [failures EXCEPT ![turn] = @ + 1]
      /\ UNCHANGED <<skipping_since, skip_alerts, refusal_announced_at, unfinished>>
      /\ AfterRun
  BY DEF Fail, KeepSkips
<1> DEFINE q == quiet_since[t]
           told == (failures[t] + 1) % alert_after = 0
           window == IF skipping_since[t] = 0 THEN 0 ELSE DeclineLimit(t)
           batch == ((failures[t] + 1) % alert_after) * FailureTime(t)
<1>3. /\ later \in Nat \ {0} /\ now <= later /\ q \in Nat /\ now \in Nat
      /\ skipping_since[t] \in Nat /\ failures[t] \in Nat
      /\ t \in Task /\ interval[t] \in Nat /\ FailureTime(t) \in Nat
      /\ DeclineLimit(t) \in Nat
      /\ alert_after * FailureTime(t) \in Nat
      /\ SilenceLimit(t) = DeclineLimit(t)
           + (alert_after * FailureTime(t) - FailureTime(t))
      /\ q <= now /\ skipping_since[t] <= now /\ refusal_announced_at \in Nat
  BY LaterType, Limits DEF TypeOK, QuietOf
<1>4. /\ quiet_since'[t] = IF told \/ q = 0 THEN later ELSE q
      /\ failures'[t] = failures[t] + 1 /\ failed_at'[t] = later
  BY <1>1, <1>2, <1>3 DEF Heard, TypeOK, Decliners
<1>5. batch \in Nat /\ batch + FailureTime(t) <= alert_after * FailureTime(t)
      /\ window \in Nat
  BY <1>3, Batches
<1>6. later <= quiet_since'[t] + window + batch
  <2>1. CASE told \/ q = 0
    BY <1>3, <1>4, <1>5, <2>1
  <2>2. CASE ~told /\ q # 0
    <3>1. batch = (failures[t] % alert_after) * FailureTime(t) + FailureTime(t)
      BY <1>3, <2>2, Batches
    <3>2. (failures[t] % alert_after) * FailureTime(t) \in Nat
      BY <1>3, Batches
    <3>3. CASE failures[t] = 0
      <4>1. window = DeclineLimit(t)
            /\ later <= q + DeclineLimit(t) + FailureTime(t)
        BY <2>2, <3>3, RunEnds
      <4> HIDE DEF window, batch
      <4> QED BY <1>3, <1>4, <2>2, <3>1, <3>2, <4>1
    <3>4. CASE failures[t] > 0
      <4>1. later <= q + window + (failures[t] % alert_after) * FailureTime(t)
              + FailureTime(t)
        BY <2>2, <3>4, RunEnds
      <4> HIDE DEF window, batch
      <4> QED BY <1>3, <1>4, <1>5, <2>2, <3>1, <3>2, <4>1
    <3> QED BY <1>3, <3>3, <3>4
  <2> QED BY <2>1, <2>2
<1>7. q <= quiet_since'[t] /\ quiet_since'[t] \in Nat \ {0} /\ quiet_since'[t] <= later
  BY <1>3, <1>4
<1>8. WindowsReported(t)'
  <2>1. skipping_since[t] + skip_alert_after(t) * skip_alerts[t]
          <= q + alert_after * FailureTime(t)
    <3>1. CASE q = 0
      BY <1>3, <3>1, Limits DEF QuietOf, NothingOpen
    <3>2. CASE q # 0
      BY <3>2 DEF QuietOf, WindowsReported
    <3> QED BY <3>1, <3>2
  <2>2. skipping_since[t] + skip_alert_after(t) * skip_alerts[t]
          <= quiet_since'[t] + alert_after * FailureTime(t)
    <3> DEFINE x == skip_alert_after(t) * skip_alerts[t]
    <3>1. x \in Nat
      BY <1>3, Limits DEF TypeOK
    <3> HIDE DEF x
    <3>2. skipping_since[t] + x <= q + alert_after * FailureTime(t)
      BY <2>1 DEF x
    <3>3. skipping_since[t] + x <= quiet_since'[t] + alert_after * FailureTime(t)
      BY <1>3, <1>7, <3>1, <3>2
    <3> QED BY <3>3 DEF x
  <2>3. t = "oracle_update" =>
          t \in unfinished' /\ refusal_announced_at' <= quiet_since'[t]
    <3>1. q = 0 => (t = "oracle_update" => refusal_announced_at = 0)
      BY DEF QuietOf, NothingOpen
    <3>2. q # 0 => (t = "oracle_update" => refusal_announced_at <= q)
      BY DEF QuietOf, WindowsReported
    <3> QED BY <1>2, <1>3, <1>7, <3>1, <3>2 DEF DueInv
  <2> QED BY <1>2, <1>3, <1>4, <2>2, <2>3
          DEF WindowsReported, skip_alert_after, FailureTime, CycleTime
<1>9. AfterDecline(t)'
  BY <1>3, <1>4 DEF AfterDecline
<1>10. AfterFailure(t)'
  <2>1. Waited(t)' = 0
    BY <1>2, WaitStarts
  <2>2. later <= quiet_since'[t] + (IF skipping_since'[t] = 0 THEN 0 ELSE DeclineLimit(t)')
                  + (failures'[t] % alert_after) * FailureTime(t)'
    BY <1>2, <1>4, <1>6 DEF DeclineLimit, skip_alert_after, FailureTime, CycleTime
  <2>3. now' <= failed_at'[t] + interval[t] + Waited(t)'
    BY <1>1, <1>3, <1>4, <2>1
  <2> QED BY <1>4, <2>2, <2>3 DEF AfterFailure
<1>11. failures'[t] > 0 /\ RetryPending(t)'
  BY <1>3, <1>4 DEF RetryInv
<1>12. WithinSilence(t)
  <2>1. window <= DeclineLimit(t)
    BY <1>3
  <2> HIDE DEF window, batch
  <2>2. later - quiet_since'[t] <= SilenceLimit(t)
    BY <1>3, <1>5, <1>6, <1>7, <2>1
  <2> QED BY <1>1, <2>2 DEF WithinSilence
<1>13. skipping_since'[t] = 0 => skip_alerts'[t] = 0
  BY <1>2 DEF QuietOf
<1>14. quiet_since'[t] <= now' /\ skipping_since'[t] <= now'
  BY <1>1, <1>2, <1>3, <1>7
<1> QED BY <1>7, <1>8, <1>9, <1>10, <1>11, <1>12, <1>13, <1>14 DEF QuietOf
\* The window of skips after one more of them.
LEMMA WindowCounts ==
  ASSUME TypeOK, NEW t \in Decliners, NEW end \in Nat \ {0}, NEW alert \in BOOLEAN,
         skipping_since[t] <= end, record_skip(t, end, alert)
  PROVE  /\ skipping_since'[t] = SkipWindow(t, end)
         /\ skipping_since'[t] \in Nat \ {0} /\ skipping_since'[t] <= end
         /\ skip_alert_after(t) * skip_alerts'[t] \in Nat
         /\ SkipSpeaks(t, end, alert) =>
              skipping_since'[t] + skip_alert_after(t) * skip_alerts'[t] <= end
         /\ ~SkipSpeaks(t, end, alert) => skip_alerts'[t] = skip_alerts[t]
         /\ ~SkipSpeaks(t, end, alert) /\ alert =>
              end < skipping_since'[t] + skip_alert_after(t) * skip_alerts'[t]
                      + skip_alert_after(t)
<1> DEFINE w == SkipWindow(t, end)
           s == skip_alert_after(t)
           x == end - w
           k == x \div s
           before == skip_alerts[t]
<1>1. t \in Task /\ s \in Nat \ {0} /\ before \in Nat
  BY Limits DEF TypeOK
<1>2. w \in Nat \ {0} /\ w <= end /\ x \in Nat
  BY <1>1 DEF SkipWindow, TypeOK
<1>3. skipping_since'[t] = w
      /\ skip_alerts'[t] = IF SkipSpeaks(t, end, alert) THEN k ELSE before
  BY <1>1 DEF record_skip, TypeOK
<1>4. SkipSpeaks(t, end, alert) <=> alert /\ k > before
  BY DEF SkipSpeaks
<1> HIDE DEF w, s, x, before
<1>5. k \in Nat /\ s * k <= x /\ x < s * k + s
  BY <1>1, <1>2, Thresholds
<1> HIDE DEF k
<1>6. s * k \in Nat /\ s * before \in Nat
  BY <1>1, <1>5
<1>7. k <= before => s * k <= s * before
  <2> SUFFICES ASSUME k <= before PROVE s * k <= s * before
    OBVIOUS
  <2>1. (before - k) * s \in Nat /\ (before - k) * s = s * before - s * k
    BY <1>1, <1>5
  <2> QED BY <1>6, <2>1
<1>8. end = w + x
  BY <1>2 DEF x
<1>9. s * skip_alerts'[t] \in Nat
  BY <1>3, <1>6
<1>10. SkipSpeaks(t, end, alert) => w + s * skip_alerts'[t] <= end
  BY <1>2, <1>3, <1>5, <1>6, <1>8
<1>11. ~SkipSpeaks(t, end, alert) /\ alert =>
         end < w + s * skip_alerts'[t] + s
  <2> SUFFICES ASSUME ~SkipSpeaks(t, end, alert), alert
               PROVE  end < w + s * skip_alerts'[t] + s
    OBVIOUS
  <2>1. skip_alerts'[t] = before
    BY <1>3
  <2>2. s * k <= s * before
    <3>1. ~(k > before)
      BY <1>4, Zenon
    <3> QED BY <1>1, <1>5, <1>7, <3>1
  <2>3. end < w + s * before + s
    <3> DEFINE sk == s * k
               sb == s * before
    <3>1. sk \in Nat /\ sb \in Nat /\ x < sk + s /\ sk <= sb
      BY <1>5, <1>6, <2>2
    <3> HIDE DEF sk, sb
    <3>2. end < w + sb + s
      BY <1>1, <1>2, <1>8, <3>1
    <3> QED BY <3>2 DEF sb
  <2> QED BY <2>1, <2>3
<1>12. ~SkipSpeaks(t, end, alert) => skip_alerts'[t] = before
  BY <1>3
<1>13. skipping_since'[t] = w /\ skipping_since'[t] \in Nat \ {0}
       /\ skipping_since'[t] <= end
  BY <1>2, <1>3
<1>14. /\ SkipSpeaks(t, end, alert) =>
            skipping_since'[t] + s * skip_alerts'[t] <= end
       /\ ~SkipSpeaks(t, end, alert) /\ alert =>
            end < skipping_since'[t] + s * skip_alerts'[t] + s
  BY <1>10, <1>11, <1>13
<1> QED BY <1>9, <1>12, <1>13, <1>14 DEF w, s, before

\* A run that declines: if it does not speak, a threshold or the interval of
\* the announcements has not passed.
LEMMA QuietDeclined ==
  ASSUME TypeOK, TypeOK', NEW t \in Decliners, QuietOf(t), DueInv,
         mode = "run", turn = t, AfterRun,
         Completed(t) \/ Declined(t),
         NEW later \in now .. now + MaxRun, now' = later,
         NEW alert \in BOOLEAN, record_skip(t, later, alert),
         NEW told \in BOOLEAN, Heard(t, later, FALSE, told),
         SkipSpeaks(t, later, alert) => told,
         t = "oracle_update" =>
           /\ unfinished' = unfinished
           /\ \/ refusal_announced_at' = refusal_announced_at
              \/ told /\ refusal_announced_at' = now,
         ~alert /\ ~told =>
           /\ t = "oracle_update" /\ refusal_announced_at # 0
           /\ now - refusal_announced_at < interval[t]
  PROVE  QuietOf(t)' /\ WithinSilence(t)
<1> DEFINE q == quiet_since[t]
           f == FailureTime(t)
           af == alert_after * FailureTime(t)
           x == skip_alert_after(t) * skip_alerts'[t]
           speaks == SkipSpeaks(t, later, alert)
           w == skipping_since'[t]
<1>1. /\ later \in Nat \ {0} /\ now <= later /\ later <= now + MaxRun
      /\ now \in Nat /\ q \in Nat /\ q <= now /\ skipping_since[t] <= now
      /\ skipping_since[t] \in Nat /\ failures[t] \in Nat
      /\ refusal_announced_at \in Nat /\ last_run[t] \in Nat
      /\ t \in Task
  BY LaterType, ConstantsAssumption, Limits DEF TypeOK, QuietOf
<1>2. /\ interval[t] \in Nat /\ f \in Nat /\ af \in Nat /\ f <= af
      /\ DeclineLimit(t) \in Nat /\ skip_alert_after(t) \in Nat
      /\ skip_alert_after(t) + af <= DeclineLimit(t)
      /\ interval[t] + af <= DeclineLimit(t)
      /\ SilenceLimit(t) = DeclineLimit(t) + (af - f)
      /\ MaxRun \in Nat /\ MaxRun <= f
  BY Limits
<1>3. /\ failures'[t] = 0 /\ retry_after'[t] = 0
      /\ last_run'[t] \in {last_run[t], now}
  BY <1>1 DEF Completed, Declined, record_success, TypeOK
<1>4. quiet_since'[t] = IF told \/ q = 0 THEN later ELSE q
  BY <1>1 DEF Heard, TypeOK, Decliners
<1>5. /\ w = SkipWindow(t, later) /\ w \in Nat \ {0} /\ w <= later /\ x \in Nat
      /\ speaks => w + x <= later
      /\ ~speaks => skip_alerts'[t] = skip_alerts[t]
      /\ ~speaks /\ alert => later < w + x + skip_alert_after(t)
  BY <1>1, WindowCounts
<1>6. /\ q <= quiet_since'[t] /\ quiet_since'[t] \in Nat \ {0}
      /\ quiet_since'[t] <= later
  BY <1>1, <1>4
<1>7. w + x <= quiet_since'[t] + af
  <2>1. CASE speaks
    <3>1. quiet_since'[t] = later
      BY <1>4, <2>1
    <3> HIDE DEF x, af, w
    <3> QED BY <1>1, <1>2, <1>5, <2>1, <3>1
  <2>2. CASE ~speaks /\ skipping_since[t] = 0
    <3>1. w = later /\ x = 0
      <4>1. skip_alerts'[t] = 0
        BY <1>5, <2>2 DEF QuietOf
      <4> QED BY <1>2, <1>5, <2>2, <4>1 DEF SkipWindow
    <3>2. CASE told \/ q = 0
      BY <1>1, <1>2, <1>4, <3>1, <3>2
    <3>3. CASE ~told /\ q # 0
      <4> DEFINE batch == (failures[t] % alert_after) * FailureTime(t)
      <4>1. batch \in Nat /\ batch + f <= af
        BY <1>1, Batches
      <4>2. failures[t] > 0
        BY <1>1, <2>2, <3>3, RunEnds
      <4>3. later <= q + 0 + batch + f
        BY <2>2, <3>3, <4>2, RunEnds
      <4> HIDE DEF batch, f, af
      <4>4. later <= q + af
        BY <1>1, <1>2, <4>1, <4>3
      <4> QED BY <1>4, <3>1, <3>3, <4>4
    <3> QED BY <3>2, <3>3
  <2>3. CASE ~speaks /\ skipping_since[t] # 0
    <3>1. w = skipping_since[t] /\ skip_alerts'[t] = skip_alerts[t]
      BY <1>5, <2>3 DEF SkipWindow
    <3>2. q # 0
      BY <2>3 DEF QuietOf, NothingOpen
    <3>3. w + x <= q + af
      BY <3>1, <3>2 DEF QuietOf, WindowsReported
    <3> HIDE DEF x, w, af
    <3> QED BY <1>1, <1>2, <1>5, <1>6, <3>3
  <2> QED BY <2>1, <2>2, <2>3
<1>8. t = "oracle_update" => refusal_announced_at <= q
  <2>1. q = 0 => (t = "oracle_update" => refusal_announced_at = 0)
    BY DEF QuietOf, NothingOpen
  <2>2. q # 0 => (t = "oracle_update" => refusal_announced_at <= q)
    BY DEF QuietOf, WindowsReported
  <2> QED BY <1>1, <2>1, <2>2
<1>9. later <= quiet_since'[t] + DeclineLimit(t)
  <2>1. CASE told \/ q = 0
    BY <1>1, <1>2, <1>4, <2>1
  <2>2. CASE ~told /\ alert
    <3>1. ~speaks
      BY <2>2
    <3>2. later < w + x + skip_alert_after(t)
      BY <1>5, <2>2, <3>1
    <3> HIDE DEF x, w, af
    <3> QED BY <1>1, <1>2, <1>5, <1>6, <1>7, <3>2
  <2>3. CASE ~told /\ ~alert
    <3>1. now - refusal_announced_at < interval[t] /\ refusal_announced_at <= q
      BY <1>8, <2>3
    <3> HIDE DEF af, f
    <3> QED BY <1>1, <1>2, <1>6, <3>1
  <2> QED BY <2>1, <2>2, <2>3
<1>10. WindowsReported(t)'
  <2>1. t = "oracle_update" =>
          t \in unfinished' /\ refusal_announced_at' <= quiet_since'[t]
    BY <1>1, <1>4, <1>6, <1>8 DEF DueInv
  <2> QED BY <1>5, <1>7, <2>1
          DEF WindowsReported, skip_alert_after, FailureTime, CycleTime
<1>11. AfterDecline(t)'
  <2>1. Waited(t)' = 0
    BY WaitStarts
  <2>2. last_run'[t] <= later
    BY <1>1, <1>3 DEF DueInv
  <2>3. last_run'[t] \in Nat
    BY <1>1, <1>3
  <2>4. DeclineLimit(t)' = DeclineLimit(t)
    BY DEF DeclineLimit, skip_alert_after, FailureTime, CycleTime
  <2> QED BY <1>1, <1>2, <1>6, <1>9, <2>1, <2>2, <2>3, <2>4 DEF AfterDecline
<1>12. AfterFailure(t)'
  BY <1>3 DEF AfterFailure
<1>13. WithinSilence(t)
  <2> HIDE DEF af, f
  <2> QED BY <1>1, <1>2, <1>6, <1>9 DEF WithinSilence
<1>14. /\ quiet_since'[t] <= now' /\ skipping_since'[t] <= now'
       /\ skipping_since'[t] # 0
       /\ ~(failures'[t] > 0) /\ ~RetryPending(t)'
  BY <1>3, <1>5, <1>6 DEF RetryPending
<1> QED BY <1>6, <1>10, <1>11, <1>12, <1>13, <1>14 DEF QuietOf

---------------------------------------------------------------------------
(* The steps, for the process.                                             *)

\* The runs that end.
RunEnded ==
  FinishPlain \/ Fail \/ FinishOracleWritten \/ FinishOracleNotWritten
    \/ FinishRebalance

\* The pauses come before ascend's slot and after its run.
LEMMA PauseNext ==
  ASSUME mode \in {"gap", "sleep"} => turn = "ascend", TypeOK, [Next]_vars
  PROVE  mode' \in {"gap", "sleep"} => turn' = "ascend"
<1>1. CASE Proceed \/ AfterRun
  BY <1>1 DEF Proceed, AfterRun, After, TypeOK, Task
<1>2. CASE PassSlot \/ run_resync \/ EndGap \/ RunEnded
  BY <1>1, <1>2 DEF PassSlot, run_resync, EndGap, RunEnded, FinishPlain, Fail,
     FinishOracleWritten, FinishOracleNotWritten, FinishRebalance
<1>3. CASE Start \/ Crash \/ request_stop \/ StartTask \/ EndSleep \/ Exit
           \/ UNCHANGED vars
  BY <1>3 DEF Start, Crash, request_stop, StartTask, EndSleep, Exit, vars
<1> QED BY <1>2, <1>3 DEF Next, Run, RunEnded

\* A process that ends forgets what it knew of the tasks.
LEMMA QuietDead ==
  ASSUME TypeOK', Crash \/ Exit, NEW t \in Decliners
  PROVE  QuietOf(t)' /\ quiet_since'[t] = 0
<1>1. Forgotten /\ t \in Task
  BY Limits DEF Crash, Exit
<1>2. /\ quiet_since'[t] = 0 /\ failures'[t] = 0 /\ retry_after'[t] = 0
      /\ skipping_since'[t] = 0 /\ skip_alerts'[t] = 0
      /\ refusal_announced_at' = 0
  BY <1>1 DEF Forgotten, AllTasks
<1> QED BY <1>2, QuietActed

\* Steps in which t's place in the cycle does not change.
LEMMA QuietStays ==
  ASSUME TypeOK, TypeOK', QuietInv, NEW t \in Decliners,
         Start \/ request_stop \/ StartTask \/ UNCHANGED vars
  PROVE  QuietOf(t)'
<1>1. QuietOf(t) /\ t \in Task
  BY Limits DEF QuietInv
<1>2. SameFor(t)
  BY <1>1 DEF SameFor, Start, request_stop, StartTask, vars, memory, history
<1>3. CASE Start
  <2>1. PICK pause \in RestartPauses : now' = now + pause
    BY <1>3 DEF Start
  <2>2. now \in Nat /\ pause \in Nat
    BY ConstantsAssumption DEF TypeOK
  <2>3. quiet_since[t] = 0
    BY <1>3 DEF Start, QuietInv
  <2> QED BY <1>1, <1>2, <2>1, <2>2, <2>3, QuietKept
<1>4. CASE request_stop \/ StartTask \/ UNCHANGED vars
  <2>1. /\ now' = now /\ last_run' = last_run /\ unfinished \subseteq unfinished'
        /\ turn' = turn
        /\ mode' = mode \/ (mode = "loop" /\ mode' = "run")
    BY <1>4 DEF request_stop, StartTask, InSlot, vars, memory, history
  <2>2. Waited(t)' = Waited(t)
    BY <2>1 DEF Waited
  <2>3. t = "oracle_update" /\ quiet_since[t] # 0 => t \in unfinished
    BY <1>1 DEF QuietOf, WindowsReported
  <2>4. now' - now <= Waited(t)' - Waited(t)
    BY <2>1, <2>2, WaitedType DEF TypeOK
  <2>5. now <= now'
    BY <2>1 DEF TypeOK
  <2> QED BY <1>1, <1>2, <2>1, <2>3, <2>4, <2>5, QuietKept
<1> QED BY <1>3, <1>4

\* A slot of another task, run or passed.
LEMMA QuietOther ==
  ASSUME TypeOK, TypeOK', QuietInv, NEW t \in Decliners, turn # t,
         mode \in {"loop", "run"}, Proceed \/ AfterRun,
         SameFor(t), last_run'[t] = last_run[t], unfinished \ {turn} \subseteq unfinished',
         now' \in now .. now + MaxRun
  PROVE  QuietOf(t)'
<1>1. QuietOf(t) /\ t \in Task
  BY Limits DEF QuietInv
<1>2. Waited(t) + MaxRun <= Waited(t)'
  BY WaitGrows
<1>3. now \in Nat /\ now' \in Nat /\ MaxRun \in Nat
      /\ Waited(t) \in Nat /\ Waited(t)' \in Nat
  BY WaitedType, WaitedNext, Limits DEF TypeOK
<1>4. now <= now' /\ now' - now <= Waited(t)' - Waited(t)
  BY <1>2, <1>3
<1>5. t = "oracle_update" /\ quiet_since[t] # 0 => t \in unfinished'
  BY <1>1 DEF QuietOf, WindowsReported
<1> QED BY <1>1, <1>4, <1>5, QuietKept

\* A slot that is passed, or taken by a resync.
LEMMA QuietSlot ==
  ASSUME TypeOK, TypeOK', DueInv, RetryInv, QuietInv, NEW t \in Decliners,
         PassSlot \/ run_resync
  PROVE  QuietOf(t)'
<1>1. QuietOf(t) /\ t \in Task
  BY Limits DEF QuietInv
<1>2. /\ mode = "loop" /\ ~Due(turn) /\ Proceed /\ SameFor(t)
      /\ last_run' = last_run /\ unfinished' = unfinished
      /\ PassSlot => now' = now
  BY DEF PassSlot, run_resync, InSlot, SameFor, memory, history
<1>3. now' \in now .. now + MaxRun
  <2>1. now \in Nat /\ MaxRun \in Nat
    BY Limits DEF TypeOK
  <2>2. CASE PassSlot
    BY <1>2, <2>1, <2>2
  <2>3. CASE run_resync
    BY <2>3 DEF run_resync
  <2> QED BY <2>2, <2>3
<1>4. CASE turn # t
  BY <1>2, <1>3, <1>4, QuietOther
<1>5. CASE turn = t /\ PassSlot
  <2>1. Waited(t)' = 0
    BY <1>2, <1>5, WaitStarts
  <2> QED BY <1>1, <1>2, <1>5, <2>1, QuietPassed
<1>6. CASE turn = t /\ run_resync
  <2>1. t = "oracle_update" /\ ~RetryPending(t)
    BY <1>6 DEF run_resync, ResyncDue
  <2>2. t \notin unfinished
    BY <1>2, <1>6, <2>1 DEF DueInv, Due
  <2>3. quiet_since[t] = 0
    BY <1>1, <2>1, <2>2 DEF QuietOf, WindowsReported
  <2>4. now <= now'
    BY <1>3, Limits DEF TypeOK
  <2> QED BY <1>1, <1>2, <2>3, <2>4, QuietKept
<1> QED BY <1>4, <1>5, <1>6

\* The two pauses.
LEMMA QuietPause ==
  ASSUME TypeOK, TypeOK', QuietInv, NEW t \in Decliners, EndGap \/ EndSleep
  PROVE  QuietOf(t)'
<1>1. QuietOf(t) /\ t \in Task /\ loop_sleep \in Nat /\ gap \in Nat /\ now \in Nat
      /\ Waited(t) \in Nat
  BY Limits, WaitedType DEF QuietInv, TypeOK
<1>2. SameFor(t) /\ last_run' = last_run /\ unfinished' = unfinished
  BY DEF EndGap, EndSleep, SameFor, memory, history
<1>3. now <= now' /\ now' - now <= Waited(t)' - Waited(t)
  <2>1. CASE EndGap
    <3>1. Waited(t)' = Waited(t) + gap /\ now' = now + gap
      BY <2>1, WaitGap DEF EndGap, SettlingTime, QuietInv
    <3> QED BY <1>1, <3>1
  <2>2. CASE EndSleep
    <3>1. Waited(t)' = Waited(t) + loop_sleep /\ now' = now + loop_sleep
      BY <2>2, WaitSleep DEF EndSleep, QuietInv
    <3> QED BY <1>1, <3>1
  <2> QED BY <2>1, <2>2
<1>4. t = "oracle_update" /\ quiet_since[t] # 0 => t \in unfinished'
  BY <1>1, <1>2 DEF QuietOf, WindowsReported
<1> QED BY <1>1, <1>2, <1>3, <1>4, QuietKept

\* A run of another task.
LEMMA QuietRun ==
  ASSUME TypeOK, TypeOK', QuietInv, NEW t \in Decliners, turn # t, RunEnded
  PROVE  QuietOf(t)'
<1>1. mode = "run" /\ AfterRun /\ t \in Task
  BY Limits DEF RunEnded, FinishPlain, Fail, FinishOracleWritten,
     FinishOracleNotWritten, FinishRebalance
<1>2. now' \in now .. now + MaxRun
  BY DEF RunEnded, FinishPlain, Fail, FinishOracleWritten,
         FinishOracleNotWritten, FinishRebalance
<1>3. /\ failures'[t] = failures[t] /\ retry_after'[t] = retry_after[t]
      /\ failed_at'[t] = failed_at[t] /\ last_run'[t] = last_run[t]
      /\ unfinished \ {turn} \subseteq unfinished'
  <2>1. CASE Fail
    BY <1>1, <2>1 DEF Fail, TypeOK
  <2>2. CASE Completed(turn) \/ Declined(turn)
    BY <1>1, <2>2 DEF Completed, Declined, record_success, TypeOK
  <2>3. Fail \/ Completed(turn) \/ Declined(turn)
    BY DEF RunEnded, FinishPlain, FinishOracleWritten, FinishOracleNotWritten,
           FinishRebalance
  <2> QED BY <2>1, <2>2, <2>3
<1>4. /\ skipping_since'[t] = skipping_since[t] /\ skip_alerts'[t] = skip_alerts[t]
  <2>1. CASE FinishPlain \/ Fail
    BY <2>1 DEF FinishPlain, Fail, KeepSkips
  <2>2. CASE FinishOracleWritten
    BY <1>1, <2>2 DEF FinishOracleWritten, clear_skips, TypeOK
  <2>3. CASE FinishOracleNotWritten
    BY <1>1, <2>3 DEF FinishOracleNotWritten, record_skip, TypeOK
  <2>4. CASE FinishRebalance
    BY <1>1, <2>4 DEF FinishRebalance, record_skip, clear_skips, TypeOK
  <2> QED BY <2>1, <2>2, <2>3, <2>4 DEF RunEnded
<1>5. quiet_since'[t] = quiet_since[t]
  BY <1>1 DEF RunEnded, FinishPlain, Fail, FinishOracleWritten,
     FinishOracleNotWritten, FinishRebalance, Heard, TypeOK
<1>6. t = "oracle_update" => refusal_announced_at' = refusal_announced_at
  BY DEF RunEnded, FinishPlain, Fail, FinishOracleWritten,
         FinishOracleNotWritten, FinishRebalance
<1>7. SameFor(t)
  BY <1>3, <1>4, <1>5, <1>6 DEF SameFor
<1> QED BY <1>1, <1>2, <1>3, <1>7, QuietOther

\* A run of t that acts.
LEMMA QuietActs ==
  ASSUME TypeOK, TypeOK', NEW t \in Decliners, Completed(t) \/ Declined(t),
         clear_skips(t), NEW told, Heard(t, now', TRUE, told),
         t = "oracle_update" => refusal_announced_at' = 0
  PROVE  QuietOf(t)' /\ WithinSilence(t)
<1>1. t \in Task
  BY Limits
<1>2. failures'[t] = 0 /\ retry_after'[t] = 0
  BY <1>1 DEF Completed, Declined, record_success, TypeOK
<1>3. skipping_since'[t] = 0 /\ skip_alerts'[t] = 0 /\ quiet_since'[t] = 0
  BY <1>1 DEF clear_skips, Heard, TypeOK
<1> QED BY <1>2, <1>3, QuietActed

\* A run of the oracle that writes nothing.
LEMMA QuietRefused ==
  ASSUME TypeOK, TypeOK', DueInv, QuietInv, NEW t \in Decliners, turn = t,
         FinishOracleNotWritten
  PROVE  QuietOf(t)' /\ WithinSilence(t)
<1>1. QuietOf(t) /\ t \in Task /\ t = "oracle_update" /\ mode = "run" /\ AfterRun
  BY Limits DEF QuietInv, FinishOracleNotWritten
<1>2. PICK later \in now .. now + MaxRun, skipped, refused, failed,
        delivered \in BOOLEAN :
          LET attempt == announce /\ (refused \/ failed)
              alert == skipped \/ ~refused
          IN  /\ skipped \/ refused
              /\ delivered => attempt
              /\ now' = later
              /\ refusal_announced_at' =
                   IF delivered THEN now ELSE refusal_announced_at
              /\ told_at' = IF delivered THEN now ELSE told_at
              /\ record_skip(turn, later, alert)
              /\ Heard(turn, later, FALSE,
                       attempt \/ SkipSpeaks(turn, later, alert))
  BY DEF FinishOracleNotWritten
<1> DEFINE attempt == announce /\ (refused \/ failed)
           alert == skipped \/ ~refused
           told == attempt \/ SkipSpeaks(turn, later, alert)
<1>3. alert \in BOOLEAN /\ told \in BOOLEAN
  BY DEF SkipSpeaks, announce
<1>4. record_skip(t, later, alert) /\ Heard(t, later, FALSE, told)
  BY <1>2
<1>5. SkipSpeaks(t, later, alert) => told
  OBVIOUS
<1>6. \/ refusal_announced_at' = refusal_announced_at
      \/ told /\ refusal_announced_at' = now
  BY <1>2, Zenon
<1>7. ~alert /\ ~told =>
        refusal_announced_at # 0 /\ now - refusal_announced_at < interval[t]
  <2> SUFFICES ASSUME ~alert, ~told
               PROVE  refusal_announced_at # 0
                        /\ now - refusal_announced_at < interval[t]
    OBVIOUS
  <2>1. ~announce
    BY Zenon
  <2> QED BY <1>1, <2>1, Limits DEF announce, TypeOK
<1>8. Declined(t) /\ unfinished' = unfinished
  BY DEF FinishOracleNotWritten, Declined
<1>9. now' = later
  BY <1>2
<1> HIDE DEF alert, told
<1> QED BY <1>1, <1>3, <1>4, <1>5, <1>6, <1>7, <1>8, <1>9, QuietDeclined

\* A rebalancing: it declines if every deployment was skipped.
LEMMA QuietRebalance ==
  ASSUME TypeOK, TypeOK', DueInv, QuietInv, NEW t \in Decliners, turn = t,
         FinishRebalance
  PROVE  QuietOf(t)' /\ WithinSilence(t)
<1>1. QuietOf(t) /\ t = "rebalance" /\ mode = "run" /\ AfterRun
  BY DEF QuietInv, FinishRebalance
<1>2. PICK later \in now .. now + MaxRun, all \in BOOLEAN :
        /\ now' = later
        /\ IF all THEN record_skip(turn, later, TRUE) ELSE clear_skips(turn)
        /\ Heard(turn, later, ~all, SkipSpeaks(turn, later, all))
  BY DEF FinishRebalance
<1>3. Completed(t) \/ Declined(t)
  BY DEF FinishRebalance
<1> DEFINE told == SkipSpeaks(t, later, all)
<1>4. told \in BOOLEAN
  BY DEF SkipSpeaks
<1>5. CASE all
  <2>1. Heard(t, later, FALSE, told) /\ record_skip(t, later, TRUE)
    BY <1>2, <1>5, Zenon
  <2>2. SkipSpeaks(t, later, TRUE) => told
    BY <1>5 DEF SkipSpeaks
  <2> HIDE DEF told
  <2> QED BY <1>1, <1>2, <1>3, <1>4, <2>1, <2>2, QuietDeclined
<1>6. CASE ~all
  <2>1. Heard(t, now', TRUE, told) /\ clear_skips(t)
    BY <1>2, <1>6, Zenon
  <2> HIDE DEF told
  <2> QED BY <1>1, <1>3, <2>1, QuietActs
<1> QED BY <1>5, <1>6

\* Whatever a run of t ends in.
LEMMA QuietOwn ==
  ASSUME TypeOK, TypeOK', DueInv, RetryInv', QuietInv, NEW t \in Decliners,
         turn = t, RunEnded
  PROVE  QuietOf(t)' /\ WithinSilence(t)
<1>1. CASE Fail
  BY <1>1, QuietFailed DEF Fail, QuietInv
<1>2. CASE FinishPlain
  BY <1>2, Limits DEF FinishPlain
<1>3. CASE FinishOracleWritten
  <2>1. /\ Completed(t) /\ clear_skips(t) /\ Heard(t, now', TRUE, FALSE)
        /\ refusal_announced_at' = 0
    BY <1>3 DEF FinishOracleWritten
  <2> QED BY <2>1, QuietActs
<1>4. CASE FinishOracleNotWritten
  BY <1>4, QuietRefused
<1>5. CASE FinishRebalance
  BY <1>5, QuietRebalance
<1> QED BY <1>1, <1>2, <1>3, <1>4, <1>5 DEF RunEnded

LEMMA QuietNext ==
  ASSUME TypeOK, TypeOK', DueInv, RetryInv, RetryInv', QuietInv, [Next]_vars
  PROVE  QuietInv'
<1>1. mode' \in {"gap", "sleep"} => turn' = "ascend"
  BY PauseNext DEF QuietInv
<1>2. ASSUME mode' = "down", NEW t \in Decliners PROVE quiet_since'[t] = 0
  <2>1. CASE Crash \/ Exit
    BY <2>1, QuietDead
  <2>2. CASE request_stop \/ UNCHANGED vars
    BY <1>2, <2>2 DEF QuietInv, request_stop, vars, history
  <2>3. ~(Start \/ StartTask \/ EndSleep)
    BY <1>2 DEF Start, StartTask, EndSleep
  <2>4. ~(PassSlot \/ run_resync \/ EndGap \/ RunEnded)
    BY <1>2 DEF PassSlot, run_resync, EndGap, RunEnded, FinishPlain, Fail,
       FinishOracleWritten, FinishOracleNotWritten, FinishRebalance, AfterRun, Proceed
  <2> QED BY <2>1, <2>2, <2>3, <2>4 DEF Next, Run, RunEnded
<1>3. ASSUME NEW t \in Decliners PROVE QuietOf(t)'
  <2>1. CASE Crash \/ Exit
    BY <2>1, QuietDead
  <2>2. CASE Start \/ request_stop \/ StartTask \/ UNCHANGED vars
    BY <2>2, QuietStays
  <2>3. CASE PassSlot \/ run_resync
    BY <2>3, QuietSlot
  <2>4. CASE EndGap \/ EndSleep
    BY <2>4, QuietPause
  <2>5. CASE RunEnded
    BY <2>5, QuietRun, QuietOwn
  <2> QED BY <2>1, <2>2, <2>3, <2>4, <2>5 DEF Next, Run, RunEnded
<1> QED BY <1>1, <1>2, <1>3 DEF QuietInv

\* A run that ends has been quiet no longer than the limit allows.
LEMMA SilenceEnds ==
  ASSUME TypeOK, TypeOK', DueInv, RetryInv', QuietInv, [Next]_vars,
         mode = "run", mode' \notin {"run", "down"}, quiet_since'[turn] # 0
  PROVE  now' - quiet_since'[turn] <= SilenceLimit(turn)
<1>1. RunEnded
  BY DEF Next, Run, RunEnded, Start, Crash, request_stop, PassSlot, run_resync,
         StartTask, EndGap, EndSleep, Exit, InSlot, StopPoints, vars
<1>2. turn \in Decliners
  <2>1. turn \in Task
    BY DEF TypeOK
  <2>2. turn \notin {"ascend", "handle_epoch"}
    BY <1>1, <2>1 DEF RunEnded, FinishPlain, Fail, FinishOracleWritten,
       FinishOracleNotWritten, FinishRebalance, Heard, TypeOK
  <2> QED BY <2>1, <2>2 DEF Task, Decliners
<1> QED BY <1>1, <1>2, QuietOwn DEF WithinSilence

SilenceInv == TypeOK /\ HonestInv /\ DueInv /\ RetryInv /\ QuietInv

LEMMA SilenceAlways == Spec => []SilenceInv
<1>1. Init => DueInv /\ RetryInv /\ QuietInv
  <2>1. Init => DueInv /\ RetryInv
    BY DEF Init, DueInv, RetryInv, RetryPending, AllTasks
  <2>2. Init => QuietInv
    BY Limits DEF Init, QuietInv, QuietOf, NothingOpen, RetryPending, AllTasks
  <2> QED BY <2>1, <2>2
<1>2. SilenceInv /\ TypeOK' /\ HonestInv' /\ [Next]_vars => (DueInv /\ RetryInv /\ QuietInv)'
  BY DueNext, RetryNext, QuietNext DEF SilenceInv
<1> QED BY <1>1, <1>2, HonestAlways, PTL DEF Spec, SilenceInv

\* Whatever the intervals and thresholds, and however failures, skips and
\* refusals alternate: a run that neither acts nor speaks ends within the limit
\* after the last report.
THEOREM NeverSilent == Spec => NoSilentStandstill
<1>1. SilenceInv /\ SilenceInv' /\ [Next]_vars =>
        [mode = "run" /\ mode' \notin {"run", "down"} /\ quiet_since'[turn] # 0 =>
           now' - quiet_since'[turn] <= SilenceLimit(turn)]_vars
  BY SilenceEnds DEF SilenceInv
<1> QED BY <1>1, SilenceAlways, PTL DEF Spec, NoSilentStandstill

\* At every moment, also while no run of it ends: a task without progress has
\* been quiet for no longer than the limit and one more failure's time.
THEOREM NeverLongQuiet ==
  Spec => [](\A t \in Decliners :
               quiet_since[t] # 0 =>
                 now - quiet_since[t] <= SilenceLimit(t) + FailureTime(t))
<1>1. ASSUME SilenceInv, NEW t \in Decliners, quiet_since[t] # 0
      PROVE  now - quiet_since[t] <= SilenceLimit(t) + FailureTime(t)
  <2> USE <1>1 DEF SilenceInv
  <2> DEFINE f == FailureTime(t)
             af == alert_after * FailureTime(t)
             batch == (failures[t] % alert_after) * FailureTime(t)
             window == IF skipping_since[t] = 0 THEN 0 ELSE DeclineLimit(t)
  <2>1. QuietOf(t) /\ t \in Task
    BY Limits DEF QuietInv
  <2>2. /\ now \in Nat /\ quiet_since[t] \in Nat /\ failures[t] \in Nat
        /\ failed_at[t] \in Nat /\ interval[t] \in Nat /\ Waited(t) \in Nat
        /\ Waited(t) <= CycleTime /\ CycleTime \in Nat
        /\ DeclineLimit(t) \in Nat /\ f \in Nat /\ af \in Nat /\ f <= af
        /\ f = interval[t] + CycleTime
        /\ SilenceLimit(t) = DeclineLimit(t) + (af - f)
    <3>1. Waited(t) \in Nat /\ Waited(t) + MaxRun <= CycleTime
      BY WaitedType
    <3> QED BY <2>1, <3>1, Limits DEF TypeOK
  <2>3. batch \in Nat /\ batch + f <= af /\ window \in Nat /\ window <= DeclineLimit(t)
    BY <2>2, Batches
  <2>4. failures[t] = 0 =>
          now <= quiet_since[t] + DeclineLimit(t) + interval[t] + Waited(t)
    BY <1>1, <2>1 DEF QuietOf, AfterDecline
  <2>5. failures[t] > 0 =>
          /\ failed_at[t] <= quiet_since[t] + window + batch
          /\ now <= failed_at[t] + interval[t] + Waited(t)
    BY <1>1, <2>1 DEF QuietOf, AfterFailure
  <2> HIDE DEF batch, window, f, af
  <2>6. now - quiet_since[t] <= SilenceLimit(t) + f
    BY <2>2, <2>3, <2>4, <2>5
  <2> QED BY <2>6 DEF f
<1>2. SilenceInv =>
        \A t \in Decliners :
          quiet_since[t] # 0 =>
            now - quiet_since[t] <= SilenceLimit(t) + FailureTime(t)
  BY <1>1
<1> QED BY <1>2, SilenceAlways, PTL
=============================================================================
