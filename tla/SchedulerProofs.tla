--------------------------- MODULE SchedulerProofs ---------------------------
(***************************************************************************)
(* Theorems about Scheduler, for every value of its constants.             *)
(***************************************************************************)
EXTENDS Scheduler, TLAPS, FiniteSetTheorems

---------------------------------------------------------------------------
(* Facts about the operators.                                              *)

\* TASK_ORDER leads from a task to a task.
LEMMA AfterType == After \in [Task -> Task]
  BY DEF After, Task

\* A power of two is a natural number: it counts the subsets of an interval.
LEMMA PowerType == ASSUME NEW n \in Nat PROVE 2^n \in Nat
<1>1. IsFiniteSet(1 .. n) /\ Cardinality(1 .. n) = n
  BY FS_Interval
<1>2. IsFiniteSet(SUBSET (1 .. n)) /\ Cardinality(SUBSET (1 .. n)) = 2^n
  BY <1>1, FS_SUBSET
<1> QED BY <1>2, FS_CardinalityType

\* The backoff is a number of ticks, so a retry time is a time.
LEMMA DelayType ==
  ASSUME NEW t \in Task, NEW n \in Nat \ {0}
  PROVE  retry_delay(t, n) \in Nat
<1>1. 2^(n - 1) \in Nat
  BY PowerType
<1>2. loop_sleep \in Nat /\ interval[t] \in Nat
  BY ConstantsAssumption
<1>3. loop_sleep * 2^(n - 1) \in Nat
  BY <1>1, <1>2
<1> QED BY <1>2, <1>3 DEF retry_delay

\* Buckets are ordered like the times in them.
LEMMA DivMonotone ==
  ASSUME NEW a \in Nat, NEW b \in Nat, NEW i \in Nat \ {0}, a <= b
  PROVE  a \div i <= b \div i
  OBVIOUS

\* What is due stays due.
LEMMA DueMonotone ==
  ASSUME NEW last \in Nat, NEW a \in Nat, NEW b \in Nat, NEW i \in Nat \ {0},
         a <= b, is_due(last, a, i)
  PROVE  is_due(last, b, i)
<1>1. a \div i <= b \div i
  BY DivMonotone
<1>2. last \div i \in Int /\ a \div i \in Int /\ b \div i \in Int
  OBVIOUS
<1> QED BY <1>1, <1>2 DEF is_due

---------------------------------------------------------------------------
(* Type correctness.                                                       *)

USE DEF Modes

\* What the operators the handlers are built from do to the types.
LEMMA CompletedType ==
  ASSUME TypeOK, Completed(turn)
  PROVE  /\ last_run' \in [Task -> Nat] /\ has_record' \in SUBSET Task
         /\ state_file' \in [Task -> Nat] /\ faults' \in Nat
         /\ done_at' \in [Task -> Nat] /\ unfinished' \in SUBSET Task
         /\ retry_after' \in [Task -> Nat] /\ failures' \in [Task -> Nat]
         /\ failed_at' \in [Task -> Nat]
  BY DEF TypeOK, Completed, record_success, WithRecord, _save_state, Records

LEMMA DeclinedType ==
  ASSUME TypeOK, Declined(turn)
  PROVE  /\ last_run' \in [Task -> Nat] /\ has_record' \in SUBSET Task
         /\ state_file' \in [Task -> Nat] /\ faults' \in Nat
         /\ done_at' \in [Task -> Nat] /\ unfinished' \in SUBSET Task
         /\ retry_after' \in [Task -> Nat] /\ failures' \in [Task -> Nat]
         /\ failed_at' \in [Task -> Nat]
  BY DEF TypeOK, Declined, record_success

LEMMA SkipType ==
  ASSUME TypeOK, NEW end \in Nat, NEW alert \in BOOLEAN,
         record_skip(turn, end, alert)
  PROVE  skipping_since' \in [Task -> Nat] /\ skip_alerts' \in [Task -> Nat]
<1>1. SkipWindow(turn, end) \in Nat
  BY DEF TypeOK, SkipWindow
<1>2. skip_alert_after(turn) \in Nat \ {0}
  BY ConstantsAssumption DEF skip_alert_after, TypeOK
<1>3. (end - SkipWindow(turn, end)) \div skip_alert_after(turn) \in Int
  BY <1>1, <1>2
<1>4. skip_alerts[turn] \in Nat
  BY DEF TypeOK
<1>5. SkipSpeaks(turn, end, alert) =>
        (end - SkipWindow(turn, end)) \div skip_alert_after(turn) \in Nat
  BY <1>3, <1>4 DEF SkipSpeaks
<1> QED BY <1>1, <1>5 DEF TypeOK, record_skip

LEMMA HeardType ==
  ASSUME TypeOK, NEW end \in Nat, NEW acted \in BOOLEAN, NEW told,
         Heard(turn, end, acted, told)
  PROVE  quiet_since' \in [Task -> Nat]
  BY DEF TypeOK, Heard

LEMMA SlotType ==
  ASSUME TypeOK, Proceed \/ AfterRun
  PROVE  turn' \in Task /\ mode' \in Modes
  BY AfterType DEF TypeOK, Proceed, AfterRun

LEMMA PricedType ==
  ASSUME TypeOK, NEW read \in Nat PROVE Priced(read) \in Nat
  BY DEF TypeOK, Priced

\* A step of run time ends at a time.
LEMMA LaterType ==
  ASSUME TypeOK, NEW later \in now .. now + MaxRun
  PROVE  later \in Nat \ {0} /\ now <= later
  BY ConstantsAssumption DEF TypeOK

LEMMA ZeroType == AllTasks(0) \in [Task -> Nat]
  BY DEF AllTasks

LEMMA TypeInit == Init => TypeOK
<1> SUFFICES ASSUME Init PROVE TypeOK
  OBVIOUS
<1>1. state_file \in [Task -> 0 .. 1]
  BY ConstantsAssumption DEF Init
<1>2. state_file \in [Task -> Nat] /\ done_at \in [Task -> Nat]
  BY <1>1 DEF Init
<1>3. now \in Nat \ {0} /\ faults \in Nat /\ unpriced \in Nat
      /\ refusal_announced_at \in Nat /\ told_at \in Nat
  BY DEF Init
<1>4. turn \in Task /\ mode \in Modes
  BY DEF Init, Task
<1> QED BY <1>2, <1>3, <1>4, ZeroType DEF Init, TypeOK

LEMMA TypeStep == TypeOK /\ [Next]_vars => TypeOK'
<1> SUFFICES ASSUME TypeOK, [Next]_vars PROVE TypeOK'
  OBVIOUS
<1>1. CASE Start
  BY <1>1, ConstantsAssumption DEF Start, TypeOK, history, Task
<1>2. CASE Crash
  <2>1. PICK later \in now .. now + MaxRun :
          /\ now' = later
          /\ unpriced' \in {unpriced, later}
    BY <1>2 DEF Crash
  <2>2. now' \in Nat \ {0} /\ unpriced' \in Nat
    BY <2>1, LaterType DEF TypeOK
  <2>3. faults' \in Nat /\ refusal_announced_at' \in Nat /\ told_at' \in Nat
    BY <1>2 DEF Crash, Forgotten, TypeOK
  <2> QED BY <1>2, <2>2, <2>3, ZeroType DEF Crash, Forgotten, TypeOK
<1>3. CASE request_stop
  BY <1>3 DEF request_stop, TypeOK, history
<1>4. CASE PassSlot
  BY <1>4, SlotType DEF PassSlot, TypeOK, memory, history
<1>5. CASE run_resync
  <2>1. PICK later \in now .. now + MaxRun :
          /\ now' = later
          /\ unpriced' \in {unpriced} \cup {Priced(read) : read \in now .. later}
    BY <1>5 DEF run_resync
  <2>2. now' \in Nat \ {0} /\ unpriced' \in Nat
    BY <2>1, LaterType, PricedType DEF TypeOK
  <2> QED BY <1>5, <2>2, SlotType DEF run_resync, TypeOK
<1>6. CASE StartTask
  BY <1>6 DEF StartTask, TypeOK
<1>7. CASE FinishPlain
  <2>1. PICK later \in now .. now + MaxRun :
          /\ now' = later
          /\ unpriced' \in {unpriced, later}
          /\ Heard(turn, later, TRUE, FALSE)
    BY <1>7 DEF FinishPlain
  <2>2. now' \in Nat \ {0} /\ unpriced' \in Nat /\ quiet_since' \in [Task -> Nat]
    BY <2>1, LaterType, HeardType DEF TypeOK
  <2> QED BY <1>7, <2>2, CompletedType, SlotType DEF FinishPlain, TypeOK
<1>8. CASE Fail
  <2>1. PICK later \in now .. now + MaxRun :
          /\ now' = later
          /\ retry_after' = [retry_after EXCEPT ![turn] =
               RetryTime(turn, failures[turn] + 1, later)]
          /\ unpriced' \in {unpriced, later} \cup
               {Priced(read) : read \in now .. later}
          /\ failed_at' = [failed_at EXCEPT ![turn] = later]
          /\ Heard(turn, later, FALSE, (failures[turn] + 1) % alert_after = 0)
    BY <1>8 DEF Fail
  <2>2. now' \in Nat \ {0} /\ unpriced' \in Nat
    BY <2>1, LaterType, PricedType DEF TypeOK
  <2>6. quiet_since' \in [Task -> Nat]
    BY <2>1, LaterType, HeardType
  <2>3. RetryTime(turn, failures[turn] + 1, later) \in Nat
    BY <2>1, LaterType, DelayType DEF RetryTime, TypeOK
  <2>4. retry_after' \in [Task -> Nat] /\ failed_at' \in [Task -> Nat]
    BY <2>1, <2>3, LaterType DEF TypeOK
  <2>5. failures' \in [Task -> Nat]
    BY <1>8 DEF Fail, TypeOK
  <2> QED BY <1>8, <2>2, <2>4, <2>5, <2>6, SlotType DEF Fail, KeepSkips, TypeOK
<1>9. CASE FinishOracleWritten
  <2>1. PICK later \in now .. now + MaxRun, read \in now .. now + MaxRun :
          /\ now' = later
          /\ unpriced' = Priced(read)
          /\ Heard(turn, later, TRUE, FALSE)
    BY <1>9 DEF FinishOracleWritten
  <2>2. now' \in Nat \ {0} /\ unpriced' \in Nat /\ quiet_since' \in [Task -> Nat]
    BY <2>1, LaterType, PricedType, HeardType DEF TypeOK
  <2> QED BY <1>9, <2>2, CompletedType, SlotType
          DEF FinishOracleWritten, clear_skips, TypeOK
<1>10. CASE FinishOracleNotWritten
  <2>1. PICK later \in now .. now + MaxRun, skipped \in BOOLEAN,
             refused \in BOOLEAN :
          /\ now' = later
          /\ refusal_announced_at' \in {now, refusal_announced_at}
          /\ told_at' \in {now, told_at}
          /\ record_skip(turn, later, skipped \/ ~refused)
          /\ \E told : Heard(turn, later, FALSE, told)
    BY <1>10 DEF FinishOracleNotWritten
  <2>2. now' \in Nat \ {0} /\ quiet_since' \in [Task -> Nat]
    BY <2>1, LaterType, HeardType DEF TypeOK
  <2>3. skipping_since' \in [Task -> Nat] /\ skip_alerts' \in [Task -> Nat]
    BY <2>1, LaterType, SkipType
  <2> QED BY <1>10, <2>1, <2>2, <2>3, DeclinedType, SlotType
          DEF FinishOracleNotWritten, TypeOK
<1>11. CASE FinishRebalance
  <2>1. PICK later \in now .. now + MaxRun, off \in BOOLEAN, all \in BOOLEAN :
          /\ now' = later
          /\ resync_requested' = (resync_requested \/ off)
          /\ answered' = (answered /\ ~off)
          /\ IF all THEN record_skip(turn, later, TRUE) ELSE clear_skips(turn)
          /\ Heard(turn, later, ~all, SkipSpeaks(turn, later, all))
          /\ IF off THEN Declined(turn) ELSE Completed(turn)
    BY <1>11 DEF FinishRebalance
  <2>2. now' \in Nat \ {0} /\ quiet_since' \in [Task -> Nat]
    BY <2>1, LaterType, HeardType DEF TypeOK
  <2>3. skipping_since' \in [Task -> Nat] /\ skip_alerts' \in [Task -> Nat]
    <3>1. CASE all
      BY <2>1, <3>1, LaterType, SkipType
    <3>2. CASE ~all
      BY <2>1, <3>2 DEF clear_skips, TypeOK
    <3> QED BY <3>1, <3>2
  <2> QED BY <1>11, <2>1, <2>2, <2>3, CompletedType, DeclinedType, SlotType
          DEF FinishRebalance, TypeOK
<1>12. CASE EndGap
  <2>1. now' \in Nat \ {0}
    BY <1>12, ConstantsAssumption DEF EndGap, SettlingTime, TypeOK
  <2> QED BY <1>12, <2>1, SlotType DEF EndGap, TypeOK, memory, history
<1>13. CASE EndSleep
  <2>1. now' \in Nat \ {0}
    BY <1>13, ConstantsAssumption DEF EndSleep, TypeOK
  <2> QED BY <1>13, <2>1 DEF EndSleep, TypeOK, memory, history
<1>14. CASE Exit
  BY <1>14, ZeroType DEF Exit, Forgotten, TypeOK
<1>15. CASE UNCHANGED vars
  BY <1>15 DEF vars, memory, history, TypeOK
<1> QED
  BY <1>1, <1>2, <1>3, <1>4, <1>5, <1>6, <1>7, <1>8, <1>9, <1>10, <1>11,
     <1>12, <1>13, <1>14, <1>15 DEF Next, Run

\* Every variable of the scheduler keeps its type, whatever the intervals, the
\* delays and the sequence of runs, failures, kills and restarts.
THEOREM TypeCorrect == Spec => []TypeOK
  BY TypeInit, TypeStep, PTL DEF Spec

---------------------------------------------------------------------------
(* The distribution's debt.                                                *)

\* What is due now is due later, and so is what was recorded earlier.
LEMMA DueLater ==
  ASSUME TypeOK, TypeOK', now <= now', NEW r \in Nat, NEW q \in Nat, q <= r,
         AscendDue(r)
  PROVE  q \div interval["ascend"] < now' \div interval["ascend"]
<1>1. interval["ascend"] \in Nat \ {0} /\ now \in Nat /\ now' \in Nat
  BY ConstantsAssumption DEF TypeOK, Task
<1>2. now \div interval["ascend"] <= now' \div interval["ascend"]
  BY <1>1, DivMonotone
<1>3. q \div interval["ascend"] <= r \div interval["ascend"]
  BY <1>1, DivMonotone
<1>4. r \div interval["ascend"] < now \div interval["ascend"]
  BY DEF AscendDue, is_due
<1>5. /\ q \div interval["ascend"] \in Int /\ r \div interval["ascend"] \in Int
      /\ now \div interval["ascend"] \in Int
      /\ now' \div interval["ascend"] \in Int
  BY <1>1
<1> QED BY <1>2, <1>3, <1>4, <1>5

\* A step that leaves the ledger alone and distributes nothing.
LEMMA LedgerKept ==
  ASSUME TypeOK, TypeOK', OwedInv, now <= now', mode # "down",
         UNCHANGED <<last_run, has_record, state_file>>,
         unpriced' \in {0, unpriced}
  PROVE  DistributionStaysOwed' /\ StampsPast'
<1>1. /\ last_run["ascend"] \in Nat /\ state_file["ascend"] \in Nat
      /\ now \in Nat /\ now' \in Nat
  BY DEF TypeOK, Task
<1>2. OwedInMemory'
  BY <1>1, DueLater DEF OwedInv, DistributionStaysOwed, OwedInMemory,
     owes_dependency, AscendDue, is_due
<1>3. OwedOnDisk'
  BY <1>1, DueLater DEF OwedInv, DistributionStaysOwed, OwedOnDisk, AscendDue,
     is_due
<1>4. StampsPast'
  BY <1>1 DEF OwedInv, StampsPast, TypeOK
<1> QED BY <1>2, <1>3, <1>4 DEF DistributionStaysOwed

\* A task that completes: the debt of a distribution made by this very run is
\* recorded with it, or the file still asks for the run.
LEMMA CompletedOwes ==
  ASSUME TypeOK, TypeOK', OwedInv, now <= now', mode = "run", mode' # "down",
         Completed(turn),
         turn = "ascend" => unpriced' \in {unpriced, now'},
         turn = "oracle_update" => unpriced' = 0,
         turn \in {"rebalance", "handle_epoch"} => unpriced' = unpriced
  PROVE  DistributionStaysOwed' /\ StampsPast'
<1> USE DEF Task
<1>1. /\ last_run["ascend"] \in Nat /\ state_file["ascend"] \in Nat
      /\ now \in Nat /\ now' \in Nat
      /\ last_run["oracle_update"] \in Nat
  BY DEF TypeOK
<1>2. /\ last_run' = [last_run EXCEPT ![turn] = now]
      /\ has_record' = has_record \cup {turn}
      /\ state_file' = Records(last_run', has_record') \/ state_file' = state_file
  BY DEF Completed, WithRecord, _save_state
<1>3. OwedInMemory'
  <2>1. CASE turn = "ascend"
    <3>1. last_run'["ascend"] = now
          /\ last_run'["oracle_update"] = last_run["oracle_update"]
      BY <1>2, <2>1 DEF TypeOK
    <3>2. "oracle_update" \in has_record' => last_run["oracle_update"] < now
      BY <1>2, <2>1 DEF OwedInv, OracleBefore
    <3>3. owes_dependency("oracle_update")'
      BY <1>1, <1>2, <2>1, <3>1, <3>2 DEF owes_dependency
    <3> QED BY <3>3 DEF OwedInMemory
  <2>2. CASE turn = "oracle_update"
    BY <2>2 DEF OwedInMemory
  <2>3. CASE turn \in {"rebalance", "handle_epoch"}
    <3>1. /\ last_run'["ascend"] = last_run["ascend"]
          /\ last_run'["oracle_update"] = last_run["oracle_update"]
      BY <1>2, <2>3 DEF TypeOK
    <3>2. "ascend" \in has_record' <=> "ascend" \in has_record
      BY <1>2, <2>3
    <3>3. "oracle_update" \in has_record' <=> "oracle_update" \in has_record
      BY <1>2, <2>3
    <3>4. AscendDue(last_run["ascend"]) => AscendDue(last_run["ascend"])'
      BY <1>1, <3>1, DueLater DEF AscendDue, is_due
    <3> QED BY <2>3, <3>1, <3>2, <3>3, <3>4
            DEF OwedInv, DistributionStaysOwed, OwedInMemory, owes_dependency
  <2> QED BY <2>1, <2>2, <2>3 DEF TypeOK
<1>4. OwedOnDisk'
  <2>1. CASE state_file' = Records(last_run', has_record')
    <3>1. \A t \in Task :
            state_file'[t] = IF t \in has_record' THEN last_run'[t] ELSE 0
      BY <2>1 DEF Records
    <3>2. state_file'["ascend"] # 0 => "ascend" \in has_record'
                                 /\ state_file'["ascend"] = last_run'["ascend"]
      BY <3>1
    <3>3. \/ state_file'["oracle_update"] = 0
          \/ "oracle_update" \in has_record'
             /\ state_file'["oracle_update"] = last_run'["oracle_update"]
      BY <3>1
    <3> QED BY <1>3, <3>2, <3>3
            DEF OwedInMemory, OwedOnDisk, owes_dependency, AscendDue
  <2>2. CASE state_file' = state_file
    <3>1. AscendDue(state_file["ascend"]) => AscendDue(state_file["ascend"])'
      BY <1>1, <2>2, DueLater DEF AscendDue, is_due
    <3>2. CASE turn = "ascend"
      <4>1. AscendDue(last_run["ascend"])
        BY <3>2 DEF OwedInv, OpenMeansDue, AscendOpen
      <4>2. state_file["ascend"] # 0 => state_file["ascend"] <= last_run["ascend"]
        BY DEF OwedInv, StampsPast
      <4>3. state_file["ascend"] # 0 => AscendDue(state_file["ascend"])'
        BY <1>1, <2>2, <4>1, <4>2, DueLater DEF AscendDue, is_due
      <4> QED BY <2>2, <4>3 DEF OwedOnDisk
    <3>3. CASE turn # "ascend"
      <4>1. unpriced' \in {0, unpriced}
        BY <3>3 DEF TypeOK
      <4> QED BY <2>2, <3>1, <4>1 DEF OwedInv, DistributionStaysOwed, OwedOnDisk
    <3> QED BY <3>2, <3>3
  <2> QED BY <1>2, <2>1, <2>2
<1>5. StampsPast'
  <2> SUFFICES ASSUME NEW t \in Task
               PROVE  /\ last_run'[t] <= now'
                      /\ state_file'[t] <= now'
                      /\ state_file'[t] # 0 =>
                           t \in has_record' /\ state_file'[t] <= last_run'[t]
    BY DEF StampsPast
  <2>1. /\ last_run[t] \in Nat /\ state_file[t] \in Nat
        /\ last_run[t] <= now /\ state_file[t] <= now
        /\ state_file[t] # 0 => t \in has_record /\ state_file[t] <= last_run[t]
    BY DEF OwedInv, StampsPast, TypeOK
  <2>2. last_run'[t] = IF t = turn THEN now ELSE last_run[t]
    BY <1>2 DEF TypeOK
  <2>3. CASE state_file' = state_file
    BY <1>1, <1>2, <2>1, <2>2, <2>3
  <2>4. CASE state_file' = Records(last_run', has_record')
    <3>1. state_file'[t] = IF t \in has_record' THEN last_run'[t] ELSE 0
      BY <2>4 DEF Records
    <3> QED BY <1>1, <2>1, <2>2, <3>1
  <2> QED BY <1>2, <2>3, <2>4
<1> QED BY <1>3, <1>4, <1>5 DEF DistributionStaysOwed

\* The step lemma is stated for one step between two type-correct states.
OwedStep == TypeOK /\ TypeOK' /\ OwedInv /\ SettledReads

LEMMA OwedInit == Init => OwedInv
<1> SUFFICES ASSUME Init PROVE OwedInv
  OBVIOUS
<1>1. state_file \in [Task -> 0 .. 1]
  BY ConstantsAssumption DEF Init
<1>2. DistributionStaysOwed
  BY DEF Init, DistributionStaysOwed, OwedInMemory, OwedOnDisk
<1>3. StampsPast
  BY <1>1 DEF Init, StampsPast, AllTasks
<1>4. OpenMeansDue /\ OracleBefore /\ Readable
  BY DEF Init, OpenMeansDue, AscendOpen, RetryPending, OracleBefore, Readable,
     AllTasks, Task
<1> QED BY <1>2, <1>3, <1>4 DEF OwedInv

\* Starting: the memory is what the file holds, so the debt on disk becomes
\* the debt in memory.
LEMMA OwedStart == ASSUME OwedStep, Start PROVE OwedInv'
<1> USE DEF OwedStep, Task
<1>1. PICK pause \in RestartPauses :
        /\ now' = now + pause
        /\ last_run' = [t \in Task |->
             IF state_file[t] # 0 THEN state_file[t] ELSE now + pause]
  BY DEF Start
<1>2. pause \in Nat \ {0} /\ SecureInterval \in Nat /\ pause >= SecureInterval
  BY ConstantsAssumption DEF SettledReads
<1>3. /\ now \in Nat /\ now' \in Nat /\ now < now' /\ state_file["ascend"] \in Nat
  BY <1>1, <1>2 DEF TypeOK
<1>4. /\ mode' = "loop" /\ state_file' = state_file /\ unpriced' = unpriced
      /\ has_record' = {t \in Task : state_file[t] # 0}
      /\ retry_after' = retry_after /\ mode = "down"
  BY DEF Start, history
<1>5. AscendDue(state_file["ascend"]) => AscendDue(state_file["ascend"])'
  BY <1>3, <1>4, DueLater DEF AscendDue, is_due
<1>6. OwedOnDisk'
  BY <1>4, <1>5 DEF OwedInv, DistributionStaysOwed, OwedOnDisk
<1>7. OwedInMemory'
  BY <1>1, <1>4, <1>6 DEF OwedOnDisk, OwedInMemory, owes_dependency, AscendDue
<1>8. StampsPast'
  BY <1>1, <1>2, <1>3, <1>4 DEF OwedInv, StampsPast, TypeOK
<1>9. OpenMeansDue'
  BY <1>4 DEF OwedInv, OpenMeansDue, AscendOpen, RetryPending
<1>10. OracleBefore'
  BY <1>1, <1>2, <1>3, <1>4 DEF OwedInv, OracleBefore, StampsPast, TypeOK
<1>11. Readable'
  BY <1>1, <1>2, <1>3, <1>4 DEF OwedInv, Readable, TypeOK
<1> QED BY <1>6, <1>7, <1>8, <1>9, <1>10, <1>11
        DEF OwedInv, DistributionStaysOwed

\* Dying: a distribution made by the run in flight is asked for again, since
\* the run was due by the record that is on disk.
LEMMA OwedDeath == ASSUME OwedStep, Crash \/ Exit PROVE OwedInv'
<1> USE DEF OwedStep, Task
<1>1. /\ mode' = "down" /\ state_file' = state_file /\ has_record' = {}
      /\ last_run' = AllTasks(0) /\ retry_after' = AllTasks(0)
      /\ mode # "down"
  BY DEF Crash, Exit, Forgotten, StopPoints
<1>2. /\ now' \in Nat /\ now \in Nat /\ now <= now'
      /\ \/ unpriced' = unpriced
         \/ unpriced' = now' /\ mode = "run" /\ turn = "ascend"
  BY ConstantsAssumption DEF Crash, Exit, TypeOK
<1>3. state_file["ascend"] \in Nat /\ last_run["ascend"] \in Nat
  BY DEF TypeOK
<1>4. OwedOnDisk'
  <2>1. AscendDue(state_file["ascend"]) => AscendDue(state_file["ascend"])'
    BY <1>1, <1>2, <1>3, DueLater DEF AscendDue, is_due
  <2>2. CASE unpriced' = unpriced
    BY <1>1, <2>1, <2>2 DEF OwedInv, DistributionStaysOwed, OwedOnDisk
  <2>3. CASE mode = "run" /\ turn = "ascend"
    <3>1. AscendDue(last_run["ascend"])
      BY <2>3 DEF OwedInv, OpenMeansDue, AscendOpen
    <3>2. state_file["ascend"] # 0 => state_file["ascend"] <= last_run["ascend"]
      BY <1>1 DEF OwedInv, StampsPast
    <3>3. state_file["ascend"] # 0 => AscendDue(state_file["ascend"])'
      BY <1>1, <1>2, <1>3, <3>1, <3>2, DueLater DEF AscendDue, is_due
    <3> QED BY <1>1, <3>3 DEF OwedOnDisk
  <2> QED BY <1>2, <2>2, <2>3
<1>5. OwedInMemory' /\ OracleBefore'
  BY <1>1 DEF OwedInMemory, OracleBefore
<1>6. StampsPast'
  BY <1>1, <1>2 DEF OwedInv, StampsPast, TypeOK, AllTasks
<1>7. OpenMeansDue'
  BY <1>1 DEF OpenMeansDue, AscendOpen, RetryPending, AllTasks
<1>8. Readable'
  BY <1>1, <1>2, ConstantsAssumption DEF OwedInv, Readable, TypeOK
<1> QED BY <1>4, <1>5, <1>6, <1>7, <1>8 DEF OwedInv, DistributionStaysOwed

\* Leaving a slot leads to the next slot, the gap or the sleep, never straight
\* into a run, and into ascend's slot only through the sleep.
LEMMA SlotLeft ==
  ASSUME TypeOK, Proceed \/ AfterRun
  PROVE  /\ mode' \in {"loop", "gap", "sleep"}
         /\ OracleBefore'
  BY DEF TypeOK, Task, Proceed, AfterRun, After, OracleBefore

\* A step that neither opens a run of ascend nor moves its record while a
\* retry of it is pending.
LEMMA OpenKept ==
  ASSUME TypeOK, TypeOK', OwedInv, now <= now', mode' \notin {"down", "run"},
         retry_after'["ascend"] # 0 =>
           /\ retry_after["ascend"] # 0
           /\ last_run'["ascend"] = last_run["ascend"]
  PROVE  OpenMeansDue'
<1> SUFFICES ASSUME retry_after'["ascend"] # 0
             PROVE  AscendDue(last_run["ascend"])'
  BY DEF OpenMeansDue, AscendOpen, RetryPending
<1>1. AscendDue(last_run["ascend"]) /\ last_run["ascend"] \in Nat
  BY DEF OwedInv, OpenMeansDue, AscendOpen, RetryPending, TypeOK, Task
<1> QED BY <1>1, DueLater DEF AscendDue, is_due

\* Outside the gap, time only makes a distribution older.
LEMMA ReadableKept ==
  ASSUME TypeOK, TypeOK', OwedInv, now <= now',
         mode \notin {"gap", "down"} \/ mode' \in {"gap", "down"},
         unpriced' \in {0, unpriced}
  PROVE  Readable'
  BY ConstantsAssumption DEF OwedInv, Readable, TypeOK

\* A request to stop changes nothing the argument is about.
LEMMA OwedStop == ASSUME OwedStep, request_stop PROVE OwedInv'
<1>1. UNCHANGED <<now, mode, turn, last_run, has_record, state_file,
                  retry_after, unpriced>>
  BY DEF request_stop, history
<1> QED BY <1>1 DEF OwedStep, OwedInv, DistributionStaysOwed, OwedInMemory,
        OwedOnDisk, owes_dependency, AscendDue, StampsPast, OpenMeansDue,
        AscendOpen, RetryPending, OracleBefore, Readable

\* A slot that is passed over, a resync and the end of a sleep leave the ledger
\* alone.
LEMMA OwedPass == ASSUME OwedStep, PassSlot PROVE OwedInv'
<1> USE DEF OwedStep
<1>1. /\ now' = now /\ now \in Nat /\ mode = "loop" /\ Proceed
      /\ UNCHANGED <<last_run, has_record, state_file, retry_after, unpriced>>
  BY DEF PassSlot, InSlot, memory, history, TypeOK
<1> QED BY <1>1, SlotLeft, LedgerKept, OpenKept, ReadableKept DEF OwedInv

LEMMA OwedResync == ASSUME OwedStep, run_resync PROVE OwedInv'
<1> USE DEF OwedStep
<1>1. PICK later \in now .. now + MaxRun :
        /\ now' = later
        /\ unpriced' \in {unpriced} \cup {Priced(read) : read \in now .. later}
  BY DEF run_resync
<1>2. now <= now' /\ unpriced' \in {0, unpriced}
  BY <1>1, LaterType DEF Priced
<1>3. /\ mode = "loop" /\ Proceed
      /\ UNCHANGED <<last_run, has_record, state_file, retry_after>>
  BY DEF run_resync, InSlot
<1> QED BY <1>2, <1>3, SlotLeft, LedgerKept, OpenKept, ReadableKept DEF OwedInv

LEMMA OwedSleep == ASSUME OwedStep, EndSleep PROVE OwedInv'
<1> USE DEF OwedStep
<1>1. /\ mode = "sleep" /\ mode' = "loop" /\ turn' = turn
      /\ now' = now + loop_sleep
      /\ UNCHANGED <<last_run, has_record, state_file, retry_after, unpriced>>
  BY DEF EndSleep, memory, history
<1>2. now \in Nat /\ now' \in Nat /\ now < now'
  BY <1>1, ConstantsAssumption DEF TypeOK
<1>3. OracleBefore'
  BY <1>1, <1>2 DEF OracleBefore, OwedInv, StampsPast, TypeOK, Task
<1> QED BY <1>1, <1>2, <1>3, LedgerKept, OpenKept, ReadableKept DEF OwedInv

\* The gap is what makes the distribution readable.
LEMMA OwedGap == ASSUME OwedStep, EndGap PROVE OwedInv'
<1> USE DEF OwedStep
<1>1. /\ mode = "gap" /\ Proceed /\ now' = now + gap
      /\ UNCHANGED <<last_run, has_record, state_file, retry_after, unpriced>>
  BY DEF EndGap, SettlingTime, memory, history
<1>2. now \in Nat /\ now' \in Nat /\ now <= now' /\ gap \in Nat
  BY <1>1, ConstantsAssumption DEF TypeOK
<1>3. Readable'
  BY <1>1, <1>2, ConstantsAssumption DEF OwedInv, Readable, SettledReads, TypeOK
<1> QED BY <1>1, <1>2, <1>3, SlotLeft, LedgerKept, OpenKept DEF OwedInv

\* A run of ascend begins only when ascend is due by its bucket: either that
\* is why it begins, or a retry is pending and it was due when that began.
LEMMA OwedRun == ASSUME OwedStep, StartTask PROVE OwedInv'
<1> USE DEF OwedStep
<1>1. /\ mode = "loop" /\ mode' = "run" /\ turn' = turn /\ now' = now
      /\ Due(turn) /\ now \in Nat
      /\ UNCHANGED <<last_run, has_record, state_file, retry_after, unpriced>>
  BY DEF StartTask, InSlot, TypeOK
<1>2. OpenMeansDue'
  <2>1. retry_after["ascend"] # 0 => AscendDue(last_run["ascend"])
    BY DEF OwedInv, OpenMeansDue, AscendOpen, RetryPending
  <2>2. turn = "ascend" => AscendDue(last_run["ascend"])
    BY <1>1, <2>1 DEF Due, RetryPending, owes_dependency, AscendDue
  <2> QED BY <1>1, <2>1, <2>2 DEF OpenMeansDue, AscendOpen, RetryPending, AscendDue
<1>3. OracleBefore'
  BY <1>1 DEF OwedInv, OracleBefore
<1> QED BY <1>1, <1>2, <1>3, LedgerKept, ReadableKept DEF OwedInv

\* A completed run leaves no retry of its task behind.
LEMMA CompletedRetries ==
  ASSUME TypeOK, Completed(turn) \/ Declined(turn)
  PROVE  retry_after'["ascend"] # 0 =>
           /\ retry_after["ascend"] # 0
           /\ last_run'["ascend"] = last_run["ascend"]
  BY DEF TypeOK, Task, Completed, Declined, record_success

LEMMA OwedPlain == ASSUME OwedStep, FinishPlain PROVE OwedInv'
<1> USE DEF OwedStep
<1>1. PICK later \in now .. now + MaxRun :
        /\ now' = later
        /\ unpriced' \in IF turn = "ascend" THEN {unpriced, later} ELSE {unpriced}
  BY DEF FinishPlain
<1>2. /\ mode = "run" /\ Completed(turn) /\ AfterRun
      /\ turn \in {"ascend", "handle_epoch"}
  BY DEF FinishPlain
<1>3. now \in Nat /\ now' \in Nat /\ now <= now'
  BY <1>1, LaterType DEF TypeOK
<1>4. OpenMeansDue' /\ OracleBefore'
  BY <1>2, <1>3, CompletedRetries, SlotLeft, OpenKept
<1>5. Readable'
  <2>1. CASE turn = "ascend"
    BY <1>1, <1>2, <1>3, <2>1, ConstantsAssumption
    DEF AfterRun, OwedInv, Readable, TypeOK
  <2>2. CASE turn # "ascend"
    BY <1>1, <1>2, <1>3, <2>2, ReadableKept
  <2> QED BY <2>1, <2>2
<1>6. DistributionStaysOwed' /\ StampsPast'
  BY <1>1, <1>2, <1>3, SlotLeft, CompletedOwes
<1> QED BY <1>4, <1>5, <1>6 DEF OwedInv

\* A failed run of ascend may have distributed; it was due, and so it remains.
LEMMA OwedFail == ASSUME OwedStep, Fail PROVE OwedInv'
<1> USE DEF OwedStep
<1>1. PICK later \in now .. now + MaxRun :
        /\ now' = later
        /\ \E when \in Nat : retry_after' = [retry_after EXCEPT ![turn] = when]
        /\ turn = "ascend" => unpriced' \in {unpriced, later}
        /\ turn # "ascend" => unpriced' \in {0, unpriced}
  <2>1. PICK later \in now .. now + MaxRun :
          /\ now' = later
          /\ retry_after' = [retry_after EXCEPT ![turn] =
               RetryTime(turn, failures[turn] + 1, later)]
          /\ unpriced' \in CASE turn = "ascend" -> {unpriced, later}
               [] turn = "oracle_update" -> {unpriced} \cup
                    {Priced(read) : read \in now .. later}
               [] OTHER -> {unpriced}
    BY DEF Fail
  <2>2. RetryTime(turn, failures[turn] + 1, later) \in Nat
    BY <2>1, LaterType, DelayType DEF RetryTime, TypeOK
  <2>3. turn # "ascend" => unpriced' \in {0, unpriced}
    BY <2>1 DEF Priced
  <2> QED BY <2>1, <2>2, <2>3
<1>2. /\ mode = "run" /\ AfterRun
      /\ UNCHANGED <<last_run, has_record, state_file>>
  BY DEF Fail
<1>3. now \in Nat /\ now' \in Nat /\ now <= now'
  BY <1>1, LaterType DEF TypeOK
<1>4. mode' \in {"loop", "gap", "sleep"} /\ OracleBefore'
  BY <1>2, SlotLeft
<1>5. CASE turn = "ascend"
  <2>1. AscendDue(last_run["ascend"]) /\ last_run["ascend"] \in Nat
        /\ state_file["ascend"] \in Nat
    BY <1>2, <1>5 DEF OwedInv, OpenMeansDue, AscendOpen, TypeOK, Task
  <2>2. AscendDue(last_run["ascend"])'
    BY <1>2, <1>3, <2>1, DueLater DEF AscendDue, is_due
  <2>3. state_file["ascend"] # 0 => AscendDue(state_file["ascend"])'
    BY <1>2, <1>3, <2>1, DueLater
    DEF AscendDue, is_due, OwedInv, StampsPast, Task
  <2>4. DistributionStaysOwed'
    BY <1>2, <2>2, <2>3 DEF DistributionStaysOwed, OwedInMemory, OwedOnDisk
  <2>5. StampsPast'
    BY <1>2, <1>3, <1>4 DEF OwedInv, StampsPast, TypeOK
  <2>6. OpenMeansDue'
    BY <1>4, <2>2 DEF OpenMeansDue
  <2>7. Readable'
    BY <1>1, <1>2, <1>3, <1>5, ConstantsAssumption
    DEF AfterRun, OwedInv, Readable, TypeOK
  <2> QED BY <1>4, <2>4, <2>5, <2>6, <2>7 DEF OwedInv
<1>6. CASE turn # "ascend"
  <2>1. retry_after'["ascend"] = retry_after["ascend"]
    BY <1>1, <1>6 DEF TypeOK, Task
  <2> QED BY <1>1, <1>2, <1>3, <1>4, <1>6, <2>1, LedgerKept, OpenKept,
             ReadableKept DEF OwedInv
<1> QED BY <1>5, <1>6

\* The value an oracle run writes was read after the gap, so it contains
\* whatever was distributed before.
LEMMA WriteClears ==
  ASSUME TypeOK, OwedInv, FinishOracleWritten
  PROVE  unpriced' = 0
<1>1. PICK read \in now .. now + MaxRun : unpriced' = Priced(read)
  BY DEF FinishOracleWritten
<1>2. read \in Nat /\ now <= read /\ SecureInterval \in Nat /\ unpriced \in Nat
  BY <1>1, LaterType, ConstantsAssumption DEF TypeOK
<1>3. unpriced = 0 \/ unpriced + SecureInterval <= now
  BY DEF FinishOracleWritten, OwedInv, Readable
<1> QED BY <1>1, <1>2, <1>3 DEF Priced, TypeOK

LEMMA OwedWritten == ASSUME OwedStep, FinishOracleWritten PROVE OwedInv'
<1> USE DEF OwedStep
<1>1. PICK later \in now .. now + MaxRun : now' = later
  BY DEF FinishOracleWritten
<1>2. /\ mode = "run" /\ turn = "oracle_update" /\ Completed(turn) /\ AfterRun
      /\ unpriced' = 0
  BY WriteClears DEF FinishOracleWritten
<1>3. now \in Nat /\ now' \in Nat /\ now <= now'
  BY <1>1, LaterType DEF TypeOK
<1> QED BY <1>2, <1>3, SlotLeft, CompletedRetries, OpenKept, CompletedOwes,
           ReadableKept DEF OwedInv

LEMMA OwedNotWritten == ASSUME OwedStep, FinishOracleNotWritten PROVE OwedInv'
<1> USE DEF OwedStep
<1>1. PICK later \in now .. now + MaxRun : now' = later
  BY DEF FinishOracleNotWritten
<1>2. /\ mode = "run" /\ Declined(turn) /\ AfterRun /\ unpriced' = unpriced
      /\ UNCHANGED <<last_run, has_record, state_file>>
  BY DEF FinishOracleNotWritten, Declined
<1>3. now \in Nat /\ now' \in Nat /\ now <= now'
  BY <1>1, LaterType DEF TypeOK
<1> QED BY <1>2, <1>3, SlotLeft, CompletedRetries, OpenKept, LedgerKept,
           ReadableKept DEF OwedInv

LEMMA OwedRebalance == ASSUME OwedStep, FinishRebalance PROVE OwedInv'
<1> USE DEF OwedStep
<1>1. PICK later \in now .. now + MaxRun, off \in BOOLEAN :
        /\ now' = later
        /\ IF off THEN Declined(turn) ELSE Completed(turn)
  BY DEF FinishRebalance
<1>2. /\ mode = "run" /\ turn = "rebalance" /\ AfterRun /\ unpriced' = unpriced
  BY DEF FinishRebalance
<1>3. now \in Nat /\ now' \in Nat /\ now <= now'
  BY <1>1, LaterType DEF TypeOK
<1>4. OpenMeansDue' /\ OracleBefore' /\ Readable'
  BY <1>1, <1>2, <1>3, SlotLeft, CompletedRetries, OpenKept, ReadableKept
<1>5. DistributionStaysOwed' /\ StampsPast'
  <2>1. CASE Completed(turn)
    BY <1>2, <1>3, <2>1, SlotLeft, CompletedOwes
  <2>2. CASE Declined(turn)
    BY <1>2, <1>3, <2>2, LedgerKept DEF Declined
  <2> QED BY <1>1, <2>1, <2>2
<1> QED BY <1>4, <1>5 DEF OwedInv

LEMMA OwedNext == ASSUME OwedStep, [Next]_vars PROVE OwedInv'
<1>1. CASE UNCHANGED vars
  BY <1>1 DEF OwedStep, vars, memory, history, OwedInv, DistributionStaysOwed,
     OwedInMemory, OwedOnDisk, owes_dependency, AscendDue, StampsPast,
     OpenMeansDue, AscendOpen, RetryPending, OracleBefore, Readable
<1>2. CASE Next
  BY <1>2, OwedStart, OwedDeath, OwedStop, OwedPass, OwedResync, OwedRun,
     OwedPlain, OwedFail, OwedWritten, OwedNotWritten, OwedRebalance, OwedGap,
     OwedSleep DEF Next, Run
<1> QED BY <1>1, <1>2

\* As long as the gap and a restart take no less than the reads lag, OwedInv
\* holds throughout.
LEMMA OwedAlways == SettledReads => (Spec => [](TypeOK /\ OwedInv))
<1> SUFFICES ASSUME SettledReads PROVE Spec => [](TypeOK /\ OwedInv)
  OBVIOUS
<1>1. Init => TypeOK /\ OwedInv
  BY TypeInit, OwedInit
<1>2. TypeOK /\ OwedInv /\ [Next]_vars => (TypeOK /\ OwedInv)'
  BY TypeStep, OwedNext DEF OwedStep
<1> QED BY <1>1, <1>2, PTL DEF Spec

\* Whatever the intervals, the order of runs, refusals, failures, failed saves,
\* kills and restarts: the debt of a distribution the oracle does not contain
\* is never marked as paid, in memory or in the state file.
THEOREM DistributionOwed == SettledReads => (Spec => []DistributionStaysOwed)
<1> SUFFICES ASSUME SettledReads PROVE Spec => []DistributionStaysOwed
  OBVIOUS
<1>1. Spec => [](TypeOK /\ OwedInv)
  BY OwedAlways
<1>2. OwedInv => DistributionStaysOwed
  BY DEF OwedInv
<1> QED BY <1>1, <1>2, PTL

\* Under the same assumption every write of the oracle contains the newest
\* distribution: no heartbeat publishes a value read before it.
THEOREM WritesContain == SettledReads => (Spec => WriteContainsDistribution)
<1> SUFFICES ASSUME SettledReads PROVE Spec => WriteContainsDistribution
  OBVIOUS
<1>1. Spec => [](TypeOK /\ OwedInv)
  BY OwedAlways
<1>2. TypeOK /\ OwedInv /\ [Next]_vars => [FinishOracleWritten => unpriced' = 0]_vars
  BY WriteClears
<1> QED BY <1>1, <1>2, PTL DEF Spec, WriteContainsDistribution

---------------------------------------------------------------------------
(* The file claims no run that did not complete.                           *)

LEMMA HonestInit == Init => HonestInv
<1> SUFFICES ASSUME Init PROVE HonestInv
  OBVIOUS
<1>1. state_file \in [Task -> 0 .. 1]
  BY ConstantsAssumption DEF Init
<1> QED BY <1>1 DEF Init, HonestInv, LedgerHonest

LEMMA HonestKept ==
  ASSUME TypeOK, TypeOK', HonestInv, now <= now',
         UNCHANGED <<last_run, has_record, state_file, done_at>>
  PROVE  HonestInv'
  BY DEF HonestInv, LedgerHonest, TypeOK

LEMMA HonestCompleted ==
  ASSUME TypeOK, TypeOK', HonestInv, now <= now', Completed(turn)
  PROVE  HonestInv'
<1>1. /\ last_run' = [last_run EXCEPT ![turn] = now]
      /\ done_at' = [done_at EXCEPT ![turn] = now]
      /\ has_record' = has_record \cup {turn}
      /\ state_file' = Records(last_run', has_record') \/ state_file' = state_file
  BY DEF Completed, WithRecord, _save_state
<1>2. \A t \in Task : done_at'[t] <= now' /\ done_at[t] <= done_at'[t]
  BY <1>1 DEF HonestInv, TypeOK
<1>3. \A t \in has_record' : last_run'[t] <= done_at'[t]
  BY <1>1 DEF HonestInv, TypeOK
<1>4. LedgerHonest'
  <2>1. CASE state_file' = state_file
    BY <1>2, <2>1 DEF HonestInv, LedgerHonest, TypeOK
  <2>2. CASE state_file' = Records(last_run', has_record')
    <3>1. \A t \in Task :
            state_file'[t] = IF t \in has_record' THEN last_run'[t] ELSE 0
      BY <2>2 DEF Records
    <3> QED BY <1>3, <3>1 DEF LedgerHonest, TypeOK
  <2> QED BY <1>1, <2>1, <2>2
<1> QED BY <1>2, <1>3, <1>4 DEF HonestInv

\* Every run of a handler ends in Completed, Declined or with the ledger as it
\* was.
LEMMA HonestNext == ASSUME TypeOK, TypeOK', HonestInv, [Next]_vars
                    PROVE  HonestInv'
<1>1. CASE Start
  <2>1. /\ now <= now' /\ UNCHANGED <<state_file, done_at>>
        /\ has_record' = {t \in Task : state_file[t] # 0}
        /\ \A t \in Task : state_file[t] # 0 => last_run'[t] = state_file[t]
    BY <1>1, ConstantsAssumption DEF Start, history, TypeOK
  <2> QED BY <2>1 DEF HonestInv, LedgerHonest, TypeOK
<1>2. CASE Crash \/ Exit
  <2>1. /\ now <= now' /\ UNCHANGED <<state_file, done_at>> /\ has_record' = {}
    BY <1>2, ConstantsAssumption DEF Crash, Exit, Forgotten, TypeOK
  <2> QED BY <2>1 DEF HonestInv, LedgerHonest, TypeOK
<1>3. CASE request_stop \/ PassSlot \/ StartTask \/ UNCHANGED vars
  BY <1>3, HonestKept
  DEF request_stop, PassSlot, StartTask, vars, memory, history, TypeOK
<1>4. CASE EndGap \/ EndSleep
  BY <1>4, HonestKept, ConstantsAssumption
  DEF EndGap, EndSleep, SettlingTime, memory, history, TypeOK
<1>5. CASE run_resync \/ Fail
  <2>1. PICK later \in now .. now + MaxRun : now' = later
    BY <1>5 DEF run_resync, Fail
  <2>2. now <= now' /\ UNCHANGED <<last_run, has_record, state_file, done_at>>
    BY <1>5, <2>1, LaterType DEF run_resync, Fail
  <2> QED BY <2>2, HonestKept
<1>6. CASE FinishPlain \/ FinishOracleWritten \/ FinishOracleNotWritten
           \/ FinishRebalance
  <2>1. PICK later \in now .. now + MaxRun : now' = later
    BY <1>6 DEF FinishPlain, FinishOracleWritten, FinishOracleNotWritten,
       FinishRebalance
  <2>2. now <= now'
    BY <2>1, LaterType
  <2>3. Completed(turn) \/ Declined(turn)
    BY <1>6 DEF FinishPlain, FinishOracleWritten, FinishOracleNotWritten,
       FinishRebalance
  <2>4. CASE Declined(turn)
    BY <2>2, <2>4, HonestKept DEF Declined
  <2> QED BY <2>2, <2>3, <2>4, HonestCompleted
<1> QED BY <1>1, <1>2, <1>3, <1>4, <1>5, <1>6 DEF Next, Run

LEMMA HonestAlways == Spec => [](TypeOK /\ HonestInv)
<1>1. Init => TypeOK /\ HonestInv
  BY TypeInit, HonestInit
<1>2. TypeOK /\ HonestInv /\ [Next]_vars => (TypeOK /\ HonestInv)'
  BY TypeStep, HonestNext
<1> QED
  BY <1>1, <1>2, PTL DEF Spec

\* Whatever fails, declines or dies, and whichever saves fail: no entry of the
\* state file is later than the task's last completed run.
THEOREM LedgerIsHonest == Spec => []LedgerHonest
<1>1. HonestInv => LedgerHonest
  BY DEF HonestInv
<1> QED BY <1>1, HonestAlways, PTL

---------------------------------------------------------------------------
(* A started task stays owed.  It was owed when it was started, for its    *)
(* debt or its bucket; a retry is pending only for a task that was         *)
(* started, so when the retry is cleared by a run that declines, what the  *)
(* task was started for is still there.                                    *)

DueInv ==
  /\ mode = "down" => unfinished = {} /\ \A t \in Task : ~RetryPending(t)
  /\ mode = "run" => turn \in unfinished
  /\ mode # "down" => \A t \in Task : last_run[t] <= now
  /\ \A t \in Task : RetryPending(t) => t \in unfinished
  /\ \A t \in unfinished :
       owes_dependency(t) \/ is_due(last_run[t], now, interval[t])

\* Nothing but its own completion pays what a task is owed.
LEMMA OwedLater ==
  ASSUME TypeOK, TypeOK', DueInv, mode # "down", now <= now',
         NEW t \in unfinished,
         last_run'[t] = last_run[t], last_run["ascend"] <= last_run'["ascend"],
         has_record \subseteq has_record', t \in has_record' => t \in has_record
  PROVE  (owes_dependency(t) \/ is_due(last_run[t], now, interval[t]))'
<1>1. /\ t \in Task /\ last_run[t] \in Nat /\ last_run'["ascend"] \in Nat
      /\ last_run["ascend"] \in Nat /\ now \in Nat /\ now' \in Nat
      /\ interval[t] \in Nat \ {0}
  BY ConstantsAssumption DEF TypeOK, Task
<1>2. CASE owes_dependency(t)
  <2>1. t = "oracle_update"
    BY <1>2 DEF owes_dependency
  <2>2. CASE "oracle_update" \notin has_record /\ "ascend" \in has_record
    BY <2>1, <2>2 DEF owes_dependency
  <2>3. CASE last_run["ascend"] > last_run["oracle_update"]
    BY <1>1, <2>1, <2>3 DEF owes_dependency
  <2> QED
    BY <1>2, <2>2, <2>3 DEF owes_dependency
<1>3. CASE is_due(last_run[t], now, interval[t])
  BY <1>1, <1>3, DueMonotone
<1> QED
  BY <1>2, <1>3 DEF DueInv

\* A step after which no task has come to its end.
LEMMA DueKept ==
  ASSUME TypeOK, TypeOK', DueInv, mode # "down", mode' # "down", now <= now',
         UNCHANGED <<last_run, has_record, unfinished>>,
         \A t \in Task : retry_after'[t] # 0 => t \in unfinished,
         mode' = "run" => turn' \in unfinished
  PROVE  DueInv'
<1>1. \A t \in unfinished :
        (owes_dependency(t) \/ is_due(last_run[t], now, interval[t]))'
  BY OwedLater DEF TypeOK, Task
<1> QED
  BY <1>1 DEF DueInv, RetryPending, TypeOK

\* A run that completes is owed no longer; the other tasks are owed what they
\* were, and the oracle perhaps more.
LEMMA DueCompleted ==
  ASSUME TypeOK, TypeOK', DueInv, mode = "run", mode' \notin {"down", "run"},
         now <= now', Completed(turn)
  PROVE  DueInv'
<1>1. /\ last_run' = [last_run EXCEPT ![turn] = now]
      /\ has_record' = has_record \cup {turn}
      /\ unfinished' = unfinished \ {turn}
      /\ retry_after' = [retry_after EXCEPT ![turn] = 0]
      /\ turn \in Task
  BY DEF Completed, WithRecord, record_success, TypeOK
<1>2. \A t \in Task : last_run[t] <= last_run'[t] /\ last_run'[t] <= now'
  BY <1>1 DEF DueInv, TypeOK
<1>3. ASSUME NEW t \in unfinished'
      PROVE  (owes_dependency(t) \/ is_due(last_run[t], now, interval[t]))'
  <2>1. t \in unfinished /\ t # turn /\ t \in Task
    BY <1>1, <1>3 DEF TypeOK
  <2>2. last_run'[t] = last_run[t] /\ (t \in has_record' => t \in has_record)
    BY <1>1, <2>1 DEF TypeOK
  <2>3. last_run["ascend"] <= last_run'["ascend"]
    BY <1>2 DEF Task
  <2> QED
    BY <1>1, <2>1, <2>2, <2>3, OwedLater
<1>4. \A t \in Task : RetryPending(t)' => t \in unfinished'
  BY <1>1 DEF DueInv, RetryPending, TypeOK
<1> QED
  BY <1>2, <1>3, <1>4 DEF DueInv

LEMMA DueNext == ASSUME TypeOK, TypeOK', HonestInv, DueInv, [Next]_vars
                 PROVE  DueInv'
<1>1. CASE Start
  <2>1. /\ mode = "down" /\ mode' = "loop" /\ unfinished' = unfinished
        /\ retry_after' = retry_after
    BY <1>1 DEF Start, history
  <2>2. \A t \in Task : last_run'[t] <= now'
    <3>1. PICK pause \in RestartPauses :
            /\ now' = now + pause
            /\ last_run' = [t \in Task |->
                 IF state_file[t] # 0 THEN state_file[t] ELSE now + pause]
      BY <1>1 DEF Start
    <3>2. pause \in Nat
      BY ConstantsAssumption
    <3>3. \A t \in Task : state_file[t] <= now
      BY DEF HonestInv, LedgerHonest, TypeOK
    <3> QED
      BY <3>1, <3>2, <3>3 DEF TypeOK
  <2> QED
    BY <2>1, <2>2 DEF DueInv, RetryPending
<1>2. CASE Crash \/ Exit
  <2>1. mode' = "down" /\ unfinished' = {} /\ retry_after' = AllTasks(0)
    BY <1>2 DEF Crash, Exit, Forgotten
  <2> QED
    BY <2>1 DEF DueInv, RetryPending, AllTasks
<1>3. CASE request_stop
  <2>1. /\ mode # "down"
        /\ UNCHANGED <<now, mode, turn, last_run, has_record, unfinished,
                       retry_after>>
    BY <1>3 DEF request_stop, history
  <2> QED
    BY <2>1, DueKept DEF DueInv, RetryPending, TypeOK
<1>4. CASE PassSlot \/ run_resync \/ EndGap \/ EndSleep
  <2>1. /\ mode # "down" /\ mode' \notin {"down", "run"}
        /\ UNCHANGED <<last_run, has_record, unfinished, retry_after>>
    BY <1>4 DEF PassSlot, run_resync, EndGap, EndSleep, InSlot, Proceed, memory,
                history
  <2>2. now <= now'
    <3>1. CASE run_resync
      BY <3>1, LaterType DEF run_resync
    <3>2. CASE ~run_resync
      BY <1>4, <3>2, ConstantsAssumption
         DEF PassSlot, EndGap, EndSleep, SettlingTime, TypeOK
    <3> QED
      BY <3>1, <3>2
  <2> QED
    BY <2>1, <2>2, DueKept DEF DueInv, RetryPending
<1>5. CASE StartTask
  <2>1. /\ mode = "loop" /\ mode' = "run" /\ now' = now /\ turn' = turn
        /\ unfinished' = unfinished \cup {turn} /\ Due(turn) /\ turn \in Task
        /\ UNCHANGED <<last_run, has_record, retry_after>>
    BY <1>5 DEF StartTask, InSlot, TypeOK
  <2>2. owes_dependency(turn) \/ is_due(last_run[turn], now, interval[turn])
    BY <2>1 DEF Due, DueInv
  <2>3. \A t \in unfinished' :
          (owes_dependency(t) \/ is_due(last_run[t], now, interval[t]))'
    BY <2>1, <2>2 DEF DueInv, owes_dependency
  <2> QED
    BY <2>1, <2>3 DEF DueInv, RetryPending
<1>6. CASE Fail
  <2>1. /\ mode = "run" /\ AfterRun /\ turn \in unfinished
        /\ UNCHANGED <<last_run, has_record, unfinished>>
    BY <1>6 DEF Fail, DueInv
  <2>2. PICK later \in now .. now + MaxRun :
          /\ now' = later
          /\ \E when : retry_after' = [retry_after EXCEPT ![turn] = when]
    BY <1>6 DEF Fail
  <2>3. mode' \notin {"down", "run"} /\ now <= now'
    BY <2>1, <2>2, SlotLeft, LaterType
  <2>4. \A t \in Task : retry_after'[t] # 0 => t \in unfinished
    BY <2>1, <2>2 DEF DueInv, RetryPending, TypeOK
  <2> QED
    BY <2>1, <2>3, <2>4, DueKept
<1>7. CASE FinishPlain \/ FinishOracleWritten \/ FinishOracleNotWritten
           \/ FinishRebalance
  <2>1. PICK later \in now .. now + MaxRun : now' = later
    BY <1>7 DEF FinishPlain, FinishOracleWritten, FinishOracleNotWritten,
       FinishRebalance
  <2>2. now <= now'
    BY <2>1, LaterType
  <2>3. mode = "run" /\ AfterRun /\ (Completed(turn) \/ Declined(turn))
    BY <1>7 DEF FinishPlain, FinishOracleWritten, FinishOracleNotWritten,
       FinishRebalance
  <2>4. mode' \notin {"down", "run"}
    BY <2>3, SlotLeft
  <2>5. CASE Declined(turn)
    <3>1. /\ UNCHANGED <<last_run, has_record, unfinished>>
          /\ \A t \in Task : retry_after'[t] # 0 => retry_after[t] # 0
      BY <2>5 DEF Declined, record_success, TypeOK
    <3> QED
      BY <2>2, <2>3, <2>4, <3>1, DueKept DEF DueInv, RetryPending
  <2> QED
    BY <2>2, <2>3, <2>4, <2>5, DueCompleted
<1>8. CASE UNCHANGED vars
  BY <1>8 DEF vars, memory, history, DueInv, RetryPending, owes_dependency
<1> QED
  BY <1>1, <1>2, <1>3, <1>4, <1>5, <1>6, <1>7, <1>8 DEF Next, Run

\* A task that was started and did not complete keeps being owed, whatever
\* fails, declines or is retried in between.
THEOREM StartedStaysDue == Spec => []UnfinishedStaysDue
<1>1. Init => DueInv
  BY DEF Init, DueInv, RetryPending, AllTasks
<1>2. TypeOK /\ TypeOK' /\ HonestInv /\ DueInv /\ [Next]_vars => DueInv'
  BY DueNext
<1>3. DueInv => UnfinishedStaysDue
  BY DEF DueInv, UnfinishedStaysDue
<1> QED
  BY <1>1, <1>2, <1>3, HonestAlways, PTL DEF Spec

---------------------------------------------------------------------------
(* A request for a resync is answered before the next rebalancing.         *)

\* An unanswered request stands; the oracle's slot comes before rebalancing's,
\* and is passed over with a standing request only during the oracle's backoff.
AnswerInv ==
  /\ mode \in {"gap", "sleep"} => turn = "ascend"
  /\ mode = "down" => answered
  /\ ~answered => resync_requested
  /\ mode = "run" /\ turn = "oracle_update" => answered
  /\ turn = "rebalance" => answered \/ RetryPending("oracle_update")

LEMMA AnswerNext == ASSUME TypeOK, TypeOK', AnswerInv, [Next]_vars
                    PROVE  AnswerInv'
<1>0. turn \in Task /\ mode \in Modes
  BY DEF TypeOK
<1>1. CASE Crash \/ Exit
  BY <1>1 DEF Crash, Exit, Forgotten, AnswerInv
<1>2. CASE Start \/ request_stop \/ StartTask \/ EndSleep \/ UNCHANGED vars
  BY <1>2 DEF Start, request_stop, StartTask, InSlot, EndSleep, vars, memory,
              history, AnswerInv, RetryPending
<1>3. CASE PassSlot \/ EndGap
  <2>1. /\ Proceed /\ UNCHANGED <<answered, resync_requested, retry_after>>
        /\ mode \in {"loop", "gap"} /\ (mode = "gap" => turn = "ascend")
        /\ turn = "oracle_update" =>
             ~resync_requested \/ RetryPending("oracle_update")
    BY <1>3 DEF PassSlot, EndGap, InSlot, ResyncDue, memory, history, AnswerInv
  <2> QED
    BY <1>0, <2>1 DEF Proceed, After, Task, AnswerInv, RetryPending
<1>4. CASE run_resync
  <2>1. Proceed /\ answered' = TRUE
    BY <1>4 DEF run_resync
  <2> QED
    BY <1>0, <2>1 DEF Proceed, After, Task, AnswerInv
<1>5. CASE FinishPlain \/ Fail \/ FinishOracleWritten \/ FinishOracleNotWritten
  <2>1. /\ mode = "run" /\ AfterRun /\ UNCHANGED <<answered, resync_requested>>
    BY <1>5 DEF FinishPlain, Fail, FinishOracleWritten, FinishOracleNotWritten
  <2>2. /\ mode' \in {"loop", "gap", "sleep"}
        /\ mode' \in {"gap", "sleep"} => turn' = "ascend"
        /\ turn' = "rebalance" => turn = "oracle_update"
    BY <1>0, <2>1 DEF AfterRun, Proceed, After, Task
  <2> QED
    BY <2>1, <2>2 DEF AnswerInv
<1>6. CASE FinishRebalance
  <2>1. PICK off \in BOOLEAN :
          /\ resync_requested' = (resync_requested \/ off)
          /\ answered' = (answered /\ ~off)
    BY <1>6 DEF FinishRebalance
  <2>2. turn' = "handle_epoch" /\ mode' = "loop"
    BY <1>6 DEF FinishRebalance, AfterRun, Proceed, After
  <2>3. ~answered' => resync_requested'
    BY <2>1 DEF AnswerInv, TypeOK
  <2> QED
    BY <2>2, <2>3 DEF AnswerInv
<1> QED
  BY <1>1, <1>2, <1>3, <1>4, <1>5, <1>6 DEF Next, Run

\* Rebalancing never runs against an oracle it found out of line before a write
\* was attempted, but for the oracle's backoff.
THEOREM RefusalsAreAnswered == Spec => []RefusalAnswered
<1>1. Init => AnswerInv
  BY DEF Init, AnswerInv
<1>2. TypeOK /\ TypeOK' /\ AnswerInv /\ [Next]_vars => AnswerInv'
  BY AnswerNext
<1>3. AnswerInv => RefusalAnswered
  BY DEF AnswerInv, RefusalAnswered
<1> QED
  BY <1>1, <1>2, <1>3, TypeCorrect, PTL DEF Spec
=============================================================================
