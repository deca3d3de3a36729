----------------------------- MODULE MCScheduler -----------------------------
(***************************************************************************)
(* Small instances of Scheduler for TLC.                                   *)
(***************************************************************************)
EXTENDS Scheduler

\* Intervals in ticks.  One beyond MaxTime is a task that does not come due
\* within the run: the ledger run leaves out rebalancing, the alert run the
\* distribution and the epochs.
LedgerInterval == [ascend |-> 4, oracle_update |-> 4, rebalance |-> 100,
                   handle_epoch |-> 3]
AlertInterval == [ascend |-> 100, oracle_update |-> 9, rebalance |-> 1,
                  handle_epoch |-> 100]

\* A first start with no file, one after a rename that lost the oracle's entry,
\* and one with every task recorded.
MCSavedSchedules ==
  {AllTasks(0), [AllTasks(1) EXCEPT !["oracle_update"] = 0], AllTasks(1)}

\* A restart of a settled installation.
MCSettled == {AllTasks(1)}
=============================================================================
