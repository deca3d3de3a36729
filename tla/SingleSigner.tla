---------------------------- MODULE SingleSigner ----------------------------
(***************************************************************************)
(* What src/src/process_lock.py promises its callers: of all the processes *)
(* that take the lock, one at a time may sign with the account they share. *)
(***************************************************************************)
CONSTANTS
  Process,  \* the processes that take the lock before they sign
  NoOne     \* the holder when the lock is free; not a process

VARIABLE holder

Init == holder = NoOne

\* ProcessLock.acquire returned.
Take(p) == holder = NoOne /\ holder' = p

\* ProcessLock.release returned, or the holder died.
Give(p) == holder = p /\ holder' = NoOne

Next == \E p \in Process : Take(p) \/ Give(p)

Spec == Init /\ [][Next]_holder
=============================================================================
