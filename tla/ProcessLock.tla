---------------------------- MODULE ProcessLock ----------------------------
(***************************************************************************)
(* ProcessLock of src/src/process_lock.py and the three programs that take *)
(* it before they sign: the scheduler, cli.py and main.py.  The lock is an *)
(* advisory lock (flock) of the kernel on an open file, found by its name. *)
(*                                                                         *)
(* The modelled system is those processes, the directory entry with the    *)
(* lock's name, the pid written in the file, and the saved schedule, which *)
(* a scheduler reads when it starts, before it takes the lock.  A process  *)
(* may be killed between any two steps; its pid may be used again.         *)
(***************************************************************************)
EXTENDS Naturals

CONSTANTS
  Process,     \* the processes that take the lock before they sign
  Schedulers,  \* those of them that run scheduler.py
  NoOne,       \* no process
  MaxStarts,   \* bound: processes started
  MaxRuns      \* bound: tasks completed

ASSUME ProcessAssumption ==
  /\ Schedulers \subseteq Process
  /\ NoOne \notin Process
  /\ {MaxStarts, MaxRuns} \subseteq Nat

VARIABLES
  name,       \* the inode the lock's path names; 0 is none
  inodes,     \* inodes created so far
  pid,        \* the process whose pid the file at the path holds
  fd,         \* the inode each process has open; 0 is none
  flocked,    \* the processes that hold the kernel's lock on what they have open
  pc,         \* where each process is, see Places
  memory,     \* the completed runs a scheduler knows of
  recorded,   \* the completed runs the saved schedule holds
  completed,  \* runs completed so far, numbered from 1
  starts      \* processes started so far

file == <<name, inodes, pid>>
schedule == <<memory, recorded, completed>>
vars == <<file, fd, flocked, pc, schedule, starts>>

\* "started": not at the lock yet.  "opened": about to try it.  "locked" and
\* "emptied": holding it, about to write the pid.  "holding": acquire has
\* returned.  "released": about to close the file and end.
Places == {"out", "started", "opened", "locked", "emptied", "holding",
           "released"}

Move(p, from, to) == pc[p] = from /\ pc' = [pc EXCEPT ![p] = to]

---------------------------------------------------------------------------
(* Starting and opening.                                                   *)

\* A scheduler loads the saved schedule in its constructor.
Start(p) ==
  /\ starts < MaxStarts
  /\ starts' = starts + 1
  /\ Move(p, "out", "started")
  /\ memory' = [memory EXCEPT ![p] = IF p \in Schedulers THEN recorded ELSE @]
  /\ UNCHANGED <<file, fd, flocked, recorded, completed>>

\* Creates the file when the path names none.
OpenFile(p) ==
  /\ Move(p, "started", "opened")
  /\ inodes' = IF name = 0 THEN inodes + 1 ELSE inodes
  /\ name' = IF name = 0 THEN inodes + 1 ELSE name
  /\ fd' = [fd EXCEPT ![p] = name']

\* os.open with O_CREAT | O_RDWR: what the file holds is left alone.
Open(p) ==
  /\ OpenFile(p)
  /\ pid' = IF name = 0 THEN NoOne ELSE pid
  /\ UNCHANGED <<flocked, schedule, starts>>

---------------------------------------------------------------------------
(* Taking the lock.                                                        *)

\* Mutation: the pid in the file decides, when no such process is running.
FreeByPid(p) == \A q \in Process \ {p} : pid = q => pc[q] = "out"

\* The kernel has granted the inode that p has open to nobody.
Free(p) == \A q \in flocked : fd[q] # fd[p]

Flock(p) ==
  /\ Move(p, "opened", "locked")
  /\ Free(p)
  /\ flocked' = flocked \cup {p}
  /\ UNCHANGED <<file, fd, schedule, starts>>

\* Mutation: the refused process forgets to close the file.
LeaveOpen(p) == UNCHANGED fd

CloseFile(p) == fd' = [fd EXCEPT ![p] = 0]

\* LockHeld: the file is closed and the process ends without having signed.
Refuse(p) ==
  /\ Move(p, "opened", "out")
  /\ ~Free(p)
  /\ CloseFile(p)
  /\ UNCHANGED <<file, flocked, schedule, starts>>

\* A write through p's descriptor is seen at the path if that is what p opened.
WrittenBy(p, what) == pid' = IF fd[p] = name THEN what ELSE pid

Truncate(p) ==
  /\ Move(p, "locked", "emptied")
  /\ WrittenBy(p, NoOne)
  /\ UNCHANGED <<name, inodes, fd, flocked, schedule, starts>>

WritePid(p) ==
  /\ Move(p, "emptied", "holding")
  /\ WrittenBy(p, p)
  /\ UNCHANGED <<name, inodes, fd, flocked, schedule, starts>>

---------------------------------------------------------------------------
(* Holding the lock and giving it up.                                      *)

\* A task of the scheduler ends and the schedule is saved, or the save fails.
\* The runs are of different tasks: none replaces the entry of another.
CompleteRun(p) ==
  /\ p \in Schedulers
  /\ pc[p] = "holding"
  /\ completed < MaxRuns
  /\ completed' = completed + 1
  /\ memory' = [memory EXCEPT ![p] = @ \cup {completed + 1}]
  /\ recorded' \in {recorded, memory'[p]}
  /\ UNCHANGED <<file, fd, flocked, pc, starts>>

\* The file is deliberately left in place.
LeaveInPlace == UNCHANGED file

\* release: on leaving the with block or the try, or on a second signal, which
\* ends the process.
Unlock(p) ==
  /\ Move(p, "holding", "released")
  /\ flocked' = flocked \ {p}
  /\ LeaveInPlace
  /\ UNCHANGED <<fd, schedule, starts>>

Close(p) ==
  /\ Move(p, "released", "out")
  /\ CloseFile(p)
  /\ UNCHANGED <<file, flocked, schedule, starts>>

\* However a process dies, the kernel closes its files and drops its locks.
Die(p) ==
  /\ pc[p] # "out"
  /\ pc' = [pc EXCEPT ![p] = "out"]
  /\ fd' = [fd EXCEPT ![p] = 0]
  /\ flocked' = flocked \ {p}
  /\ UNCHANGED <<file, schedule, starts>>

\* The file may be left over from an earlier installation, naming anyone.
Init ==
  /\ \/ name = 0 /\ pid = NoOne
     \/ name = 1 /\ pid \in Process \cup {NoOne}
  /\ inodes = name
  /\ fd = [p \in Process |-> 0]
  /\ flocked = {}
  /\ pc = [p \in Process |-> "out"]
  /\ memory = [p \in Process |-> {}]
  /\ recorded = {}
  /\ completed = 0
  /\ starts = 0

acquire(p) == Open(p) \/ Flock(p) \/ Refuse(p) \/ Truncate(p) \/ WritePid(p)

release(p) == Unlock(p) \/ Close(p)

Next ==
  \E p \in Process :
    Start(p) \/ acquire(p) \/ CompleteRun(p) \/ release(p) \/ Die(p)

Spec == Init /\ [][Next]_vars

---------------------------------------------------------------------------
(* Properties.                                                             *)

\* Every variable keeps its shape, and a file is open exactly between open and
\* close: acquire leaks none.
TypeOK ==
  /\ name \in Nat /\ inodes \in Nat /\ name <= inodes
  /\ pid \in Process \cup {NoOne}
  /\ fd \in [Process -> Nat]
  /\ flocked \subseteq Process
  /\ pc \in [Process -> Places]
  /\ memory \in [Process -> SUBSET Nat]
  /\ recorded \subseteq Nat
  /\ completed \in Nat
  /\ starts \in Nat
  /\ \A p \in Process : fd[p] = 0 <=> pc[p] \in {"out", "started"}

Signing(p) == pc[p] = "holding"

\* Never two processes between acquire and release: no start, refusal, release
\* or death of a third one opens a way to a second holder (ProcessLock).
OneSigner ==
  \A p, q \in Process : Signing(p) /\ Signing(q) => p = q

\* While a process holds the lock the file names it, whoever else tries, fails
\* or dies meanwhile: it is what an operator is shown (_holder_pid).
FileNamesHolder == \A p \in Process : Signing(p) => pid = p

\* What makes the two inductive: every open file is the one the path names, and
\* whoever is past the kernel's lock holds it.
LockInv ==
  /\ \A p \in Process : fd[p] \in {0, name}
  /\ \A p \in flocked : pc[p] \in {"locked", "emptied", "holding"}
  /\ \A p \in Process :
       pc[p] \in {"locked", "emptied", "holding"} => p \in flocked
  /\ \A p, q \in flocked : p = q
  /\ OneSigner
  /\ FileNamesHolder

\* The process that may sign, as the callers see it.
holder == IF flocked = {} THEN NoOne ELSE CHOOSE p \in Process : p \in flocked

Abstract == INSTANCE SingleSigner

\* The lock is what it promises to be: a step of it hands the account from one
\* process to nobody, or from nobody to one process, and to no other effect.
ImplementsSingleSigner == Abstract!Spec

\* A run that the saved schedule holds stays there: a scheduler takes over from
\* what the last one recorded.
RecordsKept == [][recorded \subseteq recorded']_vars
=============================================================================
