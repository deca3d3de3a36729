------------------------- MODULE ProcessLockProofs -------------------------
(***************************************************************************)
(* Proofs about ProcessLock, for any set of processes and any number of    *)
(* starts: its invariant, and that it implements SingleSigner.             *)
(***************************************************************************)
EXTENDS ProcessLock, TLAPS

---------------------------------------------------------------------------
(* Types.                                                                  *)

\* No process runs and no file is open at first.
LEMMA TypeInit == Init => TypeOK
BY DEF Init, TypeOK, Places

\* One step per action; each changes one process.
LEMMA TypeStep == TypeOK /\ [Next]_vars => TypeOK'
<1> SUFFICES ASSUME TypeOK, [Next]_vars PROVE TypeOK'
  OBVIOUS
<1> USE DEF TypeOK, Places, Move
<1>1. ASSUME NEW p \in Process, Start(p) PROVE TypeOK'
  BY <1>1 DEF Start, file
<1>2. ASSUME NEW p \in Process, Open(p) PROVE TypeOK'
  BY <1>2 DEF Open, OpenFile, schedule
<1>3. ASSUME NEW p \in Process, Flock(p) PROVE TypeOK'
  BY <1>3 DEF Flock, file, schedule
<1>4. ASSUME NEW p \in Process, Refuse(p) PROVE TypeOK'
  BY <1>4 DEF Refuse, CloseFile, file, schedule
<1>5. ASSUME NEW p \in Process, Truncate(p) PROVE TypeOK'
  BY <1>5 DEF Truncate, WrittenBy, schedule
<1>6. ASSUME NEW p \in Process, WritePid(p) PROVE TypeOK'
  BY <1>6 DEF WritePid, WrittenBy, schedule
<1>7. ASSUME NEW p \in Process, CompleteRun(p) PROVE TypeOK'
  BY <1>7 DEF CompleteRun, file
<1>8. ASSUME NEW p \in Process, Unlock(p) PROVE TypeOK'
  BY <1>8 DEF Unlock, LeaveInPlace, file, schedule
<1>9. ASSUME NEW p \in Process, Close(p) PROVE TypeOK'
  BY <1>9 DEF Close, CloseFile, file, schedule
<1>10. ASSUME NEW p \in Process, Die(p) PROVE TypeOK'
  BY <1>10 DEF Die, file, schedule
<1>11. CASE UNCHANGED vars
  BY <1>11 DEF vars, file, schedule
<1> QED
  BY <1>1, <1>2, <1>3, <1>4, <1>5, <1>6, <1>7, <1>8, <1>9, <1>10, <1>11
  DEF Next, acquire, release

\* Every variable keeps its shape, and acquire leaks no open file, whatever the
\* number of processes and of starts.
THEOREM TypeCorrect == Spec => []TypeOK
BY TypeInit, TypeStep, PTL DEF Spec

---------------------------------------------------------------------------
(* Mutual exclusion.                                                       *)

\* Nobody holds anything at first, whatever file was left over.
LEMMA LockInit == Init => LockInv
BY DEF Init, LockInv, OneSigner, FileNamesHolder, Signing

\* The path never comes to name another file, so the kernel's lock on what a
\* process opened is the lock on what everyone opens.
LEMMA LockStep == TypeOK /\ LockInv /\ [Next]_vars => LockInv'
<1> SUFFICES ASSUME TypeOK, LockInv, [Next]_vars PROVE LockInv'
  OBVIOUS
<1> USE DEF TypeOK, Places, Move, LockInv, OneSigner, FileNamesHolder, Signing
<1>1. ASSUME NEW p \in Process, Start(p) PROVE LockInv'
  BY <1>1 DEF Start, file
<1>2. ASSUME NEW p \in Process, Open(p) PROVE LockInv'
  \* A path that names nothing means that nobody has anything open.
  <2>1. \A q \in Process : name = 0 => fd[q] = 0
    BY <1>2
  <2>2. \A q \in Process : fd'[q] \in {0, name'}
    BY <1>2, <2>1 DEF Open, OpenFile
  <2>3. name = 0 => \A q \in Process : ~Signing(q)
    BY <1>2, <2>1
  <2>4. \A q \in Process : Signing(q)' => Signing(q)
    BY <1>2 DEF Open, OpenFile
  <2>5. FileNamesHolder'
    BY <1>2, <2>3, <2>4 DEF Open
  <2> QED
    BY <1>2, <2>2, <2>5 DEF Open, OpenFile
<1>3. ASSUME NEW p \in Process, Flock(p) PROVE LockInv'
  \* What p opened is what a holder would have open, so there is none.
  <2>1. fd[p] = name /\ name # 0
    BY <1>3 DEF Flock
  <2>2. \A q \in flocked : fd[q] = name
    BY <2>1
  <2>3. flocked = {}
    BY <1>3, <2>1, <2>2 DEF Flock, Free
  <2> QED
    BY <1>3, <2>3 DEF Flock, file
<1>4. ASSUME NEW p \in Process, Refuse(p) PROVE LockInv'
  BY <1>4 DEF Refuse, CloseFile, file
<1>5. ASSUME NEW p \in Process, Truncate(p) PROVE LockInv'
  BY <1>5 DEF Truncate, WrittenBy
<1>6. ASSUME NEW p \in Process, WritePid(p) PROVE LockInv'
  BY <1>6 DEF WritePid, WrittenBy
<1>7. ASSUME NEW p \in Process, CompleteRun(p) PROVE LockInv'
  BY <1>7 DEF CompleteRun, file
<1>8. ASSUME NEW p \in Process, Unlock(p) PROVE LockInv'
  BY <1>8 DEF Unlock, LeaveInPlace, file
<1>9. ASSUME NEW p \in Process, Close(p) PROVE LockInv'
  BY <1>9 DEF Close, CloseFile, file
<1>10. ASSUME NEW p \in Process, Die(p) PROVE LockInv'
  BY <1>10 DEF Die, file
<1>11. CASE UNCHANGED vars
  BY <1>11 DEF vars, file
<1> QED
  BY <1>1, <1>2, <1>3, <1>4, <1>5, <1>6, <1>7, <1>8, <1>9, <1>10, <1>11
  DEF Next, acquire, release

\* Types and lock together, for the theorems below.
LEMMA Invariant == Spec => [](TypeOK /\ LockInv)
<1>1. Init => TypeOK /\ LockInv
  BY TypeInit, LockInit
<1>2. TypeOK /\ LockInv /\ [Next]_vars => (TypeOK /\ LockInv)'
  BY TypeStep, LockStep
<1> QED
  BY <1>1, <1>2, PTL DEF Spec

\* At most one process is between acquire and release, for any number of
\* processes that start, are refused, release and die.
THEOREM OneAtATime == Spec => []OneSigner
<1>1. LockInv => OneSigner
  BY DEF LockInv
<1> QED
  BY <1>1, Invariant, PTL

\* While a process holds the lock the file holds its pid.
THEOREM HolderIsNamed == Spec => []FileNamesHolder
<1>1. LockInv => FileNamesHolder
  BY DEF LockInv
<1> QED
  BY <1>1, Invariant, PTL

---------------------------------------------------------------------------
(* Refinement.                                                             *)

\* The holder the callers see is the one process in flocked.
LEMMA HolderValue ==
  ASSUME LockInv, flocked \subseteq Process
  PROVE  /\ flocked = {} => holder = NoOne
         /\ \A p \in flocked : flocked = {p} /\ holder = p
BY DEF LockInv, holder

\* Nobody holds the lock at first, in both.
LEMMA RefineInit == Init => Abstract!Init
BY DEF Init, Abstract!Init, holder

\* Taking the kernel's lock is Take, giving it up or dying with it is Give, and
\* every other step leaves the holder alone.
LEMMA RefineStep ==
  ASSUME TypeOK, LockInv, LockInv', TypeOK', [Next]_vars
  PROVE  [Abstract!Next]_holder
<1> USE ProcessAssumption
<1>1. CASE UNCHANGED flocked
  BY <1>1 DEF holder
<1>2. ASSUME NEW p \in Process, Flock(p) PROVE Abstract!Next
  <2>1. fd[p] = name /\ name # 0
    BY <1>2 DEF Flock, Move, TypeOK, LockInv
  <2>2. flocked = {} /\ flocked' = {p}
    BY <1>2, <2>1 DEF Flock, Free, TypeOK, LockInv
  <2>3. holder = NoOne /\ holder' = p
    BY <2>2 DEF holder
  <2> QED
    BY <2>3 DEF Abstract!Next, Abstract!Take
<1>3. ASSUME NEW p \in Process, flocked' = flocked \ {p}, flocked' # flocked
      PROVE  Abstract!Next
  <2>1. flocked = {p} /\ flocked' = {}
    BY <1>3, HolderValue DEF TypeOK
  <2>2. holder = p /\ holder' = NoOne
    BY <2>1 DEF holder
  <2> QED
    BY <2>2 DEF Abstract!Next, Abstract!Give
<1>4. \/ UNCHANGED flocked
      \/ \E p \in Process : Flock(p) \/ flocked' = flocked \ {p}
  BY DEF Next, acquire, release, vars, Start, Open, Refuse, Truncate, WritePid,
         CompleteRun, Unlock, Close, Die
<1> QED
  BY <1>1, <1>2, <1>3, <1>4

\* The lock implements the promise of SingleSigner: the account passes from one
\* process to nobody and from nobody to one process, and in no other way.
THEOREM LockImplementsSingleSigner == Spec => ImplementsSingleSigner
<1>1. TypeOK /\ LockInv /\ (TypeOK /\ LockInv)' /\ [Next]_vars
        => [Abstract!Next]_holder
  BY RefineStep
<1> QED
  BY <1>1, RefineInit, Invariant, PTL
  DEF Spec, ImplementsSingleSigner, Abstract!Spec
=============================================================================
