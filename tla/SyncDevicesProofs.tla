------------------------- MODULE SyncDevicesProofs -------------------------
(***************************************************************************)
(* Theorems about SyncDevices, for any number of syncs, refreshes and      *)
(* devices, any confirm modes and any number of restarts.                  *)
(***************************************************************************)
EXTENDS SyncDevices, TLAPS

(***************************************************************************)
(* The variables keep their types.                                         *)
(***************************************************************************)
LEMMA EndTypes ==
  ASSUME TypeOK, NEW j \in Jobs, NEW s \in JobStatus, End(j, s)
  PROVE  pc' \in [Jobs -> JobState] /\ row' \in [Jobs -> JobStatus]
  BY DEF TypeOK, End, JobState

LEMMA TypeStep == TypeOK /\ [Next]_vars => TypeOK'
<1> SUFFICES ASSUME TypeOK, [Next]_vars PROVE TypeOK'
  OBVIOUS
<1> USE SyncDevicesAssumption
    DEF TypeOK, syncVars, confirmVars, worldVars, Jobs, Goto, End, EndConfirm, Released,
        StatusAfterRelease, JobState, JobStatus
<1>1. ASSUME NEW j \in Syncs, SyncStart(j) \/ HashCheck(j)
      PROVE  TypeOK'
  BY <1>1 DEF SyncStart, HashCheck
<1>2. ASSUME NEW j \in Syncs, AcquireQuery(j) \/ AcquireInsert(j)
      PROVE  TypeOK'
  BY <1>2 DEF AcquireQuery, AcquireInsert
<1>3. ASSUME NEW j \in Syncs, NEW d \in Devices, Push(j, d)
      PROVE  TypeOK'
  BY <1>3 DEF Push, Outcome
<1>4. ASSUME NEW j \in Syncs, PushRaises(j) \/ PushDone(j)
      PROVE  TypeOK'
  BY <1>4 DEF PushRaises, PushDone
<1>5. ASSUME NEW j \in Syncs, Mark(j)
      PROVE  TypeOK'
  <2>a. lock' \in {lock, NoJob}
    BY <1>5 DEF Mark
  <2>b. pc' \in [Jobs -> JobState]
    BY <1>5 DEF Mark
  <2>c. row' \in [Jobs -> JobStatus]
    BY <1>5 DEF Mark
  <2>1. /\ lock' \in {lock, NoJob}
        /\ pc' \in [Jobs -> JobState] /\ row' \in [Jobs -> JobStatus]
    BY <2>a, <2>b, <2>c
  <2>2. cpc' \in [Syncs -> ConfirmState] /\ crow' \in [Syncs -> JobStatus]
    BY <1>5 DEF Mark, ConfirmState
  <2>3. QED BY <1>5, <2>1, <2>2 DEF Mark
<1>6. ASSUME NEW j \in Syncs, Rollback(j) \/ WaitDone(j) \/ WaitTimeout(j)
      PROVE  TypeOK'
  <2>1. CASE Rollback(j)
    <3>1. lock' \in {lock, NoJob}
      BY <2>1 DEF Rollback
    <3>2. \E s \in {"FINISHED", "EXCEPTION"} : End(j, s)
      BY <2>1 DEF Rollback
    <3>3. pc' \in [Jobs -> JobState] /\ row' \in [Jobs -> JobStatus]
      BY <3>2, EndTypes
    <3>4. QED BY <2>1, <3>1, <3>3 DEF Rollback
  <2>2. CASE WaitDone(j) \/ WaitTimeout(j)
    <3>1. \E s \in {"FINISHED", "EXCEPTION"} : End(j, s)
      BY <2>2 DEF WaitDone, WaitTimeout
    <3>2. pc' \in [Jobs -> JobState] /\ row' \in [Jobs -> JobStatus]
      BY <3>1, EndTypes
    <3>3. QED BY <2>2, <3>2 DEF WaitDone, WaitTimeout
  <2>3. QED BY <1>6, <2>1, <2>2
<1>7. ASSUME NEW j \in Syncs, ConfirmStart(j)
      PROVE  TypeOK'
  BY <1>7 DEF ConfirmStart, ConfirmState, Outcome
<1>8. ASSUME NEW j \in Syncs, NEW d \in Devices, ConfirmDevice(j, d)
      PROVE  TypeOK'
  <2>1. PICK o \in {"confirmed", "unconfirmed"} : out' = [out EXCEPT ![j][d] = o]
    BY <1>8 DEF ConfirmDevice
  <2>a. out' \in [Syncs -> [Devices -> Outcome]]
    BY <2>1 DEF Outcome
  <2>2. pending' \in [Devices -> Syncs \cup {NoJob}]
    BY <1>8 DEF ConfirmDevice
  <2>3. QED BY <1>8, <2>a, <2>2 DEF ConfirmDevice
<1>9. ASSUME NEW j \in Syncs, \/ ConfirmMisfires(j) \/ ConfirmAborted(j)
                              \/ ConfirmRaises(j) \/ ConfirmMark(j)
      PROVE  TypeOK'
  BY <1>9 DEF ConfirmMisfires, ConfirmAborted, ConfirmRaises, ConfirmMark, ConfirmState
<1>10. ASSUME NEW r \in Refreshes, RefreshQuery(r) \/ RefreshStep(r)
       PROVE  TypeOK'
  <2>1. CASE RefreshQuery(r)
    BY <2>1 DEF RefreshQuery
  <2>2. CASE RefreshInsert(r)
    <3>1. lock' \in Jobs \cup {NoJob}
      BY <2>2 DEF RefreshInsert
    <3>2. row' \in [Jobs -> JobStatus]
      BY <2>2 DEF RefreshInsert
    <3>3. pc' \in [Jobs -> JobState]
      BY <2>2 DEF RefreshInsert
    <3>4. QED BY <2>2, <3>1, <3>2, <3>3 DEF RefreshInsert
  <2>3. CASE RefreshOk(r)
    BY <2>3 DEF RefreshOk
  <2>4. CASE RefreshFails(r)
    BY <2>4 DEF RefreshFails
  <2>5. QED BY <1>10, <2>1, <2>2, <2>3, <2>4 DEF RefreshStep
<1>11. ASSUME NEW d \in Devices, RevertTimer(d) \/ DeleteDevice(d)
       PROVE  TypeOK'
  BY <1>11 DEF RevertTimer, DeleteDevice
<1>12. CASE UnlockApi
  BY <1>12 DEF UnlockApi
<1>13. CASE Processes
  <2>1. CASE ApiWorkerStarts
    BY <2>1 DEF ApiWorkerStarts
  <2>2. CASE MuleRestarts
    BY <2>2 DEF MuleRestarts, ConfirmState
  <2>3. CASE MuleClearsLocks
    BY <2>3 DEF MuleClearsLocks
  <2>4. QED BY <1>13, <2>1, <2>2, <2>3 DEF Processes
<1>14. CASE UNCHANGED vars
  BY <1>14 DEF vars
<1>15. QED BY <1>1, <1>2, <1>3, <1>4, <1>5, <1>6, <1>7, <1>8, <1>9, <1>10, <1>11, <1>12,
              <1>13, <1>14
           DEF Next, SyncStep, ConfirmStep, Operator

\* Every variable of the lock's clients keeps its type.
THEOREM TypeCorrect == Spec => []TypeOK
<1>1. Init => TypeOK
  BY SyncDevicesAssumption DEF Init, TypeOK, Jobs, JobState, JobStatus, ConfirmState, Outcome
<1>2. QED BY <1>1, TypeStep, PTL DEF Spec

(***************************************************************************)
(* Whoever is at work has the lock. This alone is not inductive: a waiting *)
(* sync must not be taken for a finished one, by its own thread or by an   *)
(* operator, and its confirm job must not outlive it unseen (WorkIsShown). *)
(***************************************************************************)
LockInv == WorkIsShown /\ OwnerHolds

LEMMA LockTypes ==
  ASSUME TypeOK
  PROVE  /\ pc \in [Jobs -> JobState] /\ row \in [Jobs -> JobStatus]
         /\ cpc \in [Syncs -> ConfirmState] /\ crow \in [Syncs -> JobStatus]
         /\ restarts \in Nat
  BY SyncDevicesAssumption DEF TypeOK

LEMMA SyncStepKeeps ==
  ASSUME TypeOK, LockInv, restarts = 0, NEW j \in Syncs,
         \/ SyncStart(j) \/ HashCheck(j) \/ AcquireQuery(j) \/ AcquireInsert(j)
         \/ (\E d \in Devices : Push(j, d)) \/ PushRaises(j) \/ PushDone(j)
         \/ Mark(j) \/ Rollback(j) \/ WaitDone(j) \/ WaitTimeout(j)
  PROVE  LockInv'
<1> USE SyncDevicesAssumption, LockTypes
    DEF LockInv, WorkIsShown, OwnerHolds, Configuring, syncVars, confirmVars, worldVars,
        Jobs, Goto, End
<1>1. CASE SyncStart(j)
  BY <1>1 DEF SyncStart
<1>2. CASE HashCheck(j)
  BY <1>2 DEF HashCheck
<1>3. CASE AcquireQuery(j)
  BY <1>3 DEF AcquireQuery
<1>4. CASE AcquireInsert(j)
  BY <1>4 DEF AcquireInsert
<1>5. CASE \E d \in Devices : Push(j, d)
  BY <1>5 DEF Push
<1>6. CASE PushRaises(j)
  BY <1>6 DEF PushRaises, Released
<1>7. CASE PushDone(j)
  BY <1>7 DEF PushDone
<1>8. CASE Mark(j)
  <2>1. CASE UNCHANGED <<lock, confirmVars>> /\ (End(j, "EXCEPTION") \/ (Goto(j, "rollback") /\ UNCHANGED row))
    BY <1>8, <2>1 DEF Mark
  <2>2. CASE lock' = Released(j) /\ End(j, StatusAfterRelease(j)) /\ UNCHANGED confirmVars
    BY <1>8, <2>2 DEF Mark, Released
  <2>3. CASE /\ Goto(j, "wait") /\ UNCHANGED <<lock, row>>
             /\ cpc' = [cpc EXCEPT ![j] = "scheduled"]
             /\ crow' = [crow EXCEPT ![j] = "SCHEDULED"]
    BY <1>8, <2>3 DEF Mark
  <2>4. QED BY <1>8, <2>1, <2>2, <2>3 DEF Mark
<1>9. CASE Rollback(j)
  BY <1>9 DEF Rollback, Released
<1>10. CASE WaitDone(j)
  BY <1>10 DEF WaitDone
<1>11. CASE WaitTimeout(j)
  BY <1>11 DEF WaitTimeout
<1>12. QED BY <1>1, <1>2, <1>3, <1>4, <1>5, <1>6, <1>7, <1>8, <1>9, <1>10, <1>11

LEMMA ConfirmStepKeeps ==
  ASSUME TypeOK, LockInv, restarts = 0, NEW j \in Syncs, ConfirmStep(j) \/ ConfirmAborted(j)
  PROVE  LockInv'
<1> USE SyncDevicesAssumption, LockTypes
    DEF LockInv, WorkIsShown, OwnerHolds, Configuring, syncVars, confirmVars, worldVars,
        Jobs, EndConfirm
<1>1. CASE ConfirmStart(j)
  BY <1>1 DEF ConfirmStart
<1>2. CASE ConfirmMisfires(j)
  BY <1>2 DEF ConfirmMisfires
<1>3. CASE ConfirmAborted(j)
  BY <1>3 DEF ConfirmAborted
<1>4. CASE \E d \in Devices : ConfirmDevice(j, d)
  BY <1>4 DEF ConfirmDevice
<1>5. CASE ConfirmRaises(j)
  BY <1>5 DEF ConfirmRaises, Released
<1>6. CASE ConfirmMark(j)
  BY <1>6 DEF ConfirmMark, Released
<1>7. QED BY <1>1, <1>2, <1>3, <1>4, <1>5, <1>6 DEF ConfirmStep

LEMMA RefreshStepKeeps ==
  ASSUME TypeOK, LockInv, restarts = 0, NEW r \in Refreshes, RefreshQuery(r) \/ RefreshStep(r)
  PROVE  LockInv'
<1> USE SyncDevicesAssumption, LockTypes
    DEF LockInv, WorkIsShown, OwnerHolds, Configuring, syncVars, confirmVars, worldVars,
        Jobs, Goto, End
<1>1. CASE RefreshQuery(r)
  BY <1>1 DEF RefreshQuery
<1>2. CASE RefreshInsert(r)
  BY <1>2 DEF RefreshInsert
<1>3. CASE RefreshOk(r) \/ RefreshFails(r)
  BY <1>3 DEF RefreshOk, RefreshFails, Released
<1>4. QED BY <1>1, <1>2, <1>3 DEF RefreshStep

\* An operator finds no job RUNNING only when nobody is at work.
LEMMA NobodyAtWork ==
  ASSUME LockInv, restarts = 0, NoJobRunning
  PROVE  Configuring = {}
  BY DEF LockInv, WorkIsShown, NoJobRunning, Configuring, Jobs

LEMMA LockStep == TypeOK /\ TypeOK' /\ LockInv /\ [Next]_vars => LockInv'
<1> SUFFICES ASSUME TypeOK, TypeOK', LockInv, [Next]_vars PROVE LockInv'
  OBVIOUS
<1>1. CASE restarts = 0 /\ ~Processes
  <2>1. ASSUME NEW d \in Devices, RevertTimer(d) \/ DeleteDevice(d) PROVE LockInv'
    BY <2>1 DEF RevertTimer, DeleteDevice, LockInv, WorkIsShown, OwnerHolds, Configuring,
                syncVars, confirmVars, worldVars
  <2>2. CASE UnlockApi
    <3>1. Configuring = {}
      BY <1>1, <2>2, NobodyAtWork DEF UnlockApi
    <3>2. QED BY <2>2, <3>1 DEF UnlockApi, LockInv, WorkIsShown, OwnerHolds, Configuring,
                                syncVars, confirmVars, worldVars
  <2>3. CASE UNCHANGED vars
    BY <2>3 DEF vars, LockInv, WorkIsShown, OwnerHolds, Configuring, syncVars, confirmVars,
                worldVars
  <2>4. QED BY <1>1, <2>1, <2>2, <2>3, SyncStepKeeps, ConfirmStepKeeps, RefreshStepKeeps
            DEF Next, SyncStep, Operator
<1>2. CASE restarts = 0 /\ Processes
  <2>1. restarts' > 0 \/ MuleClearsLocks
    BY <1>2, LockTypes DEF Processes, ApiWorkerStarts, MuleRestarts
  <2>2. ~MuleClearsLocks
    BY <1>2, LockTypes DEF MuleClearsLocks, LockInv, WorkIsShown
  <2>3. restarts' # 0
    BY <2>1, <2>2, LockTypes
  <2>4. QED BY <2>1, <2>2, <2>3 DEF LockInv, WorkIsShown, OwnerHolds
<1>3. CASE restarts # 0
  <2>1. restarts' = restarts \/ restarts' = restarts + 1
    BY DEF Next, SyncStep, ConfirmStep, RefreshStep, Operator, Processes, vars, worldVars,
           SyncStart, HashCheck, AcquireQuery, AcquireInsert, Push, PushRaises, PushDone, Mark,
           Rollback, WaitDone, WaitTimeout, ConfirmStart, ConfirmMisfires, ConfirmAborted,
           ConfirmDevice, ConfirmRaises, ConfirmMark, RefreshQuery, RefreshInsert, RefreshOk,
           RefreshFails, RevertTimer, DeleteDevice, UnlockApi, ApiWorkerStarts, MuleRestarts,
           MuleClearsLocks
  <2>2. restarts' # 0 /\ restarts' > 0
    BY <1>3, <2>1, LockTypes
  <2>3. QED BY <2>2 DEF LockInv, WorkIsShown, OwnerHolds
<1>4. QED BY <1>1, <1>2, <1>3

LEMMA LockAlways == Spec => []LockInv
<1>1. Init => LockInv
  BY DEF Init, LockInv, WorkIsShown, OwnerHolds, Configuring, Jobs
<1>2. QED BY <1>1, LockStep, TypeCorrect, PTL DEF Spec

\* Whoever is at work on the devices or the repositories has the lock, as long
\* as no process starts, whatever operators clear after a look at the job list.
THEOREM OwnerAlwaysHolds == Spec => []OwnerHolds
<1>1. LockInv => OwnerHolds
  BY DEF LockInv
<1>2. QED BY <1>1, LockAlways, PTL

\* No two jobs are at work together as long as no process starts.
THEOREM OneAtWork == Spec => [](restarts = 0 => \A j, k \in Configuring : j = k)
<1>1. OwnerHolds => (restarts = 0 => \A j, k \in Configuring : j = k)
  BY DEF OwnerHolds
<1>2. QED BY <1>1, OwnerAlwaysHolds, PTL

\* The job list shows every sync and confirm job at work.
THEOREM WorkIsAlwaysShown == Spec => []WorkIsShown
<1>1. LockInv => WorkIsShown
  BY DEF LockInv
<1>2. QED BY <1>1, LockAlways, PTL

(***************************************************************************)
(* The lock implements DeviceMutex: every step moves at most one job into  *)
(* or out of Configuring, and in only when the lock is free.               *)
(***************************************************************************)
OneMoves(j) ==
  /\ restarts' = restarts
  /\ \A k \in Jobs : k # j => (k \in Configuring' <=> k \in Configuring)
  /\ j \in Configuring' /\ j \notin Configuring => lock = NoJob

MutexStep == [Mutex!Next]_<<Configuring, restarts > 0>>

LEMMA MoveRefines ==
  ASSUME TypeOK, OwnerHolds, NEW j \in Jobs, OneMoves(j)
  PROVE  MutexStep
<1>1. Configuring \subseteq Jobs /\ Configuring' \subseteq Jobs
  BY DEF Configuring, Jobs
<1>2. (restarts > 0)' = (restarts > 0)
  BY DEF OneMoves
<1>3. CASE j \in Configuring' /\ j \notin Configuring
  <2>1. Configuring' = Configuring \cup {j}
    BY <1>1, <1>3 DEF OneMoves
  <2>2. lock = NoJob
    BY <1>3 DEF OneMoves
  <2>3. restarts = 0 => Configuring = {}
    BY <2>2, <1>1, SyncDevicesAssumption DEF OwnerHolds, Jobs
  <2>4. Configuring = {} \/ restarts > 0
    BY <2>3, LockTypes
  <2>5. Mutex!Enter(j)
    BY <1>2, <1>3, <2>1, <2>4 DEF Mutex!Enter
  <2>6. QED BY <2>5 DEF MutexStep, Mutex!Next
<1>4. CASE j \in Configuring /\ j \notin Configuring'
  <2>1. Configuring' = Configuring \ {j}
    BY <1>1, <1>4 DEF OneMoves
  <2>2. Mutex!Leave(j)
    BY <1>2, <1>4, <2>1 DEF Mutex!Leave
  <2>3. QED BY <2>2 DEF MutexStep, Mutex!Next
<1>5. CASE j \in Configuring <=> j \in Configuring'
  <2>1. Configuring' = Configuring
    BY <1>1, <1>5 DEF OneMoves
  <2>2. QED BY <1>2, <2>1 DEF MutexStep
<1>6. QED BY <1>3, <1>4, <1>5

LEMMA SyncMoves ==
  ASSUME TypeOK, NEW j \in Syncs, SyncStart(j) \/ SyncStep(j)
  PROVE  OneMoves(j)
<1> USE SyncDevicesAssumption, LockTypes
    DEF OneMoves, Configuring, syncVars, confirmVars, worldVars, Jobs, Goto, End
<1>1. CASE SyncStart(j)
  BY <1>1 DEF SyncStart
<1>2. CASE HashCheck(j)
  BY <1>2 DEF HashCheck
<1>3. CASE AcquireQuery(j)
  BY <1>3 DEF AcquireQuery
<1>4. CASE AcquireInsert(j)
  BY <1>4 DEF AcquireInsert
<1>5. CASE \E d \in Devices : Push(j, d)
  BY <1>5 DEF Push
<1>6. CASE PushRaises(j)
  BY <1>6 DEF PushRaises
<1>7. CASE PushDone(j)
  BY <1>7 DEF PushDone
<1>8. CASE Mark(j)
  BY <1>8 DEF Mark
<1>9. CASE Rollback(j)
  BY <1>9 DEF Rollback
<1>10. CASE WaitDone(j)
  BY <1>10 DEF WaitDone
<1>11. CASE WaitTimeout(j)
  BY <1>11 DEF WaitTimeout
<1>12. QED BY <1>1, <1>2, <1>3, <1>4, <1>5, <1>6, <1>7, <1>8, <1>9, <1>10, <1>11 DEF SyncStep

LEMMA ConfirmMoves ==
  ASSUME TypeOK, NEW j \in Syncs, ConfirmStep(j) \/ ConfirmAborted(j)
  PROVE  OneMoves(j)
<1> USE SyncDevicesAssumption, LockTypes
    DEF OneMoves, Configuring, syncVars, confirmVars, worldVars, Jobs, EndConfirm
<1>1. CASE ConfirmStart(j)
  BY <1>1 DEF ConfirmStart
<1>2. CASE ConfirmMisfires(j) \/ ConfirmAborted(j)
  BY <1>2 DEF ConfirmMisfires, ConfirmAborted
<1>3. CASE \E d \in Devices : ConfirmDevice(j, d)
  BY <1>3 DEF ConfirmDevice
<1>4. CASE ConfirmRaises(j)
  BY <1>4 DEF ConfirmRaises
<1>5. CASE ConfirmMark(j)
  BY <1>5 DEF ConfirmMark
<1>6. QED BY <1>1, <1>2, <1>3, <1>4, <1>5 DEF ConfirmStep

LEMMA RefreshMoves ==
  ASSUME TypeOK, NEW r \in Refreshes, RefreshQuery(r) \/ RefreshStep(r)
  PROVE  OneMoves(r)
  BY SyncDevicesAssumption, LockTypes
  DEF OneMoves, Configuring, confirmVars, worldVars, Jobs, Goto, End, RefreshQuery, RefreshStep,
      RefreshInsert, RefreshOk, RefreshFails

LEMMA MutexRefined == TypeOK /\ OwnerHolds /\ [Next]_vars => MutexStep
<1> SUFFICES ASSUME TypeOK, OwnerHolds, [Next]_vars PROVE MutexStep
  OBVIOUS
<1>1. ASSUME UNCHANGED <<pc, cpc, restarts>> PROVE MutexStep
  BY <1>1 DEF MutexStep, Configuring
<1>2. CASE \E d \in Devices : RevertTimer(d) \/ DeleteDevice(d)
  BY <1>1, <1>2 DEF RevertTimer, DeleteDevice, syncVars, confirmVars, worldVars
<1>3. CASE UnlockApi \/ MuleClearsLocks
  BY <1>1, <1>3 DEF UnlockApi, MuleClearsLocks, syncVars, confirmVars, worldVars
<1>4. CASE ApiWorkerStarts \/ MuleRestarts
  <2>1. restarts' > 0
    BY <1>4, LockTypes DEF ApiWorkerStarts, MuleRestarts
  <2>2. Configuring' \subseteq Configuring
    <3>1. CASE ApiWorkerStarts
      BY <3>1, LockTypes DEF ApiWorkerStarts, Configuring, Jobs
    <3>2. CASE MuleRestarts
      BY <3>2, LockTypes, SyncDevicesAssumption DEF MuleRestarts, Configuring, Jobs
    <3>3. QED BY <1>4, <3>1, <3>2
  <2>3. Mutex!Clear
    BY <2>1, <2>2 DEF Mutex!Clear
  <2>4. QED BY <2>3 DEF MutexStep, Mutex!Next
<1>5. CASE UNCHANGED vars
  BY <1>1, <1>5 DEF vars, syncVars, confirmVars, worldVars
<1>6. CASE \E j \in Syncs : SyncStart(j) \/ SyncStep(j) \/ ConfirmStep(j) \/ ConfirmAborted(j)
  BY <1>6, SyncMoves, ConfirmMoves, MoveRefines DEF Jobs
<1>7. CASE \E r \in Refreshes : RefreshQuery(r) \/ RefreshStep(r)
  BY <1>7, RefreshMoves, MoveRefines DEF Jobs
<1>8. QED BY <1>2, <1>3, <1>4, <1>5, <1>6, <1>7 DEF Next, Operator, Processes

\* The jobs that take the lock implement the mutual exclusion of DeviceMutex:
\* one at work at a time until a process that starts clears the locks.
THEOREM LockImplementsMutex == Spec => MutualExclusion
<1>1. Init => Mutex!Init
  BY DEF Init, Mutex!Init, Configuring, Jobs
<1>2. QED BY <1>1, MutexRefined, TypeCorrect, OwnerAlwaysHolds, PTL
          DEF Spec, MutualExclusion, Mutex!Spec, MutexStep
(***************************************************************************)
(* What a job leaves behind: its lock, and timers on devices. Until a      *)
(* process starts or a device is deleted, a lock outlives the work of its  *)
(* job only with a confirm job that was lost, and a timer that of its lock *)
(* only with a confirm job that failed or was lost. TimerKnown says which  *)
(* results a device with a running timer has, so that a job that gives up  *)
(* its lock without waiting has no timer to wait for.                      *)
(***************************************************************************)
Quiet == restarts = 0 /\ deleted = {}

TimerKnown ==
  \A d \in Devices, j \in Syncs : pending[d] = j =>
    \/ out[j][d] = "failed" /\ mode[j] # 0
    \/ out[j][d] = "changed" /\ mode[j] = 2
    \/ cpc[j] \notin {"none", "scheduled"}

Left(j) == j \in Syncs /\ cpc[j] = "lost"
LeftInv ==
  Quiet => /\ \A j \in Jobs : lock = j => j \in Configuring \/ Left(j)
           /\ TimerKnown
           /\ \A d \in Devices, j \in Syncs : pending[d] = j => lock = j \/ cpc[j] \in {"ended", "lost"}

LEMMA QuietBefore ==
  ASSUME TypeOK, Next, Quiet'
  PROVE  Quiet /\ ~ApiWorkerStarts /\ ~MuleRestarts
<1>1. restarts' = restarts \/ restarts' = restarts + 1
  BY DEF Next, SyncStep, ConfirmStep, RefreshStep, Operator, Processes, vars, worldVars,
         SyncStart, HashCheck, AcquireQuery, AcquireInsert, Push, PushRaises, PushDone, Mark,
         Rollback, WaitDone, WaitTimeout, ConfirmStart, ConfirmMisfires, ConfirmAborted,
         ConfirmDevice, ConfirmRaises, ConfirmMark, RefreshQuery, RefreshInsert, RefreshOk,
         RefreshFails, RevertTimer, DeleteDevice, UnlockApi, ApiWorkerStarts, MuleRestarts,
         MuleClearsLocks
<1>2. deleted \subseteq deleted'
  BY DEF Next, SyncStep, ConfirmStep, RefreshStep, Operator, Processes, vars, worldVars,
         SyncStart, HashCheck, AcquireQuery, AcquireInsert, Push, PushRaises, PushDone, Mark,
         Rollback, WaitDone, WaitTimeout, ConfirmStart, ConfirmMisfires, ConfirmAborted,
         ConfirmDevice, ConfirmRaises, ConfirmMark, RefreshQuery, RefreshInsert, RefreshOk,
         RefreshFails, RevertTimer, DeleteDevice, UnlockApi, ApiWorkerStarts, MuleRestarts,
         MuleClearsLocks
<1>3. Quiet
  BY <1>1, <1>2, LockTypes DEF Quiet
<1>4. ~ApiWorkerStarts /\ ~MuleRestarts
  BY <1>3, LockTypes DEF Quiet, ApiWorkerStarts, MuleRestarts
<1>5. QED BY <1>3, <1>4

\* Where a job's locks and timers are at risk: it releases its lock, its confirm job
\* comes to an end, or a timer starts. Other steps change none of it.
LEMMA LeftUnchanged ==
  ASSUME LeftInv, Quiet, UNCHANGED <<lock, out, mode, cpc, pending>>,
         Configuring \subseteq Configuring'
  PROVE  LeftInv'
  BY DEF LeftInv, TimerKnown, Left

LEMMA LeftTypes ==
  ASSUME TypeOK
  PROVE  /\ out \in [Syncs -> [Devices -> Outcome]] /\ pending \in [Devices -> Syncs \cup {NoJob}]
         /\ mode \in [Syncs -> Modes] /\ cpc \in [Syncs -> ConfirmState] /\ pc \in [Jobs -> JobState]
         /\ lock \in Jobs \cup {NoJob}
  BY DEF TypeOK

LEMMA PushLeaves ==
  ASSUME TypeOK, LockInv, LeftInv, Quiet, NEW j \in Syncs, NEW d \in Devices, Push(j, d)
  PROVE  LeftInv'
<1>1. pc[j] = "push" /\ UNCHANGED <<lock, pc, mode, cpc>> /\ out[j][d] = "todo"
  BY DEF Push, confirmVars
<1>2. lock = j /\ cpc[j] = "none"
  BY <1>1, LeftTypes DEF LockInv, OwnerHolds, WorkIsShown, Configuring, Quiet
<1>3. PICK o \in {"unchanged", "failed", "changed"}, t \in {j, NoJob, pending[d]} :
        /\ out' = [out EXCEPT ![j][d] = o] /\ pending' = [pending EXCEPT ![d] = t]
        /\ o = "unchanged" => t = pending[d]
        /\ o = "changed" => t = IF HoldsAtOnce(j, d) THEN NoJob ELSE j
        /\ o = "failed" => t = pending[d] \/ (t = j /\ mode[j] # 0) \/ t = NoJob
  BY DEF Push
<1>4. pending[d] # j
  BY <1>1, <1>2 DEF LeftInv, TimerKnown
<1>5. ASSUME NEW e \in Devices, NEW k \in Syncs, pending'[e] = k
      PROVE  /\ (e = d /\ k = j) \/ pending[e] = k
             /\ (e # d \/ k # j) => out'[k][e] = out[k][e]
  BY <1>3, <1>5, LeftTypes, SyncDevicesAssumption DEF Jobs
<1>6. pending'[d] = j => (out'[j][d] = "failed" /\ mode[j] # 0) \/ (out'[j][d] = "changed" /\ mode[j] = 2)
  BY <1>3, <1>4, LeftTypes, SyncDevicesAssumption DEF HoldsAtOnce, Jobs
<1>7. TimerKnown'
  <2>1. ASSUME NEW e \in Devices, NEW k \in Syncs, pending'[e] = k
        PROVE  \/ out'[k][e] = "failed" /\ mode'[k] # 0
               \/ out'[k][e] = "changed" /\ mode'[k] = 2
               \/ cpc'[k] \notin {"none", "scheduled"}
    <3>1. CASE e = d /\ k = j
      BY <1>1, <1>6, <2>1, <3>1
    <3>2. CASE ~(e = d /\ k = j)
      BY <1>1, <1>5, <2>1, <3>2 DEF LeftInv, TimerKnown
    <3>3. QED BY <3>1, <3>2
  <2>2. QED BY <2>1 DEF TimerKnown
<1>8. Configuring' = Configuring
  BY <1>1 DEF Configuring
<1>9. QED BY <1>1, <1>2, <1>5, <1>7, <1>8 DEF LeftInv, Left

\* A sync gives up its lock, or ends without one: no timer of its own runs any more.
LEMMA ReleaseLeaves ==
  ASSUME TypeOK, LockInv, LeftInv, Quiet, NEW j \in Syncs, lock' = Released(j),
         UNCHANGED <<out, mode, cpc, pending>>, \A i \in Jobs \ {j} : pc'[i] = pc[i],
         \A d \in Devices : pending[d] # j
  PROVE  LeftInv'
<1>1. ASSUME NEW i \in Jobs, lock' = i
      PROVE  lock = i /\ i # j
  BY <1>1, SyncDevicesAssumption DEF Released, Jobs
<1>2. \A i \in Jobs : i # j => (i \in Configuring <=> i \in Configuring')
  BY DEF Configuring, Jobs
<1>3. \A i \in Syncs : i # j => (lock = i => lock' = i)
  BY DEF Released
<1>4. QED BY <1>1, <1>2, <1>3 DEF LeftInv, TimerKnown, Left

LEMMA SyncLeaves ==
  ASSUME TypeOK, LockInv, LeftInv, Quiet, NEW j \in Syncs, SyncStart(j) \/ SyncStep(j)
  PROVE  LeftInv'
<1> USE SyncDevicesAssumption, LeftTypes
<1>a. ASSUME pc[j] \in {"push", "mark", "rollback"}
      PROVE  lock = j /\ cpc[j] = "none"
  BY <1>a DEF LockInv, OwnerHolds, WorkIsShown, Configuring, Quiet
<1>1. CASE SyncStart(j) \/ HashCheck(j) \/ AcquireQuery(j) \/ PushDone(j) \/ WaitDone(j) \/ WaitTimeout(j)
  <2>1. UNCHANGED <<lock, out, mode, cpc, pending>>
    BY <1>1 DEF SyncStart, HashCheck, AcquireQuery, PushDone, WaitDone, WaitTimeout, confirmVars
  <2>2. Configuring \subseteq Configuring'
    BY <1>1 DEF SyncStart, HashCheck, AcquireQuery, PushDone, WaitDone, WaitTimeout, confirmVars,
                Configuring, Goto, End, Jobs
  <2>3. QED BY <2>1, <2>2, LeftUnchanged
<1>2. CASE AcquireInsert(j)
  <2>1. UNCHANGED <<out, mode, cpc, pending>>
    BY <1>2 DEF AcquireInsert, confirmVars
  <2>2. CASE lock = NoJob /\ lock' = j /\ Goto(j, "push")
    <3>1. Configuring' = Configuring \cup {j}
      BY <1>2, <2>1, <2>2 DEF Configuring, Goto, Jobs
    <3>2. QED BY <2>1, <2>2, <3>1 DEF LeftInv, TimerKnown, Left, Jobs
  <2>3. CASE End(j, "EXCEPTION") /\ UNCHANGED lock
    <3>1. Configuring \subseteq Configuring'
      BY <1>2, <2>1, <2>3 DEF AcquireInsert, Configuring, End, Jobs
    <3>2. QED BY <2>1, <2>3, <3>1, LeftUnchanged
  <2>4. QED BY <1>2, <2>2, <2>3 DEF AcquireInsert
<1>3. CASE \E d \in Devices : Push(j, d)
  BY <1>3, PushLeaves
<1>4. CASE PushRaises(j)
  <2>1. /\ lock' = Released(j) /\ UNCHANGED <<out, mode, cpc, pending>> /\ End(j, "FINISHED") /\ pc[j] = "push"
        /\ \A d \in Devices : out[j][d] = "todo"
    BY <1>4 DEF PushRaises, Results, confirmVars
  <2>2. \A d \in Devices : pending[d] # j
    BY <1>a, <2>1 DEF LeftInv, TimerKnown
  <2>3. \A i \in Jobs \ {j} : pc'[i] = pc[i]
    BY <2>1 DEF End
  <2>4. QED BY <2>1, <2>2, <2>3, ReleaseLeaves
<1>5. CASE Mark(j)
  <2>1. pc[j] = "mark" /\ UNCHANGED <<out, mode, pending>> /\ cpc[j] = "none" /\ lock = j
    BY <1>5, <1>a DEF Mark
  <2>2. CASE Goto(j, "rollback") /\ UNCHANGED <<lock, confirmVars>>
    <3>1. Configuring \subseteq Configuring'
      BY <2>1, <2>2 DEF Configuring, Goto, Jobs, confirmVars
    <3>2. QED BY <2>1, <2>2, <3>1, LeftUnchanged DEF confirmVars
  <2>3. CASE /\ ~MustRollBack(j) /\ (mode[j] = 2 => Results(j, {"changed"}) = {})
             /\ lock' = Released(j) /\ End(j, StatusAfterRelease(j)) /\ UNCHANGED confirmVars
    <3>1. ASSUME NEW d \in Devices, pending[d] = j
          PROVE  FALSE
      <4>1. (out[j][d] = "failed" /\ mode[j] # 0) \/ (out[j][d] = "changed" /\ mode[j] = 2)
        BY <2>1, <3>1 DEF LeftInv, TimerKnown
      <4>2. QED BY <2>3, <4>1 DEF MustRollBack, Results
    <3>2. \A i \in Jobs \ {j} : pc'[i] = pc[i]
      BY <2>3 DEF End
    <3>3. QED BY <2>1, <2>3, <3>1, <3>2, ReleaseLeaves DEF confirmVars
  <2>4. CASE Goto(j, "wait") /\ cpc' = [cpc EXCEPT ![j] = "scheduled"] /\ UNCHANGED lock
    <3>1. \A i \in Jobs : i \in Configuring' <=> i \in Configuring
      BY <2>1, <2>4 DEF Configuring, Goto, Jobs
    <3>2. \A i \in Syncs : i # j => cpc'[i] = cpc[i]
      BY <2>4
    <3>3. cpc'[j] = "scheduled"
      BY <2>4
    <3>4. QED BY <2>1, <2>4, <3>1, <3>2, <3>3 DEF LeftInv, TimerKnown, Left
  <2>5. Marked(j) \cap deleted = {}
    BY DEF Quiet
  <2>6. QED BY <1>5, <2>2, <2>3, <2>4, <2>5 DEF Mark
<1>6. CASE Rollback(j)
  <2>1. /\ lock' = Released(j) /\ End(j, StatusAfterRelease(j)) /\ UNCHANGED <<out, mode, cpc, pending>>
        /\ \A d \in Devices : pending[d] # j
    BY <1>6 DEF Rollback, Quiet, confirmVars
  <2>2. \A i \in Jobs \ {j} : pc'[i] = pc[i]
    BY <2>1 DEF End
  <2>3. QED BY <2>1, <2>2, ReleaseLeaves
<1>7. QED BY <1>1, <1>2, <1>3, <1>4, <1>5, <1>6 DEF SyncStep

LEMMA ConfirmLeaves ==
  ASSUME TypeOK, LockInv, LeftInv, Quiet, NEW j \in Syncs, ConfirmStep(j) \/ ConfirmAborted(j)
  PROVE  LeftInv'
<1> USE SyncDevicesAssumption, LeftTypes
<1>1. CASE ConfirmStart(j)
  <2>1. UNCHANGED <<lock, mode, pending, pc>> /\ cpc' = [cpc EXCEPT ![j] = "confirm"] /\ cpc[j] = "scheduled"
    BY <1>1 DEF ConfirmStart
  <2>2. \A i \in Syncs \ {j} : out'[i] = out[i] /\ cpc'[i] = cpc[i]
    BY <1>1 DEF ConfirmStart
  <2>3. Configuring' = Configuring
    BY <2>1 DEF Configuring
  <2>4. cpc'[j] = "confirm"
    BY <2>1
  <2>5. QED BY <2>1, <2>2, <2>3, <2>4 DEF LeftInv, TimerKnown, Left
<1>2. CASE ConfirmMisfires(j) \/ ConfirmAborted(j)
  <2>1. UNCHANGED <<lock, mode, out, pending, pc>> /\ cpc' = [cpc EXCEPT ![j] = "lost"]
    BY <1>2 DEF ConfirmMisfires, ConfirmAborted, syncVars
  <2>2. \A i \in Jobs : i # j => (i \in Configuring' <=> i \in Configuring)
    BY <2>1 DEF Configuring, Jobs
  <2>3. cpc'[j] = "lost" /\ \A i \in Syncs : i # j => cpc'[i] = cpc[i]
    BY <2>1
  <2>4. QED BY <2>1, <2>2, <2>3 DEF LeftInv, TimerKnown, Left
<1>3. ASSUME NEW d \in Devices, ConfirmDevice(j, d)
      PROVE  LeftInv'
  <2>1. cpc[j] = "confirm" /\ UNCHANGED <<lock, mode, cpc, pc>>
    BY <1>3 DEF ConfirmDevice, confirmVars
  <2>2. \A e \in Devices : pending'[e] = pending[e] \/ pending'[e] = NoJob
    BY <1>3 DEF ConfirmDevice
  <2>3. \A i \in Syncs : i # j => out'[i] = out[i]
    BY <1>3 DEF ConfirmDevice
  <2>4. Configuring' = Configuring
    BY <2>1 DEF Configuring
  <2>5. \A e \in Devices, i \in Syncs : pending'[e] = i => pending[e] = i
    BY <2>2 DEF Jobs
  <2>6. QED BY <2>1, <2>3, <2>4, <2>5 DEF LeftInv, TimerKnown, Left
<1>4. CASE ConfirmRaises(j) \/ ConfirmMark(j)
  <2>1. /\ lock' = Released(j) /\ UNCHANGED <<out, mode, pending, pc>>
        /\ cpc' = [cpc EXCEPT ![j] = "ended"]
    BY <1>4 DEF ConfirmRaises, ConfirmMark, EndConfirm, syncVars, Quiet
  <2>2. \A i \in Jobs : i # j => (i \in Configuring' <=> i \in Configuring)
    BY <2>1 DEF Configuring, Jobs
  <2>3. cpc'[j] = "ended" /\ \A i \in Syncs : i # j => cpc'[i] = cpc[i]
    BY <2>1
  <2>4. \A i \in Jobs : (lock' = i => lock = i /\ i # j) /\ (i # j /\ lock = i => lock' = i)
    BY <2>1 DEF Released, Jobs
  <2>5. QED BY <2>1, <2>2, <2>3, <2>4 DEF LeftInv, TimerKnown, Left, Jobs
<1>5. QED BY <1>1, <1>2, <1>3, <1>4 DEF ConfirmStep

LEMMA RefreshLeaves ==
  ASSUME TypeOK, LockInv, LeftInv, Quiet, NEW r \in Refreshes, RefreshQuery(r) \/ RefreshStep(r)
  PROVE  LeftInv'
<1> USE SyncDevicesAssumption, LeftTypes
<1>1. UNCHANGED <<out, mode, cpc, pending>> /\ \A i \in Jobs : i # r => pc'[i] = pc[i]
  BY DEF RefreshQuery, RefreshStep, RefreshInsert, RefreshOk, RefreshFails, confirmVars, Goto, End
<1>2. \A i \in Jobs : i # r => (i \in Configuring' <=> i \in Configuring)
  BY <1>1 DEF Configuring, Jobs
<1>3. CASE RefreshQuery(r)
  <2>1. UNCHANGED lock /\ r \notin Configuring
    BY <1>3 DEF RefreshQuery, Configuring
  <2>2. QED BY <1>1, <1>2, <2>1, LeftUnchanged DEF Configuring, Jobs
<1>4. CASE RefreshInsert(r)
  <2>1. CASE lock = NoJob /\ lock' = r /\ Goto(r, "refresh")
    <3>1. r \in Configuring'
      BY <2>1 DEF Configuring, Goto, Jobs
    <3>2. QED BY <1>1, <1>2, <2>1, <3>1 DEF LeftInv, TimerKnown, Left, Jobs
  <2>2. CASE UNCHANGED lock
    <3>1. r \notin Configuring
      BY <1>4 DEF RefreshInsert, Configuring
    <3>2. QED BY <1>1, <1>2, <2>2, <3>1, LeftUnchanged DEF Configuring, Jobs
  <2>3. QED BY <1>4, <2>1, <2>2 DEF RefreshInsert
<1>5. CASE RefreshOk(r) \/ RefreshFails(r)
  <2>1. lock' = Released(r)
    BY <1>5 DEF RefreshOk, RefreshFails
  <2>2. \A i \in Jobs : (lock' = i => lock = i /\ i # r) /\ (i # r /\ lock = i => lock' = i)
    BY <2>1 DEF Released, Jobs
  <2>3. QED BY <1>1, <1>2, <2>2 DEF LeftInv, TimerKnown, Left, Jobs
<1>6. QED BY <1>3, <1>4, <1>5 DEF RefreshStep

LEMMA LeftStep == TypeOK /\ LockInv /\ LeftInv /\ [Next]_vars => LeftInv'
<1>1. ASSUME TypeOK, LockInv, LeftInv, Next, Quiet'
      PROVE  LeftInv'
  <2>1. Quiet /\ ~ApiWorkerStarts /\ ~MuleRestarts
    BY <1>1, QuietBefore
  <2>2. ~MuleClearsLocks
    BY <1>1, <2>1, LockTypes DEF MuleClearsLocks, LockInv, WorkIsShown, Quiet
  <2>3. CASE \E d \in Devices : RevertTimer(d)
    <3>1. PICK d \in Devices : RevertTimer(d)
      BY <2>3
    <3>2. UNCHANGED <<lock, out, mode, cpc, pc>> /\ pending' = [pending EXCEPT ![d] = NoJob]
      BY <3>1 DEF RevertTimer, syncVars, confirmVars
    <3>3. \A e \in Devices, i \in Syncs : pending'[e] = i => pending[e] = i
      BY <1>1, <3>2, LeftTypes, SyncDevicesAssumption
    <3>4. Configuring' = Configuring
      BY <3>2 DEF Configuring
    <3>5. QED BY <1>1, <2>1, <3>2, <3>3, <3>4 DEF LeftInv, TimerKnown, Left
  <2>4. CASE \E d \in Devices : DeleteDevice(d)
    BY <1>1, <2>4 DEF DeleteDevice, Quiet
  <2>5. CASE UnlockApi
    <3>1. UNCHANGED <<out, mode, cpc, pending, pc>> /\ lock' = NoJob
      BY <2>5 DEF UnlockApi, syncVars, confirmVars
    <3>2. Configuring = {}
      BY <1>1, <2>1, <2>5, NobodyAtWork DEF UnlockApi, Quiet
    <3>3. \A j \in Jobs : lock = j => Left(j)
      BY <1>1, <2>1, <3>2 DEF LeftInv
    <3>4. \A j \in Syncs : lock = j => cpc[j] = "lost"
      BY <3>3 DEF Left, Jobs
    <3>5. QED BY <1>1, <2>1, <3>1, <3>4, SyncDevicesAssumption DEF LeftInv, TimerKnown, Jobs
  <2>6. QED BY <1>1, <2>1, <2>2, <2>3, <2>4, <2>5, SyncLeaves, ConfirmLeaves, RefreshLeaves
            DEF Next, Operator, Processes
<1>2. ASSUME LeftInv, UNCHANGED vars
      PROVE  LeftInv'
  BY <1>2 DEF LeftInv, TimerKnown, Left, Quiet, Configuring, vars, syncVars, confirmVars, worldVars
<1>3. ~Quiet' => LeftInv'
  BY DEF LeftInv, Quiet
<1>4. QED BY <1>1, <1>2, <1>3

LEMMA LeftAlways == Spec => []LeftInv
<1>1. Init => LeftInv
  BY SyncDevicesAssumption DEF Init, LeftInv, TimerKnown, Left, Jobs
<1>2. QED BY <1>1, LeftStep, LockAlways, TypeCorrect, PTL DEF Spec

\* A lock that nobody at work holds was left by a confirm job that never ran, or by the
\* deletion of a device in the middle of a job: every other way through a sync, its
\* confirm job or a refresh gives the lock up.
THEOREM LocksLeakKnown == Spec => []LockLeaks
<1>1. LeftInv => LockLeaks
  BY DEF LeftInv, LockLeaks, Quiet, Left
<1>2. QED BY <1>1, LeftAlways, PTL

\* While a revert timer runs on a device, the job that started it has the lock, or its
\* confirm job has failed or never ran.
THEOREM TimersKeptGuarded == Spec => []TimersAreGuarded
<1>1. LeftInv => TimersAreGuarded
  BY DEF LeftInv, TimersAreGuarded, Quiet
<1>2. QED BY <1>1, LeftAlways, PTL
=============================================================================
