---------------------------- MODULE SyncDevices ----------------------------
(***************************************************************************)
(* The jobs that take the lock "devices" of CNaaS-NMS, and what they leave *)
(* behind on the devices:                                                  *)
(*                                                                         *)
(*   - sync_devices with dry_run false, a job of the mule's thread pool:   *)
(*     hash check, lock, push to every device, the commit mode's way of    *)
(*     confirming, release;                                                *)
(*   - confirm_devices, the job that confirms the commits of a mode 2 sync *)
(*     and releases the lock of that sync, which waits for it;             *)
(*   - refresh_repo, which runs inside an API call;                        *)
(*   - whoever clears locks: an API worker that starts, the mule when it   *)
(*     starts, an operator who follows the documentation.                  *)
(*                                                                         *)
(* A commit to be confirmed starts a timer on the device, which reverts    *)
(* the commit when it ends. The columns Device.synchronized and confhash,  *)
(* the sync events and the text of results are left out.                   *)
(***************************************************************************)
EXTENDS Naturals, FiniteSets

CONSTANTS
  Syncs,         \* jobs of sync_devices with dry_run false
  Refreshes,     \* jobs of refresh_repo
  NoJob,         \* nobody
  Devices,       \* the devices every sync selects
  Confirmable,   \* those of an OS that can do mode 2 (EOS, JunOS)
  Modes,         \* the confirm modes jobs may be started with
  MaxAttempts,   \* attempts to get the lock (5 in the code)
  MaxDeletes,    \* bound on the devices operators delete
  MaxRestarts    \* bound on the restarts of API workers and the mule

ASSUME SyncDevicesAssumption ==
  /\ Syncs \cap Refreshes = {}
  /\ NoJob \notin Syncs \cup Refreshes
  /\ Confirmable \subseteq Devices
  /\ Modes \subseteq {0, 1, 2}
  /\ MaxAttempts \in Nat \ {0}
  /\ MaxDeletes \in Nat /\ MaxRestarts \in Nat

VARIABLES
  lock,      \* the job in the row "devices" of table joblock
  pc,        \* progress of each job's function
  row,       \* Job.status of each job
  mode,      \* the confirm mode of each sync
  attempts,  \* failed attempts of a sync that still tries to get the lock
  out,       \* what a sync, and its confirm job, did to each device
  cpc,       \* progress of the confirm job of each sync
  crow,      \* Job.status of the confirm job of each sync
  pending,   \* the job whose revert timer runs on each device
  deleted,   \* devices whose row an operator has deleted
  mule,      \* the mule process
  restarts   \* restarts so far

syncVars    == <<pc, row, attempts, out>>
confirmVars == <<cpc, crow>>
worldVars   == <<deleted, mule, restarts>>
vars == <<lock, syncVars, mode, confirmVars, pending, worldVars>>

-----------------------------------------------------------------------------
Jobs == Syncs \cup Refreshes

JobStatus == {"NONE", "SCHEDULED", "RUNNING", "FINISHED", "EXCEPTION", "ABORTED"}

\* "ended": the function returned or raised; "killed": its process died.
JobState == {"idle", "check", "acquire", "insert", "push", "mark", "rollback", "wait",
             "refresh", "ended", "killed"}

\* "lost": the scheduler has the job no more and never ran it.
ConfirmState == {"none", "scheduled", "confirm", "ended", "lost", "killed"}

Outcome == {"todo", "unchanged", "failed", "changed", "confirmed", "unconfirmed", "skipped"}

TypeOK ==
  /\ lock \in Jobs \cup {NoJob}
  /\ pc \in [Jobs -> JobState]
  /\ row \in [Jobs -> JobStatus]
  /\ mode \in [Syncs -> Modes]
  /\ attempts \in [Syncs -> 0 .. MaxAttempts - 1]
  /\ out \in [Syncs -> [Devices -> Outcome]]
  /\ cpc \in [Syncs -> ConfirmState]
  /\ crow \in [Syncs -> JobStatus]
  /\ pending \in [Devices -> Syncs \cup {NoJob}]
  /\ deleted \in SUBSET Devices
  /\ mule \in {"up", "booting"}
  /\ restarts \in 0 .. MaxRestarts

Init ==
  /\ lock = NoJob
  /\ pc = [j \in Jobs |-> "idle"]
  /\ row = [j \in Jobs |-> "NONE"]
  /\ mode \in [Syncs -> Modes]
  /\ attempts = [j \in Syncs |-> 0]
  /\ out = [j \in Syncs |-> [d \in Devices |-> "todo"]]
  /\ cpc = [j \in Syncs |-> "none"]
  /\ crow = [j \in Syncs |-> "NONE"]
  /\ pending = [d \in Devices |-> NoJob]
  /\ deleted = {}
  /\ mule = "up"
  /\ restarts = 0

-----------------------------------------------------------------------------
(* Joblock, and the end of a job *)

\* The state with the lock of job j given up, if it is still there.
Released(j) == IF lock = j THEN NoJob ELSE lock

\* release_lock raises when the row is gone: a job that lets the exception
\* through ends as EXCEPTION.
StatusAfterRelease(j) == IF lock = j THEN "FINISHED" ELSE "EXCEPTION"

Goto(j, s) == pc' = [pc EXCEPT ![j] = s]

End(j, s) == /\ pc' = [pc EXCEPT ![j] = "ended"]
             /\ row' = [row EXCEPT ![j] = s]

EndConfirm(j, s) == /\ cpc' = [cpc EXCEPT ![j] = "ended"]
                    /\ crow' = [crow EXCEPT ![j] = s]

Results(j, S) == {d \in Devices : out[j][d] \in S}

-----------------------------------------------------------------------------
(* sync_devices *)

\* The function starts as soon as the scheduler of the process runs, which is
\* before a mule that boots clears the locks.
SyncStart(j) ==
  /\ pc[j] = "idle"
  /\ Goto(j, "check")
  /\ row' = [row EXCEPT ![j] = "RUNNING"]
  /\ UNCHANGED <<lock, mode, attempts, out, confirmVars, pending, worldVars>>

\* The running configuration of every device against its last known hash.
HashCheck(j) ==
  /\ pc[j] = "check"
  /\ \/ Goto(j, "acquire") /\ UNCHANGED row
     \/ End(j, "EXCEPTION")
  /\ UNCHANGED <<lock, mode, attempts, out, confirmVars, pending, worldVars>>

\* Mutant: the loop tries once more than max_attempts.
AcquireOnceMore(j) ==
  /\ pc[j] = "acquire"
  /\ \/ /\ lock = NoJob
        /\ attempts' = [attempts EXCEPT ![j] = 0]
        /\ Goto(j, "insert")
        /\ UNCHANGED row
     \/ /\ lock # NoJob
        /\ attempts[j] < MaxAttempts
        /\ attempts' = [attempts EXCEPT ![j] = @ + 1]
        /\ UNCHANGED <<pc, row>>
     \/ /\ lock # NoJob
        /\ attempts[j] = MaxAttempts
        /\ attempts' = [attempts EXCEPT ![j] = 0]
        /\ End(j, "EXCEPTION")
  /\ UNCHANGED <<lock, mode, out, confirmVars, pending, worldVars>>

\* acquire_lock: a query, and an insert that the unique name lets only one
\* job do; the loser of a race fails with an IntegrityError. Between
\* attempts the job sleeps.
AcquireQuery(j) ==
  /\ pc[j] = "acquire"
  /\ \/ /\ lock = NoJob
        /\ attempts' = [attempts EXCEPT ![j] = 0]
        /\ Goto(j, "insert")
        /\ UNCHANGED row
     \/ /\ lock # NoJob
        /\ attempts[j] + 1 < MaxAttempts
        /\ attempts' = [attempts EXCEPT ![j] = @ + 1]
        /\ UNCHANGED <<pc, row>>
     \/ /\ lock # NoJob
        /\ attempts[j] + 1 = MaxAttempts
        /\ attempts' = [attempts EXCEPT ![j] = 0]
        /\ End(j, "EXCEPTION")
  /\ UNCHANGED <<lock, mode, out, confirmVars, pending, worldVars>>

\* Mutant: the column name is not unique, and a second row is inserted.
InsertAnyway(j) ==
  /\ pc[j] = "insert"
  /\ lock' = j
  /\ Goto(j, "push")
  /\ UNCHANGED <<row, mode, attempts, out, confirmVars, pending, worldVars>>

AcquireInsert(j) ==
  /\ pc[j] = "insert"
  /\ \/ /\ lock = NoJob
        /\ lock' = j
        /\ Goto(j, "push")
        /\ UNCHANGED row
     \/ /\ lock # NoJob
        /\ End(j, "EXCEPTION")
        /\ UNCHANGED lock
  /\ UNCHANGED <<mode, attempts, out, confirmVars, pending, worldVars>>

\* A commit that holds when the push is over: not to be confirmed at all, or
\* confirmed by the push itself, as for an OS that cannot do mode 2.
HoldsAtOnce(j, d) == mode[j] # 2 \/ d \notin Confirmable

\* push_sync_device for one device: outcome and timer. A device that fails
\* after its commit and before its confirm keeps the timer; in mode 2 that is
\* one that cannot be reached any more.
Push(j, d) ==
  /\ pc[j] = "push"
  /\ out[j][d] = "todo"
  /\ \E o \in {"unchanged", "failed", "changed"}, t \in {j, NoJob, pending[d]} :
       /\ out' = [out EXCEPT ![j][d] = o]
       /\ pending' = [pending EXCEPT ![d] = t]
       /\ d \in deleted => o = "failed" /\ t = pending[d]
       /\ o = "unchanged" => t = pending[d]
       /\ o = "changed" => t = IF HoldsAtOnce(j, d) THEN NoJob ELSE j
       /\ o = "failed" => \/ t = pending[d]
                          \/ t = j /\ mode[j] # 0
                          \/ t = NoJob /\ HoldsAtOnce(j, d)
  /\ UNCHANGED <<lock, pc, row, mode, attempts, confirmVars, worldVars>>

\* Mutant: the failed job returns with its lock.
PushRaisesLocked(j) ==
  /\ pc[j] = "push"
  /\ Results(j, {"todo"}) = Devices
  /\ End(j, "FINISHED")
  /\ UNCHANGED <<lock, mode, attempts, out, confirmVars, pending, worldVars>>

\* Nornir fails as a whole, before any device: the lock is given up, an error
\* in doing so is swallowed, and the job counts as finished.
PushRaises(j) ==
  /\ pc[j] = "push"
  /\ Results(j, {"todo"}) = Devices
  /\ lock' = Released(j)
  /\ End(j, "FINISHED")
  /\ UNCHANGED <<mode, attempts, out, confirmVars, pending, worldVars>>

PushDone(j) ==
  /\ pc[j] = "push"
  /\ Results(j, {"todo"}) = {}
  /\ Goto(j, "mark")
  /\ UNCHANGED <<lock, row, mode, attempts, out, confirmVars, pending, worldVars>>

\* The hosts whose row the job updates; one that has been deleted raises.
Marked(j) == Results(j, IF mode[j] = 2 THEN {"unchanged"} ELSE {"unchanged", "changed"})

MustRollBack(j) == Results(j, {"failed"}) # {} /\ mode[j] # 0

Mark(j) ==
  /\ pc[j] = "mark"
  /\ \/ /\ Marked(j) \cap deleted # {}
        /\ End(j, "EXCEPTION")
        /\ UNCHANGED <<lock, confirmVars>>
     \/ /\ Marked(j) \cap deleted = {}
        /\ MustRollBack(j)
        /\ Goto(j, "rollback")
        /\ UNCHANGED <<lock, row, confirmVars>>
     \/ /\ Marked(j) \cap deleted = {}
        /\ ~MustRollBack(j)
        /\ mode[j] = 2 => Results(j, {"changed"}) = {}
        /\ lock' = Released(j)
        /\ End(j, StatusAfterRelease(j))
        /\ UNCHANGED confirmVars
     \/ /\ Marked(j) \cap deleted = {}
        /\ ~MustRollBack(j)
        /\ mode[j] = 2 /\ Results(j, {"changed"}) # {}
        /\ Goto(j, "wait")
        /\ cpc' = [cpc EXCEPT ![j] = "scheduled"]
        /\ crow' = [crow EXCEPT ![j] = "SCHEDULED"]
        /\ UNCHANGED <<lock, row>>
  /\ UNCHANGED <<mode, attempts, out, pending, worldVars>>

\* Mutant: the job does not sleep until the timers of failed devices are over.
RollbackAtOnce(j) ==
  /\ pc[j] = "rollback"
  /\ lock' = Released(j)
  /\ End(j, StatusAfterRelease(j))
  /\ UNCHANGED <<mode, attempts, out, confirmVars, pending, worldVars>>

\* The job sleeps as long as a timer takes, so its own are over; outside mode
\* 2 inside the session that holds the updates of the rows, the last of which
\* is written only now.
Rollback(j) ==
  /\ pc[j] = "rollback"
  /\ \A d \in Devices : pending[d] # j
  /\ \/ /\ mode[j] # 2 /\ Marked(j) \cap deleted # {}
        /\ End(j, "EXCEPTION")
        /\ UNCHANGED lock
     \/ /\ mode[j] = 2 \/ Marked(j) \cap deleted = {}
        /\ lock' = Released(j)
        /\ End(j, StatusAfterRelease(j))
  /\ UNCHANGED <<mode, attempts, out, confirmVars, pending, worldVars>>

\* Mutant: the wait is over as soon as the confirm job was added.
WaitReturnsEarly(j) ==
  /\ pc[j] = "wait"
  /\ End(j, "FINISHED")
  /\ UNCHANGED <<lock, mode, attempts, out, confirmVars, pending, worldVars>>

\* wait_for_job_completion, once a second and for 300 seconds: longer than a
\* confirm job may be late, and than the timers, which were started earlier.
WaitDone(j) ==
  /\ pc[j] = "wait"
  /\ crow[j] \in {"FINISHED", "EXCEPTION", "ABORTED"}
  /\ End(j, "FINISHED")
  /\ UNCHANGED <<lock, mode, attempts, out, confirmVars, pending, worldVars>>

\* Mutant: the time is only counted for a job that was started.
WaitForStart(j) ==
  /\ pc[j] = "wait"
  /\ crow[j] = "RUNNING"
  /\ \A d \in Devices : pending[d] # j
  /\ End(j, "EXCEPTION")
  /\ UNCHANGED <<lock, mode, attempts, out, confirmVars, pending, worldVars>>

WaitTimeout(j) ==
  /\ pc[j] = "wait"
  /\ crow[j] \notin {"FINISHED", "EXCEPTION", "ABORTED"}
  /\ cpc[j] # "scheduled"
  /\ \A d \in Devices : pending[d] # j
  /\ End(j, "EXCEPTION")
  /\ UNCHANGED <<lock, mode, attempts, out, confirmVars, pending, worldVars>>

-----------------------------------------------------------------------------
(* confirm_devices, added to the mule's own scheduler with APScheduler's    *)
(* default grace period of one second                                       *)

ConfirmStart(j) ==
  /\ cpc[j] = "scheduled"
  /\ cpc' = [cpc EXCEPT ![j] = "confirm"]
  /\ crow' = [crow EXCEPT ![j] = "RUNNING"]
  /\ out' = [out EXCEPT ![j] = [d \in Devices |->
               IF d \in deleted /\ out[j][d] = "changed" THEN "skipped" ELSE out[j][d]]]
  /\ UNCHANGED <<lock, pc, row, mode, attempts, pending, worldVars>>

\* No thread of the pool was free for more than a second.
ConfirmMisfires(j) ==
  /\ cpc[j] = "scheduled"
  /\ cpc' = [cpc EXCEPT ![j] = "lost"]
  /\ UNCHANGED <<lock, syncVars, mode, crow, pending, worldVars>>

\* An operator aborts the scheduled job.
ConfirmAborted(j) ==
  /\ cpc[j] = "scheduled"
  /\ cpc' = [cpc EXCEPT ![j] = "lost"]
  /\ crow' = [crow EXCEPT ![j] = "ABORTED"]
  /\ UNCHANGED <<lock, syncVars, mode, pending, worldVars>>

\* A device that does not confirm, as one that has already reverted on EOS,
\* fails; a commit of JunOS succeeds with nothing to confirm.
ConfirmDevice(j, d) ==
  /\ cpc[j] = "confirm"
  /\ out[j][d] = "changed"
  /\ \/ /\ out' = [out EXCEPT ![j][d] = "confirmed"]
        /\ pending' = [pending EXCEPT ![d] = IF @ = j THEN NoJob ELSE @]
     \/ /\ d \in Confirmable
        /\ out' = [out EXCEPT ![j][d] = "unconfirmed"]
        /\ UNCHANGED pending
  /\ UNCHANGED <<lock, pc, row, mode, attempts, confirmVars, worldVars>>

ConfirmRaises(j) ==
  /\ cpc[j] = "confirm"
  /\ Results(j, {"confirmed", "unconfirmed"}) = {}
  /\ lock' = Released(j)
  /\ EndConfirm(j, "FINISHED")
  /\ UNCHANGED <<syncVars, mode, pending, worldVars>>

ConfirmMark(j) ==
  /\ cpc[j] = "confirm"
  /\ Results(j, {"changed"}) = {}
  /\ \/ /\ Results(j, {"confirmed", "unconfirmed"}) \cap deleted # {}
        /\ EndConfirm(j, "EXCEPTION")
        /\ UNCHANGED lock
     \/ /\ Results(j, {"confirmed", "unconfirmed"}) \cap deleted = {}
        /\ lock' = Released(j)
        /\ EndConfirm(j, StatusAfterRelease(j))
  /\ UNCHANGED <<syncVars, mode, pending, worldVars>>

-----------------------------------------------------------------------------
(* refresh_repo: one session from the insertion of the job's row to its     *)
(* last status. Refused, it rolls its row back.                             *)

RefreshQuery(r) ==
  /\ pc[r] = "idle"
  /\ Goto(r, IF lock = NoJob THEN "insert" ELSE "ended")
  /\ UNCHANGED <<lock, row, mode, attempts, out, confirmVars, pending, worldVars>>

RefreshInsert(r) ==
  /\ pc[r] = "insert"
  /\ \/ /\ lock = NoJob
        /\ lock' = r
        /\ row' = [row EXCEPT ![r] = "RUNNING"]
        /\ Goto(r, "refresh")
     \/ /\ lock # NoJob
        /\ Goto(r, "ended")
        /\ UNCHANGED <<lock, row>>
  /\ UNCHANGED <<mode, attempts, out, confirmVars, pending, worldVars>>

RefreshOk(r) ==
  /\ pc[r] = "refresh"
  /\ lock' = Released(r)
  /\ End(r, "FINISHED")
  /\ UNCHANGED <<mode, attempts, out, confirmVars, pending, worldVars>>

\* Only the release commits the status; without a lock to release the
\* exception rolls it back.
RefreshFails(r) ==
  /\ pc[r] = "refresh"
  /\ lock' = Released(r)
  /\ End(r, IF lock = r THEN "EXCEPTION" ELSE row[r])
  /\ UNCHANGED <<mode, attempts, out, confirmVars, pending, worldVars>>

-----------------------------------------------------------------------------
(* Devices, operators and processes *)

\* The timer ends: the device goes back to the configuration before the commit.
RevertTimer(d) ==
  /\ pending[d] # NoJob
  /\ pending' = [pending EXCEPT ![d] = NoJob]
  /\ UNCHANGED <<lock, syncVars, mode, confirmVars, worldVars>>

DeleteDevice(d) ==
  /\ d \notin deleted
  /\ Cardinality(deleted) < MaxDeletes
  /\ deleted' = deleted \cup {d}
  /\ UNCHANGED <<lock, syncVars, mode, confirmVars, pending, mule, restarts>>

NoJobRunning == /\ \A j \in Jobs : row[j] # "RUNNING"
                /\ \A j \in Syncs : crow[j] # "RUNNING"

\* JobLockApi.delete, used the way the documentation asks for: "make sure
\* that no jobs are running first".
UnlockApi ==
  /\ lock # NoJob
  /\ NoJobRunning
  /\ lock' = NoJob
  /\ UNCHANGED <<syncVars, mode, confirmVars, pending, worldVars>>

\* An API worker dies, with some of its calls, and the one that takes its
\* place clears all locks, and the rows of jobs that seem to be left over.
ApiWorkerStarts ==
  /\ restarts < MaxRestarts
  /\ restarts' = restarts + 1
  /\ lock' = NoJob
  /\ \E R \in SUBSET {r \in Refreshes : pc[r] \in {"insert", "refresh"}} :
       pc' = [j \in Jobs |-> IF j \in R THEN "killed" ELSE pc[j]]
  /\ row' = [j \in Jobs |-> IF row[j] = "RUNNING" THEN "ABORTED" ELSE row[j]]
  /\ crow' = [j \in Syncs |->
                IF \/ crow[j] = "RUNNING"
                   \/ crow[j] = "SCHEDULED" /\ cpc[j] # "scheduled"
                THEN "ABORTED" ELSE crow[j]]
  /\ UNCHANGED <<mode, attempts, out, cpc, pending, deleted, mule>>

\* The mule dies with all its threads and is started again. A confirm job
\* that was to run misses its second.
MuleRestarts ==
  /\ restarts < MaxRestarts
  /\ restarts' = restarts + 1
  /\ mule' = "booting"
  /\ pc' = [j \in Jobs |-> IF j \in Syncs /\ pc[j] \notin {"idle", "ended"}
                           THEN "killed" ELSE pc[j]]
  /\ cpc' = [j \in Syncs |-> CASE cpc[j] = "scheduled" -> "lost"
                               [] cpc[j] = "confirm"   -> "killed"
                               [] OTHER                -> cpc[j]]
  /\ UNCHANGED <<lock, row, mode, attempts, out, crow, pending, deleted>>

\* main_loop clears the locks after it has started the scheduler.
MuleClearsLocks ==
  /\ mule = "booting"
  /\ mule' = "up"
  /\ lock' = NoJob
  /\ UNCHANGED <<syncVars, mode, confirmVars, pending, deleted, restarts>>

-----------------------------------------------------------------------------
SyncStep(j) == \/ HashCheck(j) \/ AcquireQuery(j) \/ AcquireInsert(j)
               \/ (\E d \in Devices : Push(j, d)) \/ PushRaises(j) \/ PushDone(j)
               \/ Mark(j) \/ Rollback(j) \/ WaitDone(j) \/ WaitTimeout(j)

ConfirmStep(j) == \/ ConfirmStart(j) \/ ConfirmMisfires(j)
                  \/ (\E d \in Devices : ConfirmDevice(j, d))
                  \/ ConfirmRaises(j) \/ ConfirmMark(j)

RefreshStep(r) == RefreshInsert(r) \/ RefreshOk(r) \/ RefreshFails(r)

Operator == \/ \E j \in Syncs : SyncStart(j) \/ ConfirmAborted(j)
            \/ \E r \in Refreshes : RefreshQuery(r)
            \/ \E d \in Devices : DeleteDevice(d)
            \/ UnlockApi

Processes == ApiWorkerStarts \/ MuleRestarts \/ MuleClearsLocks

Next == \/ \E j \in Syncs : SyncStep(j) \/ ConfirmStep(j)
        \/ \E r \in Refreshes : RefreshStep(r)
        \/ \E d \in Devices : RevertTimer(d)
        \/ Operator
        \/ Processes

Spec == Init /\ [][Next]_vars

\* Threads that run are not suspended for ever, timers end, and a mule that
\* boots gets to its main loop. Nothing makes operators act or processes die.
Fairness ==
  /\ \A j \in Syncs : WF_vars(SyncStep(j)) /\ WF_vars(ConfirmStep(j))
  /\ \A r \in Refreshes : WF_vars(RefreshStep(r))
  /\ \A d \in Devices : WF_vars(RevertTimer(d))
  /\ WF_vars(MuleClearsLocks)

FairSpec == Spec /\ Fairness

-----------------------------------------------------------------------------
(* Properties *)

\* The jobs at work on the devices or the repositories: a sync between its
\* lock and its release, its confirm job included.
Configuring == {j \in Syncs : \/ pc[j] \in {"push", "mark", "rollback"}
                              \/ cpc[j] \in {"scheduled", "confirm"}}
               \cup {r \in Refreshes : pc[r] = "refresh"}

\* Whoever is at work still has its lock: no release by a job that lost a
\* race, by a confirm job, or by an operator who looked at the job list
\* first takes the lock from under another, as long as no process starts.
OwnerHolds == restarts = 0 => \A j \in Configuring : lock = j

\* As long as no process starts, the job list shows what is at work: a sync
\* that may have the lock, and a confirm job that may release it, are RUNNING,
\* or there is a sync that waits and is. This is what an operator who looks
\* before clearing a lock relies on.
WorkIsShown ==
  /\ mule = "booting" => restarts > 0
  /\ restarts = 0 =>
       /\ \A j \in Syncs : pc[j] \notin {"idle", "ended"} => row[j] = "RUNNING"
       /\ \A r \in Refreshes : pc[r] = "refresh" => row[r] = "RUNNING"
       /\ \A j \in Syncs : /\ cpc[j] # "none" => pc[j] \in {"wait", "ended"}
                           /\ cpc[j] = "scheduled" => pc[j] = "wait" /\ crow[j] = "SCHEDULED"
                           /\ cpc[j] = "confirm" => crow[j] = "RUNNING"

\* A lock that nobody at work holds was left by a confirm job that never ran
\* or by the deletion of a device in the middle of a job. Every other path
\* through the jobs gives it up.
LockLeaks ==
  restarts = 0 /\ deleted = {} =>
    \A j \in Jobs : lock = j /\ j \notin Configuring
                      => j \in Syncs /\ cpc[j] = "lost"

\* While a revert timer runs on a device, the job that started it keeps
\* others away from it; only a confirm job that failed, or never ran, leaves
\* timers running behind a lock it has given up.
TimersAreGuarded ==
  restarts = 0 /\ deleted = {} =>
    \A d \in Devices, j \in Syncs :
      pending[d] = j => lock = j \/ cpc[j] \in {"ended", "lost"}

\* The lock implements the mutual exclusion it promises.
Mutex == INSTANCE DeviceMutex WITH configuring <- Configuring, cleared <- restarts > 0

MutualExclusion == Mutex!Spec

\* A sync that was started ends, whoever has the lock and whatever becomes of
\* its confirm job, unless its process dies.
SyncsEnd == \A j \in Syncs : pc[j] = "check" ~> pc[j] \in {"ended", "killed"}

\* Without restarts, deletions and lost confirm jobs a lock is always given up.
LockIsReleased ==
  [](restarts = 0 /\ deleted = {} /\ \A j \in Syncs : cpc[j] # "lost")
    => \A j \in Jobs : lock = j ~> lock # j

\* "only a single syncto job should be running at the same time"
\* (docs/apiref/jobs.rst)
OneSyncAtATime == \A i, j \in Syncs \cap Configuring : i = j

\* "keep this thread running until next_job has finished so the device session
\* is not closed" (the comment in sync_devices)
SessionKeptOpen ==
  \A j \in Syncs : pc[j] = "ended" /\ cpc[j] # "none"
                     => crow[j] \in {"FINISHED", "EXCEPTION", "ABORTED"}
=============================================================================
