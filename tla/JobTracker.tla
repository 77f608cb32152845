----------------------------- MODULE JobTracker -----------------------------
(***************************************************************************)
(* The life of a job of CNaaS-NMS, from the API call that creates it to    *)
(* the last status written by the wrapper around its function:             *)
(*                                                                         *)
(*   - an API worker commits the Job row and then sends an "add" message   *)
(*     to the uwsgi mule (Scheduler.add_onetime_job); a job that schedules *)
(*     another one does so inside the mule, without a message;             *)
(*   - the mule's main loop moves messages into the persistent job store   *)
(*     of APScheduler, whose thread hands due jobs to a pool of threads;   *)
(*   - a pool thread runs job_wrapper: RUNNING, the function, then         *)
(*     FINISHED, EXCEPTION or ABORTED;                                     *)
(*   - operators abort jobs through the API, the mule and the API workers  *)
(*     die and are respawned by uwsgi, and a worker that starts moves      *)
(*     unfinished rows to ABORTED (Job.clear_jobs).                        *)
(*                                                                         *)
(* Time is abstract: "late" and "overdue" are the jobs whose grace period  *)
(* of five seconds is over, counted by APScheduler from the run date and   *)
(* by clear_jobs from the scheduled time of the row.                       *)
(***************************************************************************)
EXTENDS Naturals, FiniteSets, Sequences

CONSTANTS
  Jobs,            \* rows of the job table that may come into existence
  Discovers,       \* the discover_device jobs for one DHCP lease
  Requests,        \* abort requests that operators may send
  MaxThreads,      \* size of APScheduler's thread pool (10 in the code)
  MaxMuleDeaths,   \* bound on kills and shutdowns of the mule
  MaxApiStarts     \* bound on the (re)starts of an API worker

ASSUME JobTrackerAssumption ==
  /\ Discovers \subseteq Jobs
  /\ MaxThreads \in Nat \ {0}
  /\ MaxMuleDeaths \in Nat
  /\ MaxApiStarts \in Nat

VARIABLES
  status,     \* the column Job.status; "NONE" before the row is committed
  creator,    \* progress of the add_onetime_job call of each job
  req,        \* progress of each abort request
  msgs,       \* messages of uwsgi.mule_msg the mule has not read yet
  store,      \* APScheduler's persistent job store
  pool,       \* jobs submitted to the thread pool, waiting for a thread
  thread,     \* progress of job_wrapper for each job
  loaded,     \* the status the last session of job_wrapper has read
  late,       \* jobs past their run date plus misfire_grace_time
  overdue,    \* jobs past Job.scheduled_time plus the same grace
  mule,       \* the mule process
  muleDeaths, \* kills and shutdowns so far
  apiStarts   \* API workers started so far

jobVars  == <<status, creator, req>>
muleVars == <<msgs, store, pool, thread, loaded, mule, muleDeaths>>
timeVars == <<late, overdue>>
vars     == <<jobVars, muleVars, timeVars, apiStarts>>

-----------------------------------------------------------------------------
(* Types *)

JobStatus == {"SCHEDULED", "RUNNING", "FINISHED", "EXCEPTION", "ABORTED", "ABORTING"}

Terminal == {"FINISHED", "EXCEPTION", "ABORTED"}

CreatorState == {"idle", "send", "local", "done", "dead"}

RequestState == [at : {"idle", "remove", "mark", "running", "done"}, job : Jobs]

Message == [action : {"add", "remove"}, id : Jobs] \cup [action : {"shutdown_mule"}]

\* Where job_wrapper is for a job. A job that never gets that far, or not to
\* its end, is "removed" from the store, "missed" (a misfire) or "killed",
\* with the process that had it in its pool.
ThreadState == {"none", "start", "body", "returned", "raised", "finish",
                "ended", "removed", "missed", "killed"}

Active == {"start", "body", "returned", "raised", "finish"}

\* "draining": asked to shut down, waits for its threads; "dying": an
\* exception left the main loop and the interpreter is on its way out.
MuleState == {"up", "draining", "dying", "down"}

TypeOK ==
  /\ status \in [Jobs -> JobStatus \cup {"NONE"}]
  /\ creator \in [Jobs -> CreatorState]
  /\ req \in [Requests -> RequestState]
  /\ msgs \in Seq(Message)
  /\ store \in SUBSET Jobs
  /\ pool \in SUBSET Jobs
  /\ thread \in [Jobs -> ThreadState]
  /\ loaded \in [Jobs -> JobStatus \cup {"NONE"}]
  /\ late \in SUBSET Jobs
  /\ overdue \in SUBSET Jobs
  /\ mule \in MuleState
  /\ muleDeaths \in 0 .. MaxMuleDeaths
  /\ apiStarts \in 0 .. MaxApiStarts

-----------------------------------------------------------------------------
Busy == {j \in Jobs : thread[j] \in Active}

Init ==
  /\ status = [j \in Jobs |-> "NONE"]
  /\ creator = [j \in Jobs |-> "idle"]
  /\ req \in [Requests -> [at : {"idle"}, job : Jobs]]
  /\ msgs = <<>>
  /\ store = {}
  /\ pool = {}
  /\ thread = [j \in Jobs |-> "none"]
  /\ loaded = [j \in Jobs |-> "NONE"]
  /\ late = {}
  /\ overdue = {}
  /\ mule = "up"
  /\ muleDeaths = 0
  /\ apiStarts = 0

-----------------------------------------------------------------------------
(* Scheduler.add_onetime_job: the row is committed first, the job is handed *)
(* to APScheduler in a second step. Called by an API worker it sends a      *)
(* message ("send"); called by a running job it is already in the mule and  *)
(* adds to the scheduler of its own process ("local").                      *)

AddOnetimeJob(j) ==
  /\ creator[j] = "idle"
  /\ status' = [status EXCEPT ![j] = "SCHEDULED"]
  /\ \/ creator' = [creator EXCEPT ![j] = "send"]
     \/ /\ \E k \in Jobs : thread[k] = "body"
        /\ creator' = [creator EXCEPT ![j] = "local"]
  /\ UNCHANGED <<req, muleVars, timeVars, apiStarts>>

\* Mutant: the message is sent twice, as by a retry of a call that succeeded.
SendAddTwice(j) ==
  /\ creator[j] = "send"
  /\ creator' = [creator EXCEPT ![j] = "done"]
  /\ msgs' = msgs \o [i \in 1 .. 2 |-> [action |-> "add", id |-> j]]
  /\ UNCHANGED <<status, req, store, pool, thread, loaded, mule, muleDeaths,
                 timeVars, apiStarts>>

SendAdd(j) ==
  /\ creator[j] = "send"
  /\ creator' = [creator EXCEPT ![j] = "done"]
  /\ msgs' = Append(msgs, [action |-> "add", id |-> j])
  /\ UNCHANGED <<status, req, store, pool, thread, loaded, mule, muleDeaths,
                 timeVars, apiStarts>>

\* A scheduler that was shut down keeps what is added in memory, and never
\* runs it: the call returns and the job is lost.
AddLocalJob(j) ==
  /\ creator[j] = "local"
  /\ \/ /\ mule # "draining"
        /\ creator' = [creator EXCEPT ![j] = "done"]
        /\ store' = store \cup {j}
     \/ /\ mule = "draining"
        /\ creator' = [creator EXCEPT ![j] = "dead"]
        /\ UNCHANGED store
  /\ UNCHANGED <<status, req, msgs, pool, thread, loaded, mule, muleDeaths,
                 timeVars, apiStarts>>

-----------------------------------------------------------------------------
(* JobByIdApi.put with action ABORT: the status is read in one session and  *)
(* acted on later. A scheduled job is removed by a message and then marked, *)
(* in that order and whatever has become of it in between.                  *)

AbortRead(q) ==
  LET j == req[q].job IN
  /\ req[q].at = "idle"
  /\ status[j] # "NONE"
  /\ req' = [req EXCEPT ![q].at =
               CASE status[j] = "SCHEDULED" -> "remove"
                 [] status[j] = "RUNNING"   -> "running"
                 [] OTHER                   -> "done"]
  /\ UNCHANGED <<status, creator, muleVars, timeVars, apiStarts>>

RemoveScheduledJob(q) ==
  /\ req[q].at = "remove"
  /\ req' = [req EXCEPT ![q].at = "mark"]
  /\ msgs' = Append(msgs, [action |-> "remove", id |-> req[q].job])
  /\ UNCHANGED <<status, creator, store, pool, thread, loaded, mule, muleDeaths,
                 timeVars, apiStarts>>

FinishAbort(q) ==
  /\ req[q].at = "mark"
  /\ req' = [req EXCEPT ![q].at = "done"]
  /\ status' = [status EXCEPT ![req[q].job] = "ABORTED"]
  /\ UNCHANGED <<creator, muleVars, timeVars, apiStarts>>

AbortRunning(q) ==
  /\ req[q].at = "running"
  /\ req' = [req EXCEPT ![q].at = "done"]
  /\ status' = [status EXCEPT ![req[q].job] = "ABORTING"]
  /\ UNCHANGED <<creator, muleVars, timeVars, apiStarts>>

-----------------------------------------------------------------------------
(* The main loop of the mule *)

\* pre_schedule_checks: another discover job of this lease is in the store.
AlreadyScheduled(j) == j \in Discovers /\ store \cap Discovers # {}

\* Mutant: a refused job is dropped without a word in its row.
MuleAddSilent ==
  /\ mule = "up" /\ msgs # <<>> /\ Head(msgs).action = "add"
  /\ msgs' = Tail(msgs)
  /\ store' = IF AlreadyScheduled(Head(msgs).id) THEN store ELSE store \cup {Head(msgs).id}
  /\ UNCHANGED <<jobVars, pool, thread, loaded, mule, muleDeaths, timeVars, apiStarts>>

MuleAdd ==
  /\ mule = "up" /\ msgs # <<>> /\ Head(msgs).action = "add"
  /\ msgs' = Tail(msgs)
  /\ LET j == Head(msgs).id IN
     \/ /\ AlreadyScheduled(j)
        /\ status' = [status EXCEPT ![j] = "ABORTED"]
        /\ UNCHANGED store
     \/ /\ ~AlreadyScheduled(j)
        /\ store' = store \cup {j}
        /\ UNCHANGED status
  /\ UNCHANGED <<creator, req, pool, thread, loaded, mule, muleDeaths, timeVars,
                 apiStarts>>

\* Removing a job the store no longer holds, or does not hold yet, raises
\* JobLookupError, which nothing in the main loop catches.
MuleRemove ==
  /\ mule = "up" /\ msgs # <<>> /\ Head(msgs).action = "remove"
  /\ msgs' = Tail(msgs)
  /\ LET j == Head(msgs).id IN
     \/ /\ j \in store
        /\ store' = store \ {j}
        /\ thread' = [thread EXCEPT ![j] = "removed"]
        /\ UNCHANGED mule
     \/ /\ j \notin store
        /\ mule' = "dying"
        /\ UNCHANGED <<store, thread>>
  /\ UNCHANGED <<jobVars, pool, loaded, muleDeaths, timeVars, apiStarts>>

\* ShutdownApi asks the mule to stop; the loop shuts the scheduler down,
\* which waits for the jobs the pool has, and returns.
RequestShutdown ==
  /\ muleDeaths < MaxMuleDeaths
  /\ muleDeaths' = muleDeaths + 1
  /\ msgs' = Append(msgs, [action |-> "shutdown_mule"])
  /\ UNCHANGED <<jobVars, store, pool, thread, loaded, mule, timeVars, apiStarts>>

MuleShutdown ==
  /\ mule = "up" /\ msgs # <<>> /\ Head(msgs).action = "shutdown_mule"
  /\ msgs' = Tail(msgs)
  /\ mule' = "draining"
  /\ UNCHANGED <<jobVars, store, pool, thread, loaded, muleDeaths, timeVars, apiStarts>>

-----------------------------------------------------------------------------
(* APScheduler: a due job leaves the store for the pool; a pool thread that *)
(* takes it after the grace period counts a misfire and does not run it.    *)

Submit(j) ==
  /\ mule = "up"
  /\ j \in store
  /\ store' = store \ {j}
  /\ pool' = pool \cup {j}
  /\ UNCHANGED <<jobVars, msgs, thread, loaded, mule, muleDeaths, timeVars, apiStarts>>

TakeJob(j) ==
  /\ j \in pool
  /\ Cardinality(Busy) < MaxThreads
  /\ pool' = pool \ {j}
  /\ thread' = [thread EXCEPT ![j] = IF j \in late THEN "missed" ELSE "start"]
  /\ UNCHANGED <<jobVars, msgs, store, loaded, mule, muleDeaths, timeVars, apiStarts>>

\* A job waits longer than the grace period only when something keeps it
\* from a thread: the mule is not there, or every thread is busy.
Held == mule # "up" \/ Cardinality(Busy) >= MaxThreads

GraceExpires(j) ==
  /\ j \in (store \cup pool) \ late
  /\ Held
  /\ late' = late \cup {j}
  /\ UNCHANGED <<jobVars, muleVars, overdue, apiStarts>>

\* Nothing will run this job any more, whatever its row says.
Lost(j) == creator[j] = "dead" \/ thread[j] \in {"removed", "missed", "killed"}

\* The row counts from its scheduled time, handed over or not.
RowOverdue(j) ==
  /\ status[j] = "SCHEDULED" /\ j \notin overdue
  /\ Held \/ Lost(j)
  /\ overdue' = overdue \cup {j}
  /\ UNCHANGED <<jobVars, muleVars, late, apiStarts>>

-----------------------------------------------------------------------------
(* job_wrapper in a thread of the pool *)

\* Mutant: the row of a job that was aborted meanwhile is left as it is, but
\* the job is run.
StartKeepsAborted(j) ==
  /\ thread[j] = "start"
  /\ thread' = [thread EXCEPT ![j] = "body"]
  /\ status' = [status EXCEPT ![j] = IF status[j] = "ABORTED" THEN "ABORTED" ELSE "RUNNING"]
  /\ UNCHANGED <<creator, req, msgs, store, pool, loaded, mule, muleDeaths, timeVars,
                 apiStarts>>

StartJob(j) ==
  /\ thread[j] = "start"
  /\ thread' = [thread EXCEPT ![j] = "body"]
  /\ status' = [status EXCEPT ![j] = "RUNNING"]
  /\ UNCHANGED <<creator, req, msgs, store, pool, loaded, mule, muleDeaths, timeVars,
                 apiStarts>>

\* The wrapped function returns or raises; what it does meanwhile is the
\* subject of the other modules.
RunFunction(j) ==
  /\ thread[j] = "body"
  /\ \E how \in {"returned", "raised"} : thread' = [thread EXCEPT ![j] = how]
  /\ UNCHANGED <<jobVars, msgs, store, pool, loaded, mule, muleDeaths, timeVars, apiStarts>>

\* The last session reads the row and commits its new status: an operator
\* may write ABORTING between the two.
FinishRead(j) ==
  /\ thread[j] = "returned"
  /\ thread' = [thread EXCEPT ![j] = "finish"]
  /\ loaded' = [loaded EXCEPT ![j] = status[j]]
  /\ UNCHANGED <<jobVars, msgs, store, pool, mule, muleDeaths, timeVars, apiStarts>>

\* Mutant: the end of an aborted run keeps the status the operator wrote.
FinishKeepsAborting(j) ==
  /\ thread[j] = "finish"
  /\ thread' = [thread EXCEPT ![j] = "ended"]
  /\ status' = [status EXCEPT ![j] =
                  IF loaded[j] = "ABORTING" THEN "ABORTING" ELSE "FINISHED"]
  /\ UNCHANGED <<creator, req, msgs, store, pool, loaded, mule, muleDeaths, timeVars,
                 apiStarts>>

FinishSuccess(j) ==
  /\ thread[j] = "finish"
  /\ thread' = [thread EXCEPT ![j] = "ended"]
  /\ status' = [status EXCEPT ![j] =
                  IF loaded[j] = "ABORTING" THEN "ABORTED" ELSE "FINISHED"]
  /\ UNCHANGED <<creator, req, msgs, store, pool, loaded, mule, muleDeaths, timeVars,
                 apiStarts>>

\* Mutant: the exception is raised again before the row is written.
RaiseUnreported(j) ==
  /\ thread[j] = "raised"
  /\ thread' = [thread EXCEPT ![j] = "ended"]
  /\ UNCHANGED <<jobVars, msgs, store, pool, loaded, mule, muleDeaths, timeVars, apiStarts>>

FinishException(j) ==
  /\ thread[j] = "raised"
  /\ thread' = [thread EXCEPT ![j] = "ended"]
  /\ status' = [status EXCEPT ![j] = "EXCEPTION"]
  /\ UNCHANGED <<creator, req, msgs, store, pool, loaded, mule, muleDeaths, timeVars,
                 apiStarts>>

-----------------------------------------------------------------------------
(* Processes that die, and that uwsgi starts again *)

\* The end of the mule process takes its threads and the pool's queue with
\* it; the job store and the unread messages outlive it. A "local" call
\* runs in one of those threads.
LoseProcess ==
  /\ mule' = "down"
  /\ pool' = {}
  /\ thread' = [j \in Jobs |-> IF j \in pool \cup Busy THEN "killed" ELSE thread[j]]
  /\ creator' = [j \in Jobs |-> IF creator[j] = "local" THEN "dead" ELSE creator[j]]
  /\ UNCHANGED <<status, req, msgs, store, loaded, timeVars, apiStarts>>

MuleKilled ==
  /\ mule # "down"
  /\ muleDeaths < MaxMuleDeaths
  /\ muleDeaths' = muleDeaths + 1
  /\ LoseProcess

MuleExits ==
  /\ \/ mule = "dying"
     \/ mule = "draining" /\ Busy = {} /\ pool = {}
  /\ UNCHANGED muleDeaths
  /\ LoseProcess

\* Mutant: the scheduler of the new process is not started.
MuleStartsIdle ==
  /\ mule = "down"
  /\ mule' = "draining"
  /\ UNCHANGED <<jobVars, msgs, store, pool, thread, loaded, muleDeaths, timeVars,
                 apiStarts>>

MuleStarts ==
  /\ mule = "down"
  /\ mule' = "up"
  /\ UNCHANGED <<jobVars, msgs, store, pool, thread, loaded, muleDeaths, timeVars,
                 apiStarts>>

\* Mutants of ClearedStatus: the initial value of the enumeration instead of
\* ABORTED, and EXCEPTION for rows that were running.
ClearedUnknown(j) == IF status[j] \in {"RUNNING", "ABORTING"} THEN "UNKNOWN" ELSE status[j]

ClearedException(j) == IF status[j] \in {"RUNNING", "ABORTING"} THEN "EXCEPTION" ELSE status[j]

\* Job.clear_jobs, run by every API worker that starts.
ClearedStatus(j) ==
  IF \/ status[j] \in {"RUNNING", "ABORTING"}
     \/ status[j] = "SCHEDULED" /\ j \in overdue
  THEN "ABORTED"
  ELSE status[j]

\* One API worker dies, with some of the calls in progress, and another
\* takes its place (get_app).
ApiWorkerStarts ==
  /\ apiStarts < MaxApiStarts
  /\ apiStarts' = apiStarts + 1
  /\ \E D \in SUBSET {j \in Jobs : creator[j] = "send"} :
       creator' = [j \in Jobs |-> IF j \in D THEN "dead" ELSE creator[j]]
  /\ \E R \in SUBSET {q \in Requests : req[q].at \in {"remove", "mark", "running"}} :
       req' = [q \in Requests |-> IF q \in R THEN [req[q] EXCEPT !.at = "done"] ELSE req[q]]
  /\ status' = [j \in Jobs |-> ClearedStatus(j)]
  /\ UNCHANGED <<muleVars, timeVars>>

-----------------------------------------------------------------------------
Create == \E j \in Jobs : AddOnetimeJob(j) \/ SendAdd(j) \/ AddLocalJob(j)

Abort == \E q \in Requests :
           AbortRead(q) \/ RemoveScheduledJob(q) \/ FinishAbort(q) \/ AbortRunning(q)

MainLoop == MuleAdd \/ MuleRemove \/ MuleShutdown

Dispatch == \E j \in Jobs : Submit(j) \/ TakeJob(j) \/ GraceExpires(j) \/ RowOverdue(j)

JobWrapper == \E j \in Jobs : StartJob(j) \/ RunFunction(j) \/ FinishRead(j)
                                \/ FinishSuccess(j) \/ FinishException(j)

Processes == RequestShutdown \/ MuleKilled \/ MuleExits \/ MuleStarts \/ ApiWorkerStarts

Next == Create \/ Abort \/ MainLoop \/ Dispatch \/ JobWrapper \/ Processes

Spec == Init /\ [][Next]_vars

\* A call in progress and a thread that runs are not suspended for ever; the
\* main loop and APScheduler's thread poll; uwsgi respawns the mule. Nothing
\* makes an operator call the API or a process die.
Fairness ==
  /\ \A j \in Jobs : /\ WF_vars(SendAdd(j) \/ AddLocalJob(j))
                     /\ WF_vars(Submit(j))
                     /\ WF_vars(TakeJob(j))
                     /\ WF_vars(StartJob(j) \/ RunFunction(j) \/ FinishRead(j)
                                  \/ FinishSuccess(j) \/ FinishException(j))
  /\ \A q \in Requests : WF_vars(RemoveScheduledJob(q) \/ FinishAbort(q) \/ AbortRunning(q))
  /\ WF_vars(MainLoop)
  /\ WF_vars(MuleExits)
  /\ WF_vars(MuleStarts)

FairSpec == Spec /\ Fairness

-----------------------------------------------------------------------------
(* Properties *)

InMessages(j) == \E i \in 1 .. Len(msgs) : msgs[i].action = "add" /\ msgs[i].id = j

OneMessage == \A i, k \in 1 .. Len(msgs) :
  /\ msgs[i].action = "add" /\ msgs[k].action = "add"
  /\ msgs[i].id = msgs[k].id
  => i = k

\* A job is in one place at a time on its way to a thread (the queue of
\* messages, the store, the pool), gets there once, and only after its
\* caller has handed it over. No component but the order of the calls keeps
\* the two copies apart that a message and a store that survives would make.
OnePlace ==
  /\ OneMessage
  /\ \A j \in Jobs : InMessages(j) => j \notin store \cup pool /\ thread[j] = "none"
  /\ \A j \in store : j \notin pool /\ thread[j] = "none"
  /\ \A j \in pool : thread[j] = "none"
  /\ \A j \in Jobs : InMessages(j) \/ j \in store \cup pool \/ thread[j] # "none"
                       => creator[j] = "done"

\* Something will still run the job.
Pending(j) == \/ creator[j] \in {"send", "local"}
              \/ InMessages(j)
              \/ j \in store \cup pool
              \/ thread[j] = "start"

\* A row that says SCHEDULED belongs to a job on its way to a thread, or to
\* one that was lost in a known way: its caller died before handing it over,
\* it was removed, it misfired, or its process died. Messages, store, pool and
\* threads drop nothing else between them.
ScheduledIsAccounted ==
  \A j \in Jobs : status[j] = "SCHEDULED" => Pending(j) \/ Lost(j)

\* FINISHED and EXCEPTION report a run that took place and is over: no abort,
\* restart or clean-up writes them, and no thread works on behind them.
ResultOfRun ==
  \A j \in Jobs : status[j] \in {"FINISHED", "EXCEPTION"} => thread[j] = "ended"

\* RUNNING is shown while the wrapper is inside the function or about to
\* report, and otherwise only for a job whose process was killed under it.
RunningIsExplained ==
  \A j \in Jobs : status[j] = "RUNNING" =>
    thread[j] \in {"body", "returned", "raised", "finish", "killed"}

\* A job is run at most once, across lost processes and the persistent store:
\* only a job that never reached a thread is started. Proved; the runs check
\* it as part of LifeKept, where a job that is over is never asked for again.
NeverRunTwice ==
  [][\A j \in Jobs : thread[j] # "start" /\ thread'[j] = "start"
                        => thread[j] = "none"]_vars

LifeOf(j) == CASE creator[j] = "idle"         -> "new"
               [] Pending(j)                  -> "asked"
               [] thread[j] \in Active \ {"start"} -> "working"
               [] OTHER                       -> "over"

Life == INSTANCE JobLife WITH life <- [j \in Jobs |-> LifeOf(j)], row <- status

\* Messages, store, pool, threads and the processes that hold them implement
\* the life of a job of JobLife: every step of the system is one of its steps
\* or changes nothing a client sees.
LifeKept == Life!Spec

\* What the persistent store holds outlives the death of the mule and is
\* dispatched, or removed, by the one that replaces it.
StoreDrains == \A j \in Jobs : j \in store ~> j \notin store

\* A job asked to abort while its wrapper is at work does not keep the status
\* ABORTING: the wrapper reports an end, unless its process dies.
AbortingResolves ==
  \A j \in Jobs : status[j] = "ABORTING" /\ thread[j] \in Active
                     ~> status[j] # "ABORTING" \/ thread[j] = "killed"

Undisturbed == /\ muleDeaths = 0 /\ apiStarts = 0 /\ late = {}
               /\ \A q \in Requests : req[q].at = "idle"

\* With no process lost, no abort and no job kept waiting beyond its grace
\* period, every job that is created comes to a reported end.
JobsTerminate ==
  []Undisturbed => \A j \in Jobs : status[j] = "SCHEDULED" ~> status[j] \in Terminal

\* "To abort a scheduled job send a request like this" (docs/apiref/jobs.rst):
\* a job reported as ABORTED is not started afterwards.
AbortedNeverStarts ==
  [][\A j \in Jobs : status[j] = "ABORTED" => status'[j] # "RUNNING"]_vars
=============================================================================
