# CNaaS-NMS in TLA+

Formal models of CNaaS-NMS (`src/src/cnaas_nms/`), the network management
system of SUNET: what its jobs, its locks and its record of the devices'
configuration do when API workers, the mule, operators and devices act at the
same time and fail in between. Paths below are relative to
`src/src/cnaas_nms/` unless they start with `src/`.

## 1. The system

Several uwsgi **API workers** (`run.py`, `api/`) answer REST calls. One uwsgi
**mule** (`scheduler_mule.py`) runs an APScheduler with a persistent job store
and a pool of ten threads. They share a PostgreSQL database (devices, jobs,
locks, addresses), Redis (settings cache, progress lists, sync history, events)
and two local git clones (settings, templates). Everything long runs as a *job*.

| component | state | operations | interacts through | hard behaviour |
|---|---|---|---|---|
| Job tracker and scheduler (`db/job.py`, `scheduler/`, `scheduler_mule.py`, `api/jobs.py`) | rows of `job`; APScheduler's store and pool; the message queue of the mule | create, send, add, dispatch, run, finish, abort, clean up, shut down | mule messages, rows | a row and a message are two steps; aborts race dispatch and the end of a job; processes die and are started again; misfires |
| Device lock (`db/joblock.py`) | one row per lock | acquire, release, clear | called by syncs, confirm jobs, refreshes, operators, starting processes | clearing under a live owner; release by another job than the owner's; leaks |
| Synchronisation (`devicehandler/sync_devices.py`) | thread of a job; commit timers on devices; `confhash` and `synchronized` | hash check, dry run, push in three commit-confirm modes, confirm job, auto-push, apply_config | device lock, jobs that wait for jobs, device rows | timers race the release of the lock; the confirm job may never run; devices deleted on the way |
| Synchronisation status (`db/device.py`, `devicehandler/sync_history.py`) | `Device.synchronized`, `confhash`, Redis history | marked by syncs, refreshes, API edits, firmware, link discovery | device rows, Redis | edits overtake a sync between its rendering and its marking |
| Repository refresh (`db/git.py`, `db/settings.py`) | the clones' head, working commit in Redis, settings cache | pull, rebuild the cache, fall back, mark devices | device lock, device rows | a refresh that fails after the pull |
| Device initialisation (`devicehandler/init_device.py`, `tools/dhcp_hook.py`) | `Device.state`, addresses | discover, step 1, step 2 with retries, MLAG peers | jobs, address allocation, locks | a device that changes its address under the connection; late results |
| Address allocation (`db/mgmtdomain.py`, `db/reservedip.py`, `devicehandler/underlay.py`, `db/linknet.py`) | addresses in rows, reservations | find free, reserve, clear | rows | two finders choose the same |
| Firmware, certificates, erase, bounce (`devicehandler/firmware.py`, `cert.py`, `erase.py`, `interface_state.py`) | progress of each device | steps per device, abort checks between them | jobs | an abort between two steps |
| Facts, links, neighbours (`devicehandler/update.py`, `db/helper.py`) | linknets, interfaces | discovery, management domain of two cores | rows | both ends report the same link |
| Change score (`devicehandler/changescore.py`) | none | score of a diff | called by a sync | bounds of the score that auto-push compares |
| Settings and templates (`db/settings.py`, `tools/`) | none of its own | validate, merge, render | files, cache | data transformation |
| REST, authentication, plugins (`api/app.py`, `tools/security.py`, `plugins/`) | none of their own | parse, authorise, push events | | |
| Schema and start-up (`db/base.py`, `db/session.py`, `src/alembic/`) | tables | migrate, commit, roll back | | |

What makes them correct:

* **Jobs.** Every job that is created is run at most once and ends in a row that
  tells what happened; a job that will not run is one that was aborted, refused
  or lost with a process or a misfire, never one dropped between two queues.
* **Lock.** One job at a time works on the devices and on what their
  configuration is generated from; the lock is given up when it is done, not
  before the timers it started on devices are over, and not never.
* **Status.** `synchronized` means that the device runs what would be generated
  now; `confhash` is the hash of what CNaaS-NMS itself put there.
* **Refresh.** A commit with errors is not used, and devices whose files
  changed become unsynchronised, whatever failed in between.
* **Initialisation and addresses.** A device is never known by two addresses,
  nor an address given to two devices; a device comes to MANAGED or back to a
  state from which an operator can start again.
* **Links.** A port is the end of one link, a network is used once, and what is
  generated for a switch is what its links say.

## 2. Modules

| module | what it is | state |
|---|---|---|
| `JobLife` | abstract: what a client of the job table is promised of a job | done |
| `JobTracker` | job rows, messages, APScheduler, wrapper, aborts, restarts; implements `JobLife` | done |
| `JobTrackerProofs` | its invariants and the refinement, for every number of jobs, requests, threads and deaths | done |
| `DeviceMutex` | abstract: one job at work, unless locks were cleared | done |
| `SyncDevices` | the clients of the lock in detail; implements `DeviceMutex` | done |
| `SyncDevicesProofs` | its invariants, the refinement, how a lock leaks and what guards a timer | done |
| `RepoRefresh` | the clones, the working commit, the settings cache and the flags of the devices | done |
| `MCRepoRefresh` | its instances: the files and the device | done |
| `RepoRefreshProofs` | the flag and the working commit, for all devices, files, commits and faults | done |
| `DeviceStates` | abstract: the order of a device's states, and when it has an address | done |
| `DeviceLifecycle` | discovery, the two steps of initialisation, deletion and factory default, with the management addresses; implements `DeviceStates` | done |
| `MCDeviceLifecycle` | its instance: symmetry of switches and slots | done |
| `DeviceLifecycleProofs` | types, shared addresses, what INIT is followed by, late discoveries, for any number of devices and jobs | done |
| `DeviceStatesProofs` | what jobs remember of a device, and the refinement, on top of `DeviceLifecycleProofs` | done |
| `Topology` | neighbours, links, interfaces, management domains, and the flag that follows them | done |
| `MCTopology` | its instances: switches, ports, cabling | done |
| `TopologyProofs` | types, networks, ports, and the flag, for any switches and cabling | done |
| `DomainProofs` | the management domain of an access switch, on top of `TopologyProofs` | done |
| `SyncStatus` | the flag, the hash and the events under syncs, upgrades, requests and changes by hand | done |
| `MCSyncStatus` | its instance: the jobs that are asked for | done |
| `SyncStatusProofs` | types, flag, hash alarm, what is overwritten, events, upgrades, for any switches, threads and requests | done |

### JobTracker and JobLife

One row, one creator, one thread state per job. `AddOnetimeJob` / `SendAdd` /
`AddLocalJob` are the two steps of `Scheduler.add_onetime_job` (commit of the
row, hand-over), with the message sent by an API worker or the call a job makes
inside the mule. `AbortRead`, `RemoveScheduledJob`, `FinishAbort` and
`AbortRunning` are the sessions of `JobByIdApi.put` and of
`remove_scheduled_job`. `MuleAdd`, `MuleRemove` and `MuleShutdown` are the
branches of `main_loop`; `MuleAdd` contains `pre_schedule_checks`, and
`MuleRemove` the `JobLookupError` that ends the mule. `StartJob`, `RunFunction`,
`FinishRead`, `FinishSuccess` and `FinishException` are the sessions of
`job_wrapper`: the last one reads the row and commits in two steps, because the
decision between FINISHED and ABORTED is taken on what was read.
`ApiWorkerStarts` is `get_app` with `Job.clear_jobs`, and whatever calls died
with the worker before it.

APScheduler is modelled from how it is used: due jobs leave the store for the
pool (`Submit`), a thread takes them (`TakeJob`), and one that waited longer than
`misfire_grace_time` is dropped. Time is abstract: `late` and `overdue` are sets
of jobs whose five seconds are over, counted by APScheduler and by `clear_jobs`
from different moments; they grow only when something holds the job (`Held`).
The body of a job is one step here; what it does is the other modules' subject.

`JobLife` is what all of this promises to whoever reads the job table. Two
variables per job, where it is in its life (new, asked, working, over) and what
its row says, and seven actions: it is asked for (SCHEDULED), begins (RUNNING),
ends (FINISHED, EXCEPTION or ABORTED), is refused by `pre_schedule_checks`, is
lost without a word, has its row overruled by an operator whatever it is doing,
or has it cleared by a process that starts. `LifeKept` says that `JobTracker`
implements it, with `LifeOf` as the mapping: a job is asked for while anything
still holds it on its way to a thread (`Pending`), and works from the RUNNING
it writes to the row's last write. What the abstract module leaves open is as
telling: it does not say that an aborted job never begins, because the code does
not keep that (see `jobs_abort`), nor that a job whose row was cleared has stopped.

### SyncDevices and DeviceMutex

The three kinds of jobs that take the lock `devices`: `sync_devices` with
`dry_run` false (`pc[j]` walks through check, acquire, insert, push, mark,
rollback, wait), its confirm job (`cpc[j]`) and `refresh_repo`. `AcquireQuery`
and `AcquireInsert` are the query and the insert of `acquire_lock`, which the
unique column makes safe and not the query. `Push` is `push_sync_device` for one
device with its commit timer (`pending[d]`): which outcome leaves a timer
running depends on the confirm mode and on the operating system
(`HoldsAtOnce`). `Mark` is everything from the end of the push to the release,
the roll-back sleep or the scheduling of the confirm job, with the
`NoResultFound` of a device deleted meanwhile. `Released` and
`StatusAfterRelease` are `release_lock`, which raises when the row is gone.
`ApiWorkerStarts`, `MuleRestarts`, `MuleClearsLocks` and `UnlockApi` are
everything that clears locks.

`DeviceMutex` has two variables: the jobs at work and whether a starting process
has cleared the locks. `SyncDevices` maps `configuring` to the syncs between
their lock and their release, confirm job included, and the refreshes inside
their task; `cleared` to `restarts > 0`.

Simplifications, all of them named in the module:

* devices that fail at the start of a push and at its end differ only in the
  timer they leave;
* the sleep of `COMMIT_CONFIRMED_TIMEOUT` and the wait of 300 seconds end after
  the job's own timers: the timers were started earlier and are no longer;
* the wait for a confirm job is longer than its grace period of one second, so
  that when it ends the job was started, dropped or aborted;
* `nr.run` raises as a whole only before it has touched a device;
* `UnlockApi` is used as `src/docs/apiref/jobs.rst:139` asks, after a look at
  the job list that shows no job RUNNING;
* the race of an abort with the dispatch of a job is `JobTracker`'s subject;
  here an aborted confirm job is not run;
* uwsgi starts a dead mule at once, and what it does until it clears the locks
  is `mule = "booting"`;
* dry runs take no lock and are left to the model of the status, as are the
  columns `synchronized` and `confhash`.

### RepoRefresh

Commits are numbered along the history of each remote, `upstream[r]`; what each
changes and what is wrong with its tree is chosen at the start (`history`).
`branch[r]` is what was pulled, `head[r]` what is checked out, `working` the
commit saved in Redis, `cached[d]` the commit that the cached settings of a
device were read from, `conf[d]` what the device's configuration was generated
from. Two configurations differ when a commit that touches the device is in one
and not in the other (`Seen`).

`_refresh_repo_task` is cut where something else can happen: `Pull` (with the
detached head that is put back to the branch, and with the clone made anew when
the URL or the branch changed), `Rebuild` (`rebuild_settings_cache` and the
saving of the commit), `Fallback` (`repo_chekout_working` and the second
rebuild), and `MarkSettings` / `MarkTemplates`, which use `SettingsSyncstatus`
and `TemplateSyncstatus`. `PullFails`, `WorkerDies`, `RedisRestarts` and
`CacheExpires` happen in between, and so do dry runs, which take no lock. A task
that raises ends through `Fail` and marks nothing.

`missed` is a history variable: the devices whose changed files some refresh did
not mark, because it failed after the pull, because it put a head back, or
because it cloned. It guards no action. `FlagIsTrue` is relative to it, and
`RefreshMarks` states what the documentation says without it.

Simplifications: a commit changes one file; every change of a file changes the
configuration of all devices that read it; a sync or a dry run of one device is
one step, and rendering from a broken commit may succeed; a file that belongs to
no known group, template branches with their worktrees, and a clone that fails
(and leaves no repository) are left out, as is everything else that changes a
configuration, which is `SyncStatus`'s subject.

### DeviceLifecycle and DeviceStates

`row[d]` is the row of a device with its reservation, `plant[d]` the address the
device itself answers on (0 for the lease of its DHCP boot), `job[s]` what runs
or waits in a slot. A row has an id, since jobs find their device by id
(`ById`) and a device may be deleted and added again. Each job is cut where the
code commits or talks to a device:

* `DhcpHook` is `tools/dhcp_hook.py`: a new row, or the scheduling of a
  discovery, refused by `PreScheduleCheck` while one waits. `DiscoverStart`,
  `DiscoverFacts`, `DiscoverStore` are the sessions of `discover_device`, the
  last of which does not look at the state again; `DiscoverFails` its retries.
* `StepOneStart` to `StepOneNext` are `init_access_device_step1` and
  `init_fabric_device_step1`: checks, the choice of an address
  (`find_free_mgmt_ip` or the free loopback, with `clean_reservations`), its
  reservation, the settings, the push (`PushBaseManagement`, after which the
  device has moved, has refused, or is not heard of again), and the commit of
  INIT or the roll-back. `InitMlagPeerOnly` is the way in for a pair whose first
  half is managed.
* `StepTwoStart` to `StepTwoStore` are `init_device_step2`: whatever host has
  the address answers (`StepTwoFacts`), its name decides.
* `DeviceInit`, `PutState`, `DeleteDevice`, `FactoryDefault`, `AddFabric` are
  the requests, `EraseTask` and `EraseDelete` the job `device_erase`, `Restart`
  a restart of the server.

The history variables name the known ways in which the properties fail:
`raced` (an address chosen for one device while a job went on with it for
another whose row did not hold it: not stored yet, or its reservation removed),
`twice` and `overlap`
(two first steps, two discoveries of one device at once), `lost` (an address
given up while it was used), `stuck` (an initialisation given up, by its last
retry, a wrong host or a restart). They guard no action, and each property says
that there is no other way.

`DeviceStates` is what the column `state` says to whoever reads the table of
devices, as the comments of `DeviceState` have it. Per device it has the state,
NONE without a row, and the management address: `Boot`, `Discover`, `Initialise`
(which enters the address), `Manage`, `Unmanage`, `Add` by hand and `Remove`,
each from the state before it. The code does not keep that order alone by
checking it: `DiscoverStore` and `StepTwoStore` store a state without looking,
`StepOneCommit` long after it looked, and another row may be there by then. So
the third variable names the devices that had two jobs in the same step at once
(`Hurt`, that is `twice` and `overlap`), which may go to DISCOVERED, INIT and
MANAGED from anywhere. `StatesKept` says that `DeviceLifecycle` implements this,
with `StateOf` and `AddressOf` as the mapping; addresses that are shared or
given up (`raced`, `lost`) do not show in it, since they disturb no state.

Simplifications: one lease per device; infrastructure loopbacks and secondary
addresses go with the management address; neighbours and links, on which the
first step may also fail, are `StepOneRefused` here and `Topology`'s subject; the
delays between attempts are not counted.

### Topology

`cable` is what LLDP would tell, `links` the table `linknet`, `intf` the
`configtype` of the interfaces, `conf[d]` what the running configuration of a
switch says of its links. The first step of an initialisation is followed from
its dry run (`AccessCheck`, `FabricCheck`, with `verify_peer_iftype`,
`deduplicate_linknet_dicts`, `get_uplinks` and `find_mgmtdomain` as operators)
through one action per commit of `update_linknets` (`ReadNeighbours`,
`LinkLookup`, `LinkChoose`, `LinkAdd`) to the push or what fails before it.
`PostLink`, `PutLink`, `DeleteLink`, `PutInterface`, `UpdateInterfaces`,
`DeleteInterfaces` and `DeleteDevice` are the requests, `Recable` an installer.
`SyncRender` and `SyncEnd` are a sync: what it generates is read at its
beginning, the flag is set at its end.

`FindMgmtdomain` is used twice, as in the code: to judge and to choose. For two
uplinks without a domain it returns no domain and does not raise
(`db/helper.py:84`), so the check passes, the links are committed
(`init_device.py:505`), and the job fails afterwards (`ChooseDomain`). The
changelog (`src/docs/changelog/index.rst:109`) says "During ZTP init, don't
update and save linknets unless device can actually proceed with ZTP".

`missed`, `raced`, `crossed` and `moved` are histories like those above: changes
nobody is told of, networks chosen twice, links made at the same time, cables
or links moved by hand during the initialisation.

Simplifications: LLDP sees both ends of a cable; neighbours are taken in the
order of the ports; one sync at a time, of one switch; operators and installers
touch the ports in `Handled` only; the addresses of a switch
and its contact with the server are `DeviceLifecycle`'s subject; a switch is not
deleted while it is initialised here.

### SyncStatus

`wanted[d]` is the revision that would be generated now, `running[d]` what the
switch runs: a content and the form its text has, which an upgrade changes and
which the hash depends on. `pending[d]` is what an unconfirmed commit falls back
to. `confhash[d]`, `synced[d]` and `managed[d]` are columns of the row,
`events[d]` the list in Redis. Actions in the order of the code:

* a sync: `SyncCheckHash`, `AcquireLock`, `PopulateDeviceVars`,
  `PushSyncDevice`, `PostSyncUpdateConfighash`, then `SetFlags` (rows are read,
  events changed in Redis) and `CommitFlags` (rows are stored, after the wait of
  mode 1 when a switch failed). A row that was read with the value it is to get
  is not written (`Flag`). `AutoPush` is the live run after a dry run,
  `ConfirmDevices` the confirm job of mode 2, `RollbackWait` its alternative.
* `ApplyStart`, `PushStaticConfig`, `ApplyDone`: `apply_config`, also reached by
  the restoring of an old configuration.
* an upgrade: each step first looks for an abort (`CheckJobAbortStatus`), an
  aborted one is skipped and the next looks again. `PostFlightCheck` clears hash
  and flag when the version differs from the row's.
* `MarkRead`, `ReadEvents`, `WriteEvents`, `MarkStore`, `MarkFails`: every
  request that changes data the configuration is generated from and marks the
  switch (`api/mgmtdomain.py`, `api/interface.py`, `api/linknet.py`), cut at the
  reading of the row, the reading and writing of the list, and the commit.
* `PutSynchronized`, `PutState`, `PostEvent`, `UpdateFacts`, `Abort`: requests
  and jobs that are one step. `Tamper`: someone logs in to the switch. `Revert`:
  a commit was not confirmed in time.

A job also notes what it found out that is not true any more (`stale`, `late`);
with `tampered`, `altered`, `astray`, `mixed`, `rebooted` and `unmarked` these are
histories that guard nothing and name the known ways in which the flag, the
hash and the events can be wrong. `alarm` and `lost` collect what none of them
explains.

Simplifications: the lock is one variable, taken and given up as `SyncDevices`
shows in detail, and nothing clears it; syncs of a device type or a group are
those of all; the download and the pre-flight check change nothing but may
end an upgrade; a request that takes one session and touches no list is one
step; dry runs of `apply_config` change nothing and are left out.

## 3. What is checked

| run | instance | question and answer |
|---|---|---|
| `jobs_faults` | 2 jobs for one lease, 1 abort, 1 thread, 1 death of the mule, 1 API start | Do jobs get lost, run twice or reported wrongly, and do they end? No invariant fails: every SCHEDULED row is on its way or lost in a known way, results belong to runs, ABORTING resolves, and every step is one of `JobLife`. |
| `jobs_abort` | 2 jobs, 1 abort, 2 threads | Is an aborted scheduled job not started? It is: the row is marked whatever the mule is doing with it (finding). |
| `locks` | 2 syncs in any mode, 1 refresh, 1 device, 1 deletion, 1 restart | Does the lock implement mutual exclusion, and how can it leak? It does until a starting process clears it; it leaks when a confirm job never runs and when a device is deleted in between. |
| `modes` | 2 syncs, 2 devices of which one cannot do mode 2, 1 deletion, fairness | Are timers kept behind the lock, does every sync end and every lock get given up? Yes, but for a confirm job that failed or never ran. |
| `one_sync` | 2 syncs in mode 1, 1 restart | Can two syncs push at once? Yes, after an API worker started (finding). |
| `refresh` | 2 settings commits, 1 template commit, 7 kinds of files, any faults, 1 mishap, 1 core device | Is a flagged device in step with what is generated, and the fall-back good? Yes, but for devices a refresh missed. |
| `repo_errors` | the same without mishaps | Is a settings commit with errors never used? It is, when the error is not one of the three that are caught (finding). |
| `repo_marks` | the same without mishaps | Are all devices marked whose files a refresh changes? Not after a refresh that fell back (finding). |
| `ztp` | 2 switches, 2 jobs at a time, 2 addresses, 3 requests or restarts, 1 switch with two jobs in the same step | Who shares an address, who holds the one a device uses, who is MANAGED, who is left in INIT, who leaves the order of the states? Nobody but in the ways the histories name; every step is one of `DeviceStates`. |
| `topology` | 4 managed switches, 2 new ones initialised once each, 4 ways to cable them, 1 request or moved cable, 2 networks | Is a port the end of one link, a network used once, a domain one that serves the uplinks, and does a synchronized switch run what its links say? Yes, but for links replaced, rolled back, made at the same time or by hand. |
| `status` | 1 switch, 2 threads, 10 kinds of jobs, 3 jobs, requests or changes by hand | Do flag, hash and events say what is so, is nothing overwritten that was changed by hand, and is an upgraded switch marked? Yes, but in the ways the histories name. |
| `session` | 1 sync in mode 2 | Does the sync outlive its confirm job, as its comment says? No: the wait has a timeout (finding). |

Why the bounds are enough. In `JobTracker` every race is between at most two
jobs (the thread they compete for, the lease they share) or between one job and
one abort, one death and one restart; one thread makes misfires happen, and a
second death meets no state the first does not. In `SyncDevices` a lock has one
owner and one that wants it; the third client is there because a refresh
releases in another way. One device shows every order of timer, release and
deletion; the second device is for jobs in which some fail and some do not, and
for a mode 2 job with a device that falls back to mode 1. Two attempts for the
lock stand for five: the first that fails and the last. In `RepoRefresh` devices
do not influence each other, so one is enough; a core device reads every kind of
file, and one file that it does not read is there. Two settings commits are a
broken one and the next; the template repository has no state of its own beyond
its head.

In `DeviceLifecycle` an address is shared by two devices and a device disturbed
by two jobs; three requests are an initialisation of each and a third that
disturbs, or a deletion and another beginning; a row may be added twice, which
is what ids are for. At most one of the two switches has two
discoveries, or two first steps, at once (`OneDisturbed`, a constraint of the
run): the other one, which is not excused, is where harm beyond the device
itself would show. Without the constraint (3.6 million states instead of 1.8),
and with a third slot, one row each and two requests (3.9 million), nothing is
violated either, and the proofs have none of these bounds. Steps are
tried twice in the second step and three times in discovery, as many as there
are first, last and next. In `Topology` the
layouts are one for each rule of `find_mgmtdomain` and `get_uplinks` that
initialisation meets; two switches to be initialised are what a pair and a race
need, and the two ports that are handled by hand are one of a switch to be
initialised and one of a neighbour. In `SyncStatus` switches do not influence each other but through the lock
and the wait of a job, so one is enough; two threads overlap in every way two
jobs can, and three events are two jobs with a request or a change by hand
between them.

These three modules state safety only: initialisation and upgrades end by
attempts that are counted, and what nothing goes on with is what
`InitIsFollowed` and `UpgradeIsMarked` are about.

Fairness. Threads that run, calls in progress, the main loop (it polls),
APScheduler's thread (it polls), device timers and uwsgi's respawning are weakly
fair, each per job. Nothing makes an operator act, a process die, or a grace
period expire. `ConfirmStart` and `ConfirmMisfires` share one fairness condition:
a scheduled confirm job is taken up or dropped, which of the two is open.
`JobsTerminate` and `LockIsReleased` are stated for behaviours without the
disturbances their names list; `SyncsEnd` holds in all.

## 4. What is proved

TLAPS proves, for all values of the constants that satisfy the modules' named
assumptions (finite or infinite sets of jobs, any bounds):

* `JobTrackerProofs`: `TypeCorrect`, `OnePlaceAlways`, `RunOnce`,
  `ScheduledAccounted`, `ResultsAreOfRuns`, `RunningExplained`. The inductive
  invariant is `TypeOK /\ OnePlace`: a job is in exactly one of the message
  queue, the store, the pool and a thread, once, and only after its creator
  handed it over. `NeverRunTwice` follows because a thread is started only from
  the pool, whose jobs have no thread state; the runs check it as a part of
  `LifeKept`, which a job that ran twice would violate. The three facts about
  rows need no more than `OnePlace` and themselves (`RowStep`). The queue is a
  sequence, and `AppendMessage` and `ReadMessage` carry "at most one add message
  per job" through an append and a tail. `JobsImplementLife` is the refinement of
  `JobLife`: `LifeCases` shows that the cases of the mapping do not overlap
  (from `OnePlace`), `KnownStep` that operators act only on jobs that were
  created, and one lemma per group of actions that a step is one of the abstract
  ones or shows nothing (`UnseenStep`, `LosingStep` and `MovedMap` are the three
  ways the mapping can change).
* `SyncDevicesProofs`: `TypeCorrect`, `OwnerAlwaysHolds`, `OneAtWork`,
  `WorkIsAlwaysShown`, `LockImplementsMutex`. `OwnerHolds` alone is not
  inductive: an operator clears a lock when no row says RUNNING, so the proof
  needs that whoever is at work has such a row, `WorkIsShown`, which in turn
  needs to know where a sync is while its confirm job lives. The invariant is
  `TypeOK /\ OwnerHolds /\ WorkIsShown`. For the refinement every step is shown
  to move at most one job into or out of `Configuring`, and into it only when
  the lock was free, hence, by `OwnerHolds`, when nobody was at work; a restart
  maps to `Clear`.
  `LocksLeakKnown` and `TimersKeptGuarded` hold as long as no process restarts
  and no device is deleted, which the proof calls `Quiet`. Their invariant
  `LeftInv` says that a lock belongs to someone in `Configuring` or to a sync
  whose confirm job is lost, that a timer is guarded, and `TimerKnown`: whose
  timer runs on a device, that sync pushed to the device and failed there, or
  pushed in mode 2, or has handed over to its confirm job. It is what makes the
  release at the end of a sync safe: a sync that goes straight to its release
  found no failed device to wait for, and no changed one to confirm.
* `RepoRefreshProofs`: `TypeCorrect`, `FlagsAreTrue`, `WorkingAlwaysGood`,
  `CaughtNeverUsed`. `FlagIsTrue` speaks of the cache, which a refresh clears
  only after the pull, so the invariant has two halves: `FlagFollowsHead`, a
  flagged device runs what is checked out, and `CacheLags`, the cache differs
  from what is checked out only for devices that are missed or still to be
  marked. Both rest on `SeenSame` (commits that do not touch a device make no
  difference to it) and on `AllAreMarked` (what `settings_syncstatus` and
  `template_syncstatus` return covers every device that reads a changed file).
  `CaughtNeverUsed` needs that what is checked out, and what is cached, has no
  such error outside of a rebuild.

* `TopologyProofs`: `TypeCorrect`, `NetworksOnce`, `PortsOnce`,
  `FlagsFollowLinks`. Beside the types two invariants are carried. `LinkInv` is
  about networks and ports at once: `NetOnce` and `PortOnce` say nothing of a
  link that is about to be stored, so `NetHeld` and `PortHeld` say that what a
  job has looked up or chosen is held by no stored link and no other job, but
  for what the histories `raced` and `crossed` name; most steps are quiet, that
  is, they add no link and no plan for one, and one lemma covers them. `SyncInv`
  adds to `SyncedIsGenerated` what a sync that has rendered holds (`SyncHolds`)
  and that a switch under initialisation is not managed (`InitsDiscovered`). The
  cabling is assumed to be symmetric and without loops.
* `DomainProofs`: `DomainsServe`. `DomainFits` relates what was decided long
  before to what is stored now: the domain is chosen from the uplinks that the
  check saw, the links are read again afterwards. `FitInv` connects the two by
  the cables. Every link, and every pair of ports a job is about to link, joins
  two ports that are cabled (`Straight`); the uplinks a job goes on with have
  every distribution switch that is cabled to its switch, or to the other one of
  a pair, at their ends (`UpsKnown`); and a domain, of a job or of a row, serves
  all of those (`DomainFor`). All three are said of switches that nobody has
  moved, and `Ground` is why they last: only `Recable` changes what is joined,
  and it marks every switch whose port it touches. The core of the proof is
  `UpsKnownAtFirst`: whether a link is known from the database or from LLDP, a
  port of an unmoved switch leads to the same place, so that choosing one uplink
  for a port loses no switch above. `FoundServes` goes through the cases of
  `find_mgmtdomain`. It needs that ports and switches are finitely many, since the
  code counts uplinks, and that management domains are given for switches that
  were managed from the start: with a domain on a switch that is initialised as a
  core switch, fails, and comes back as an access switch, a domain stops being
  one of core switches.
* `SyncStatusProofs`: `TypeCorrect`, `FlagIsTrue`, `UpgradesAreMarked`,
  `AlarmsAreTrue`, `NothingIsLost`, `EventsAreTrue`. All rest on `Base`: the
  types, and `StageInv`, which says what a job of each kind knows at each stage
  and that the lock is a job's exactly while the job is at a stage that has it.
  A step is of one job, and what it does to the others is one thing: they age,
  that is, learn which of their findings are old (`OthersAge`). So each invariant
  has a lemma that it survives ageing, a lemma that it survives a step with a
  given effect, and then the effect of every action.
  `FlagIsTrue` needs what a sync is about to claim: `RevInv`, that what a push has
  generated is the newest revision of a switch that is not stale, and `TrueInv`,
  that a job which will set the flag of a switch runs the newest there.
  `UpgradesAreMarked` needs that an upgraded switch without a mark has a job that
  still has the check before it (`CheckInv`). `AlarmsAreTrue` adds `HashInv`: the
  stored hash of a switch that nothing disturbs is the hash of what it runs, and
  so is the copy a job compares with. `NothingIsLost` carries `LostInv`: the copy
  was not taken of what was entered by hand, hence a sync that passed the check
  faces nothing by hand but what came later. `EventsAreTrue` carries `EventInv`,
  which says for every stage of a marking, by a job or by a request, what list
  and flag look like in between.
  Two mistakes of the model were found by these proofs and corrected: the cases in
  which a sync goes on after its push overlapped, which TLC reads in their order
  and the logic leaves open, and what is lost counted content that the stored hash had
  itself been taken of, which no check could notice.

* `DeviceLifecycleProofs`: `TypeCorrect`, `AddressesByRace`,
  `InitAlwaysFollowed`, `FallsBackLate`, `AddressesAlwaysHeld`,
  `ManagedAlwaysThere`. A device claims an address that its row
  holds or that a job goes on with for it; `ClaimInv` extends `SharedOnlyByRace`
  to claims, and only a choice makes a new one. `FollowInv` is `InitIsFollowed`
  with the count of attempts. `LateInv` knows that two discoveries of one device
  at work are in `overlap`, that a discovery alone at work has a device that
  waits in DHCP_BOOT, that a step of initialisation at work has one that does
  not, and, since a row may be deleted and made again, that no job or row has an
  id that was not given out yet. `HeldInv` carries `AddressesHeld` and
  `ManagedIsThere` together. `StageOK` says what a job at work knows at each
  stage: a first step, that its device is DISCOVERED and still has its lease,
  that its address is reserved, that the device has left only for that address; a
  second step, that it has found the device on the row's address; an erasure,
  that the device is in service, or wiped. `FirstOnce` says that a device outside
  of `twice` has one first step at work, which is why nobody else takes its
  reservation away, and a reservation expires only without a job. `ClaimInv` is
  needed where a configuration is pushed to a contact address that another device
  answers on. `HeldInv` was checked by TLC on the instance of `ztp` first.
  `FallsBackLate` proves `FallsBackOnlyLate`, which the run checks as a part of
  `StatesKept`.
* `DeviceStatesProofs`: `RowsImplementStates`, `JobsKnow`, `AddressFromInit`.
  The refinement of `DeviceStates` needs what a job remembers to be so when it
  stores: `ShownInv` says that a first step past its checks has a device that is
  DISCOVERED, that a second step at work has one in INIT, MANAGED or UNMANAGED,
  for all devices outside of `Hurt`, and that a job which goes on with an address
  has one. `HeldInv` says the first two only of devices that no race for an
  address has reached; here they are shown of those as well, so that the abstract
  module need not mention addresses. `JobsFollow` is what most steps do to the
  jobs, `QuietStep` and `DeviceStep` are the two ways in which the table can
  change: not at all, or in the row of one device. A commit finds no other first
  step of its device at work (`FirstOnce`), a discovery no step of initialisation
  (`LateInv`), a new row no job that knows its id (`NewIsUnknown`).
  `AddressFromInit` is then proved of `DeviceStates` alone, and holds of
  `DeviceLifecycle` by the refinement.

Every invariant that a run checks is proved. Only model-checked are `StoreDrains`,
`AbortingResolves`, `JobsTerminate`, `SyncsEnd` and `LockIsReleased`: liveness
under fairness is out of the prover's reach.

## 5. Plan

The election of the process that schedules, and the merging of settings, are the
parts that keep rules of their own and have no module yet.

## 6. Not modelled, and why

Which process schedules (`scheduler/scheduler.py:37`) is decided once at start-up
by a lock file; the models take the mule. The progress list of a job
(`scheduler/wrapper.py:30`) is shown to operators, and no job depends on it. The
change score is a sum over patterns in a text; whether it is low enough for an
automatic push is a choice in `SyncStatus`. `pre_init_check_mlag`
(`init_device.py:294`) filters on the enumeration class and therefore finds
nothing; the count of links to the peer decides instead and is modelled.

REST parsing, authentication, web sockets and plugins keep no protocol state.
Validation, merging and rendering of settings and templates are transformations
of data with no shared state. The schema's migrations run before the system
does. The sequences of device calls inside certificate renewal and interface
bouncing touch nothing shared. Message loss is not in the model: a mule message
is a pipe inside one host, lost only with the caller, which is modelled.

## 7. Further hazards

`PROJECT.json` lists the forty places where it matters most; these are the others
that were met, with the properties that watch them.

| at | what | properties |
|---|---|---|
| `scheduler_mule.py:42` | A second discover job for the same lease is refused only while the first is still in the store. | `ScheduledIsAccounted`, `JobsTerminate` |
| `scheduler_mule.py:124` | A mule that drains its threads still takes local jobs from them, which its scheduler will never run. | `ScheduledIsAccounted` |
| `scheduler_mule.py:73` | The mule starts its scheduler before it clears the locks: a job that starts at once can have its new lock deleted. | `OwnerHolds`, `MutualExclusion` |
| `devicehandler/sync_devices.py:820` | The confirm job gives up the lock although devices it failed to confirm are still about to revert. | `TimersAreGuarded` |
| `devicehandler/sync_devices.py:902` | A run that fails as a whole must not keep its lock. | `LockLeaks`, `LockIsReleased` |
| `devicehandler/sync_devices.py:886` | Five attempts for the lock, then the job must fail and not go on without it. | `OwnerHolds`, `SyncsEnd` |
| `db/git.py:123` | When the lock of a refresh that fails was cleared, release_lock raises, the exception is raised again and the EXCEPTION status is rolled back: the row says RUNNING for ever. | `OwnerHolds` |
| `scheduler/scheduler.py:37` | The process that first locks /tmp/scheduler.lock schedules in its own memory; an API worker that wins before the mule leaves the mule's scheduler without a start. | none: Who schedules is decided once at start-up, between processes of uwsgi: the model takes the mule. |
| `scheduler/wrapper.py:30` | Finished devices are taken off the Redis list before they are stored in the job's row. | none: The progress of a job is shown to operators only; no job depends on it, and it is left out. |
| `db/git.py:256` | After falling back, the settings must be cached from the working commit and not from the one that failed. | `CaughtIsNotUsed`, `FlagIsTrue` |
| `db/git.py:142` | Redis is restarted and knows no working commit, or the repository was cloned anew and does not have it. | `TypeOK`, `CaughtIsNotUsed` |
| `db/git.py:237` | A repository cloned anew counts no file as changed, so that no device is marked. | `FlagIsTrue` |
| `devicehandler/init_device.py:576` | Settings cannot be read with the new name: the job fails after name and reservation were committed. | `AddressesHeld`, `SharedOnlyByRace` |
| `devicehandler/init_device.py:598` | The row is looked up again after the push: the device may have been deleted, and added again with another id. | `ManagedIsThere`, `AddressesHeld` |
| `devicehandler/init_device.py:638` | A restart between the commit of INIT and the scheduling of the second step leaves a device that nothing goes on with. | `InitIsFollowed` |
| `scheduler_mule.py:45` | The check for a discovery of the same device sees those that wait, not one that runs: two run at once and the later one stores DISCOVERED over whatever came after. | `StatesKept` |
| `devicehandler/init_device.py:435` | After the peer of a managed device was scheduled alone, the first step goes on without the row it did not get and fails. | `InitIsFollowed` |
| `devicehandler/init_device.py:825` | The second step is tried a limited number of times; a device that comes up later stays in INIT until an operator asks again. | `InitIsFollowed` |
| `devicehandler/sync_devices.py:960` | A link that is stored between the rendering of a sync and its flag is neither in the configuration nor shown as missing. | `SyncedIsGenerated` |
| `devicehandler/update.py:139` | Interfaces are deleted before they are read again; when nothing is found the device is not marked. | `SyncedIsGenerated` |
| `devicehandler/update.py:346` | No /31 is free: a link within the fabric is stored without a network. | `NetOnce`, `SyncedIsGenerated` |
| `db/linknet.py:20` | The table's keys are per end: a port may be the first end of one link and the second end of another, which only the update looks for. | `PortOnce` |
| `devicehandler/update.py:298` | Two old links touch the ports of a new one: one_or_none raises and the update stops half way. | `PortOnce`, `SyncedIsGenerated` |
| `devicehandler/update.py:305` | The condition for a link that is stored the other way round repeats the one before it: such a link is deleted and made again with another network. | `PortOnce`, `SyncedIsGenerated` |
| `devicehandler/init_device.py:485` | The interfaces of the database are replaced and committed before the neighbours are judged; a refused device has them all the same. | `DomainFits` |
| `devicehandler/init_device.py:723` | The type of a fabric switch is committed before its links are made, and stays when they fail. | `NetOnce`, `PortOnce` |
| `devicehandler/init_device.py:671` | Neighbours must be synchronized when they are checked; they may be marked while the device is configured from them. | `SyncedIsGenerated` |
| `devicehandler/init_device.py:286` | Neighbours are counted by their links: two links to one core switch pass for two neighbours. | none: The count is in FabricFits as the code has it; no document says what else it should be. |
| `devicehandler/init_device.py:299` | pre_init_check_mlag filters on the enumeration class instead of the column: it finds no interface and accepts any peer, unless the update of links says otherwise. | none: AccessFits counts the links to the peer instead, which is what decides; the lookup has no effect to state. |
| `api/interface.py:268` | A request that changes several interfaces stores those that were valid although it answers with an error. | none: PutInterface is a request for one interface; what is stored is marked in the same session. |
| `api/mgmtdomain.py:105` | The event is in Redis before the row is stored; a request that fails in between leaves an event of a change that never was. | `EventsMatchFlag` |
| `devicehandler/sync_devices.py:1058` | A given configuration is pushed without the lock: a sync between the push and the flag sets the flag over it, or is overwritten. | `SyncedIsTrue`, `NothingLost` |
| `devicehandler/sync_devices.py:874` | Switches whose hash does not fit are marked without an event, and those that could not be reached are marked the same way. | `EventsMatchFlag`, `AlarmIsTrue` |
| `devicehandler/sync_devices.py:970` | Events are removed before a wait of minutes, the flags are stored after it: whatever is marked in between is overwritten. | `EventsMatchFlag`, `SyncedIsTrue` |
| `devicehandler/sync_devices.py:694` | A change by hand between a push and the reading of its hash is hashed with it and never reported. | `AlarmIsTrue`, `NothingLost` |
| `devicehandler/sync_devices.py:404` | A forced dry run stores the hash of a configuration that is not confirmed yet. | `AlarmIsTrue` |
| `devicehandler/firmware.py:79` | An abort during the wait after the reboot skips the post-flight check of a switch that runs the new image. | `UpgradeIsMarked` |
| `devicehandler/sync_devices.py:1093` | apply_config marks the switch UNMANAGED whether or not the push worked, since a failed run does not raise. | `EventsMatchFlag`, `SyncedIsTrue` |
| `api/device.py:1056` | Restoring an old configuration starts a live run of apply_config that ALLOW_APPLY_CONFIG_LIVERUN does not guard. | none: Which configuration is applied makes no difference to the model; whether it may be is a setting that is checked in the other request only. |
| `db/device.py:366` | A switch that is UNMANAGED is set UNMANAGED again: its events are removed and none is added. | `EventsMatchFlag` |
