----------------------------- MODULE SyncStatus -----------------------------
(***************************************************************************)
(* What the server believes of a switch: the flag "synchronized", the hash *)
(* of the configuration that was last pushed, and the events that say why  *)
(* the switch is not synchronized. The flag and the hash are columns of    *)
(* the row in PostgreSQL, the events a list in Redis that is read, changed *)
(* and written back; jobs that synchronize, apply or upgrade and requests  *)
(* of the API change them at the same time. A row that was read is stored  *)
(* back only where its value was changed, so an old value can win.         *)
(*                                                                         *)
(* The lock and the timers of the sync jobs are modelled in SyncDevices,   *)
(* which devices a refresh marks in RepoRefresh.                           *)
(***************************************************************************)
EXTENDS Naturals, FiniteSets

CONSTANTS Devices,
          Jobs,         \* threads that run jobs
          Requests,     \* bound: the jobs that are asked for
          MaxRev,       \* bound: how often settings or data change
          MaxEvents,    \* bound: jobs, requests and tampering
          Static,       \* content of a configuration that was applied as it is
          Alien,        \* content that someone entered on the switch
          None

ASSUME NoneAssumption == None \notin Devices \cup Jobs
ASSUME ContentAssumption == {Static, Alien} \cap Nat = {} /\ Static # Alien
ASSUME RevAssumption == MaxRev \in Nat /\ MaxEvents \in Nat
ASSUME RequestsAssumption ==
  Requests \subseteq [kind: {"sync", "apply", "upgrade"}, by: Devices \cup {"all"}, dry: BOOLEAN,
                     force: BOOLEAN, resync: BOOLEAN, auto: BOOLEAN, mode: 0..2,
                     steps: SUBSET {"download", "activate", "reboot", "post"}]
\* A configuration is applied to one switch; the switches of an upgrade have a thread
\* each, and without steps it does nothing.
ASSUME KindsAssumption ==
  /\ "all" \notin Devices
  /\ \A r \in Requests : r.kind # "sync" => r.by \in Devices
  /\ \A r \in Requests : r.kind = "upgrade" => r.steps # {}

VARIABLES wanted,       \* revision of the configuration that would be generated now
          running,      \* configuration of the switch: its content and how its text is put
          pending,      \* configuration that an unconfirmed commit falls back to
          confhash,     \* configuration whose hash is stored
          synced,       \* flag synchronized
          events,       \* causes in the list of sync events
          managed,      \* state is MANAGED, and not UNMANAGED
          boot, os, dbos,   \* OS to boot, OS that runs, os_version of the row
          lock,         \* job that holds the lock "devices"
          job,          \* the job of each thread
          marker,       \* request of the API that marks a switch as not synchronized
          used,
          tampered,     \* history: altered outside of NMS, and no hash covers it
          altered,      \* history: changed by NMS without a new hash
          astray,       \* history: flagged on what was true earlier
          mixed,        \* history: flag and events were changed at the same time
          rebooted, unmarked,   \* history: booted another OS; its check is known not to tell
          alarm, lost   \* history: unexplained alarms; changes overwritten unexpectedly

config == <<wanted, running, pending>>
belief == <<confhash, synced, events, managed>>
image == <<boot, os, dbos>>
hist == <<tampered, altered, astray, mixed, rebooted, unmarked, alarm, lost>>
vars == <<config, belief, image, lock, job, marker, used, hist>>

Revs == 0..MaxRev \cup {Static, Alien}
Configs == [rev: Revs, form: 0..1]
ASSUME ConfigsAssumption == None \notin Configs
Causes == {"marked", "dryrun", "confirm", "apply", "upgrade", "unmanaged", "posted"}
Order == <<"download", "activate", "reboot", "post">>
Places == {"hash", "lock", "render", "push", "hashes", "flag", "commit", "confirm", "rollback",
           "apply", "applied"} \cup {Order[k] : k \in 1..4}
Idle == [at |-> "idle"]
Running(j) == job[j] # Idle
At(j, at) == Running(j) /\ job[j].at = at

Asked == [kind: {"sync", "apply", "upgrade"}, by: Devices \cup {"all"}, dry: BOOLEAN,
          force: BOOLEAN, resync: BOOLEAN, auto: BOOLEAN, mode: 0..2,
          steps: SUBSET {Order[k] : k \in 1..4}]
JobOf(hosts) ==
  [r: Asked, at: Places, hosts: {hosts}, stored: [hosts -> Configs \cup {None}], blank: SUBSET hosts,
   conf: [hosts -> 0..MaxRev], yes: SUBSET hosts, no: SUBSET hosts, changed: SUBSET hosts,
   failed: SUBSET hosts, snap: [hosts -> BOOLEAN], confirmed: BOOLEAN,
   stale: SUBSET hosts, late: SUBSET hosts, go: BOOLEAN, aborted: BOOLEAN]

RowsTyped ==
  /\ wanted \in [Devices -> 0..MaxRev] /\ running \in [Devices -> Configs]
  /\ pending \in [Devices -> Configs \cup {None}] /\ confhash \in [Devices -> Configs \cup {None}]
  /\ synced \in [Devices -> BOOLEAN] /\ events \in [Devices -> SUBSET Causes]
  /\ managed \in [Devices -> BOOLEAN]
  /\ boot \in [Devices -> {"old", "new"}] /\ os \in [Devices -> {"old", "new"}]
  /\ dbos \in [Devices -> {"old", "new"}]
HistTyped ==
  /\ tampered \subseteq Devices /\ altered \subseteq Devices /\ astray \subseteq Devices
  /\ mixed \subseteq Devices /\ rebooted \subseteq Devices /\ unmarked \subseteq Devices
  /\ alarm \subseteq Devices /\ lost \subseteq Devices
JobTyped(x) ==
  x # Idle => x.hosts \subseteq Devices /\ x \in JobOf(x.hosts) /\ x.yes \cap x.no = {}
TypeOK ==
  /\ RowsTyped /\ HistTyped
  /\ job = [j \in Jobs |-> job[j]] /\ \A j \in Jobs : JobTyped(job[j])
  /\ lock \in Jobs \cup {None}
  /\ lock # None => Running(lock) /\ job[lock].r.kind = "sync" /\ ~job[lock].r.dry
  /\ marker \in [at: {"row", "list", "store"}, dev: Devices, snap: BOOLEAN, list: SUBSET Causes] \cup {Idle}
  /\ used \in 0..MaxEvents

Init ==
  /\ wanted = [d \in Devices |-> 0]
  /\ running = [d \in Devices |-> [rev |-> 0, form |-> 0]]
  /\ pending = [d \in Devices |-> None]
  /\ confhash = [d \in Devices |-> [rev |-> 0, form |-> 0]]
  /\ synced = [d \in Devices |-> TRUE]
  /\ events = [d \in Devices |-> {}]
  /\ managed = [d \in Devices |-> TRUE]
  /\ boot = [d \in Devices |-> "old"] /\ os = boot /\ dbos = boot
  /\ lock = None /\ job = [j \in Jobs |-> Idle] /\ marker = Idle /\ used = 0
  /\ tampered = {} /\ altered = {} /\ astray = {} /\ mixed = {}
  /\ rebooted = {} /\ unmarked = {} /\ alarm = {} /\ lost = {}

(***************************************************************************)
(* Jobs and what they select.                                              *)
(***************************************************************************)
Request == used < MaxEvents /\ used' = used + 1
Go(j, at) == job' = [job EXCEPT ![j].at = at]
End(j) == job' = [job EXCEPT ![j] = Idle]

\* What other jobs found out about the switches ds is not true any more.
Old(ds, except) ==
  [i \in Jobs |-> IF ~Running(i) \/ i = except THEN job[i]
                  ELSE [job[i] EXCEPT !.stale = @ \cup (ds \cap job[i].hosts)]]
\* The switch itself was altered since they looked.
Altered(d) ==
  [i \in Jobs |-> IF ~Running(i) THEN job[i]
                  ELSE [job[i] EXCEPT !.stale = @ \cup ({d} \cap job[i].hosts),
                                      !.late = @ \cup ({d} \cap job[i].hosts)]]

\* One switch by its name, or all: those that are not synchronized, or with
\* resync every one.
Selected(r) ==
  IF r.by # "all" THEN {r.by} \cap {d \in Devices : managed[d]}
  ELSE {d \in Devices : managed[d] /\ (r.resync \/ ~synced[d])}

NoHash(r, d) == None
StoredHash(r, d) == IF r.force THEN None ELSE confhash[d]

Start(r, at) ==
  LET hosts == Selected(r) IN
  [r |-> r, at |-> at, hosts |-> hosts, stored |-> [d \in hosts |-> StoredHash(r, d)],
   blank |-> {d \in hosts : confhash[d] = None}, conf |-> [d \in hosts |-> wanted[d]],
   yes |-> {}, no |-> {}, changed |-> {}, failed |-> {}, snap |-> [d \in hosts |-> FALSE],
   confirmed |-> FALSE, stale |-> {}, late |-> {}, go |-> FALSE, aborted |-> FALSE]
Take(j, r, at) == ~Running(j) /\ Request /\ job' = [job EXCEPT ![j] = Start(r, at)]

(***************************************************************************)
(* A sync: the check of the hash, the lock, the push.                      *)
(***************************************************************************)
SyncStart(j, r) ==
  /\ r.kind = "sync" /\ Take(j, r, "hash")
  /\ UNCHANGED <<config, belief, image, lock, marker, hist>>

Updating(d, j) ==
  \E i \in Jobs \ {j} : At(i, "hashes") /\ d \in job[i].hosts /\ ~job[i].r.dry
Upgrading(d) == \E i \in Jobs : Running(i) /\ job[i].r.kind = "upgrade" /\ d \in job[i].hosts
Excused(d, j) ==
  \/ d \in tampered \cup altered \cup job[j].stale \cup unmarked
  \/ pending[d] # None \/ Updating(d, j) \/ Upgrading(d)

\* Switches that cannot be reached fail like those that were altered. They are
\* marked without an event, and the job ends before any is changed.
SyncCheckHash(j) ==
  /\ At(j, "hash")
  /\ LET read == {d \in job[j].hosts : job[j].stored[d] # None}
         other == {d \in read : job[j].stored[d] # running[d]} IN
     \E unreachable \in {{}, read} :
       LET bad == other \cup unreachable IN
       IF bad = {}
       THEN Go(j, IF job[j].r.dry THEN "render" ELSE "lock") /\ UNCHANGED <<synced, alarm, mixed>>
       ELSE /\ End(j)
            /\ synced' = [d \in Devices |-> synced[d] /\ d \notin bad]
            /\ mixed' = mixed \cup bad
            /\ alarm' = alarm \cup {d \in other \ unreachable : ~Excused(d, j)}
  /\ UNCHANGED <<config, confhash, events, managed, image, lock, marker, used,
                 tampered, altered, astray, rebooted, unmarked, lost>>

AcquireLock(j) ==
  /\ At(j, "lock")
  /\ IF lock = None THEN lock' = j /\ Go(j, "render") ELSE lock' = lock /\ End(j)
  /\ UNCHANGED <<config, belief, image, marker, used, hist>>

PopulateDeviceVars(j) ==
  /\ At(j, "render")
  /\ job' = [job EXCEPT ![j].at = "push", ![j].stale = {},
                        ![j].conf = [d \in job[j].hosts |-> wanted[d]]]
  /\ UNCHANGED <<config, belief, image, lock, marker, used, hist>>

EvenFailed(j, changed, unchanged) == job[j].hosts \ (IF job[j].r.dry THEN changed ELSE {})
\* Switches that are shown as synchronized after the push, or after the confirm job.
Synchronized(j, changed, unchanged) ==
  IF job[j].r.dry \/ job[j].r.mode = 2 THEN unchanged ELSE changed \cup unchanged

\* A push that fails may have taken effect: for good in mode 0, until the timer
\* runs out in the others. In mode 2 every commit waits for the confirm job.
PushSyncDevice(j) ==
  /\ At(j, "push")
  /\ \E failed \in SUBSET job[j].hosts : \E took \in SUBSET failed :
       LET r == job[j].r
           new == [d \in job[j].hosts |-> [rev |-> job[j].conf[d], form |-> running[d].form]]
           differ == {d \in job[j].hosts : new[d] # running[d]}
           changed == differ \ failed
           unchanged == job[j].hosts \ (failed \cup differ)
           written == IF r.dry THEN {} ELSE changed \cup took
           kept == IF r.mode = 2 THEN written ELSE IF r.mode = 1 THEN took ELSE {}
           alien == {d \in written : /\ running[d].rev = Alien
                                     /\ confhash[d] # None /\ confhash[d].rev # Alien} IN
       /\ took \subseteq (IF r.dry THEN {} ELSE differ)
       /\ running' = [d \in Devices |-> IF d \in written THEN new[d] ELSE running[d]]
       /\ pending' = [d \in Devices |-> IF d \in kept THEN running[d] ELSE pending[d]]
       /\ events' = [d \in Devices |-> IF r.mode = 2 /\ d \in took THEN events[d] \cup {"confirm"} ELSE events[d]]
       /\ mixed' = mixed \cup (IF r.mode = 2 THEN took ELSE {})
       /\ altered' = altered \cup (took \ kept)
       /\ lost' = lost \cup (IF r.force THEN {} ELSE alien \ (job[j].blank \cup job[j].late))
       /\ job' = [Old(written, j) EXCEPT
                    ![j].at = IF r.mode = 2 THEN "flag" ELSE "hashes",
                    ![j].changed = changed, ![j].failed = failed,
                    ![j].yes = Synchronized(j, changed, unchanged),
                    ![j].no = IF r.dry THEN changed ELSE {}]
  /\ UNCHANGED <<wanted, confhash, synced, managed, image, lock, marker, used,
                 tampered, astray, rebooted, unmarked, alarm>>

\* Nothing confirmed the commit in time.
Revert(d) ==
  /\ pending[d] # None
  /\ running' = [running EXCEPT ![d] = pending[d]]
  /\ pending' = [pending EXCEPT ![d] = None]
  /\ job' = Altered(d)
  /\ altered' = IF confhash[d] \in {None, pending[d]} THEN altered ELSE altered \cup {d}
  /\ astray' = astray \cup {d}
  /\ UNCHANGED <<wanted, belief, image, lock, marker, used,
                 tampered, mixed, rebooted, unmarked, alarm, lost>>

HashUnchanged(j) ==
  IF job[j].r.dry /\ ~job[j].r.force THEN {} ELSE job[j].hosts \ (job[j].changed \cup job[j].failed)
\* Those that were changed, and in a forced dry run those without a difference.
HashTargets(j) ==
  LET unchanged == job[j].hosts \ (job[j].changed \cup job[j].failed) IN
  IF ~job[j].r.dry THEN job[j].changed ELSE IF job[j].r.force THEN unchanged ELSE {}
StoreHash(j, targets, got) ==
  /\ confhash' = [d \in Devices |-> IF d \in got THEN running[d] ELSE confhash[d]]
  /\ tampered' = tampered \ got
  /\ altered' = (altered \ got) \cup (IF job[j].r.dry THEN {} ELSE targets \ got)

PostSyncUpdateConfighash(j) ==
  /\ At(j, "hashes")
  /\ \E got \in SUBSET HashTargets(j) :
       /\ StoreHash(j, HashTargets(j), got)
       /\ job' = [Old(got, j) EXCEPT ![j].at = "flag"]
  /\ UNCHANGED <<config, synced, events, managed, image, lock, marker, used,
                 astray, mixed, rebooted, unmarked, alarm, lost>>

(***************************************************************************)
(* The flags: rows are read and events removed or added first; the rows    *)
(* are stored later, after a wait when a commit failed in mode 1.          *)
(***************************************************************************)
Told(j) ==
  IF job[j].r.dry THEN {d \in job[j].no : synced[d]} ELSE job[j].no
ClearedIfPushed(j) == IF job[j].r.dry THEN {} ELSE job[j].yes
Cleared(j) == job[j].yes

\* Switches whose flag or events others are changing.
Between(ds, j) ==
  {d \in ds : \/ marker # Idle /\ marker.dev = d
              \/ \E i \in Jobs \ {j} : At(i, "commit") /\ d \in job[i].hosts}
Mix(ds, j) == mixed' = (mixed \ ds) \cup Between(ds, j)

SetFlags(j) ==
  /\ At(j, "flag")
  /\ LET no == Told(j)
         cause == IF job[j].r.dry THEN "dryrun" ELSE "confirm" IN
     /\ events' = [d \in Devices |-> IF d \in Cleared(j) THEN {}
                                     ELSE IF d \in no THEN events[d] \cup {cause} ELSE events[d]]
     /\ job' = [job EXCEPT ![j].at = "commit", ![j].no = no,
                           ![j].snap = [d \in job[j].hosts |-> synced[d]]]
     /\ Mix(job[j].yes \cup no, j)
  /\ UNCHANGED <<config, confhash, synced, managed, image, lock, marker, used,
                 tampered, altered, astray, rebooted, unmarked, alarm, lost>>

\* A flag that was read with the same value is not written.
Flag(j, d) ==
  IF d \in job[j].yes /\ ~job[j].snap[d] THEN TRUE
  ELSE IF d \in job[j].no /\ job[j].snap[d] THEN FALSE ELSE synced[d]

\* A live job in mode 2 keeps the lock for its confirm job, or for its wait
\* when a push failed.
Confirming(j) == ~job[j].r.dry /\ job[j].r.mode = 2 /\ ~job[j].confirmed
UnlocksPlain(j) == ~Confirming(j)
Unlocks(j) == Confirming(j) => job[j].failed = {} /\ job[j].changed = {}
AutoPush(j) ==
  /\ job[j].r.auto /\ job[j].r.dry /\ job[j].r.by # "all" /\ job[j].changed # {}
  /\ job' = [job EXCEPT ![j] = Start([job[j].r EXCEPT !.dry = FALSE, !.auto = FALSE,
                                                      !.resync = FALSE, !.mode = 1], "hash")]
Proceed(j) ==
  \/ ~Confirming(j) /\ (End(j) \/ AutoPush(j))
  \/ /\ Confirming(j)
     /\ \/ job[j].failed # {} /\ Go(j, "rollback")
        \/ job[j].failed = {} /\ job[j].changed # {} /\ Go(j, "confirm")
        \/ job[j].failed = {} /\ job[j].changed = {} /\ End(j)

\* The wait is as long as that of the switches.
Waited(j) == \A d \in job[j].failed : pending[d] = None
CommitFlags(j) ==
  /\ At(j, "commit")
  /\ (~job[j].r.dry /\ job[j].r.mode = 1) => Waited(j)
  /\ synced' = [d \in Devices |-> Flag(j, d)]
  /\ confhash' = [d \in Devices |-> IF job[j].confirmed /\ d \in job[j].no THEN None ELSE confhash[d]]
  /\ lock' = IF Unlocks(j) /\ lock = j THEN None ELSE lock
  /\ Proceed(j)
  /\ astray' = (astray \ job[j].yes) \cup (job[j].yes \cap job[j].stale)
  /\ UNCHANGED <<config, events, managed, image, marker, used,
                 tampered, altered, mixed, rebooted, unmarked, alarm, lost>>

\* All switches fall back by themselves.
RollbackWait(j) ==
  /\ At(j, "rollback") /\ \A d \in job[j].hosts : pending[d] = None
  /\ End(j) /\ lock' = IF lock = j THEN None ELSE lock
  /\ UNCHANGED <<config, belief, image, marker, used, hist>>

\* The confirm job; switches that are not managed any more are left out.
ConfirmDevices(j) ==
  /\ At(j, "confirm")
  /\ LET hosts == {d \in job[j].changed : managed[d]} IN
     \E ok \in SUBSET {d \in hosts : pending[d] # None} : \E got \in SUBSET ok :
       /\ pending' = [d \in Devices |-> IF d \in ok THEN None ELSE pending[d]]
       /\ StoreHash(j, ok, got)
       /\ job' = [Old(got, j) EXCEPT ![j].at = "flag", ![j].confirmed = TRUE,
                                     ![j].yes = ok, ![j].no = hosts \ ok]
  /\ UNCHANGED <<wanted, running, synced, events, managed, image, lock, marker, used,
                 astray, mixed, rebooted, unmarked, alarm, lost>>

(***************************************************************************)
(* A given configuration is applied, without the lock and the templates.   *)
(***************************************************************************)
ApplyStart(j, r) ==
  /\ r.kind = "apply" /\ ~r.dry /\ Take(j, r, "apply")
  /\ UNCHANGED <<config, belief, image, lock, marker, hist>>

PushStaticConfig(j) ==
  /\ At(j, "apply")
  /\ \E done \in {{}, job[j].hosts} :
       /\ running' = [d \in Devices |-> IF d \in done THEN [running[d] EXCEPT !.rev = Static] ELSE running[d]]
       /\ job' = [Old(done, j) EXCEPT ![j].at = "applied"]
       /\ altered' = altered \cup done /\ astray' = astray \cup done
  /\ UNCHANGED <<wanted, pending, belief, image, lock, marker, used,
                 tampered, mixed, rebooted, unmarked, alarm, lost>>

\* Also when the push failed.
ApplyDone(j) ==
  /\ At(j, "applied")
  /\ LET d == job[j].r.by IN
     /\ managed' = [managed EXCEPT ![d] = FALSE]
     /\ synced' = [synced EXCEPT ![d] = FALSE]
     /\ events' = [events EXCEPT ![d] = @ \cup {"apply"}]
     /\ Mix({d}, j)
  /\ End(j)
  /\ UNCHANGED <<config, confhash, image, lock, marker, used,
                 tampered, altered, astray, rebooted, unmarked, alarm, lost>>

(***************************************************************************)
(* An upgrade: its steps each look for an abort first, and are skipped.    *)
(***************************************************************************)
Later(j) ==
  LET at == CHOOSE k \in 1..4 : Order[k] = job[j].at
  IN  {k \in (at + 1)..4 : Order[k] \in job[j].r.steps}
NextStep(jobs, j) ==
  job' = [jobs EXCEPT ![j] = IF Later(j) = {} THEN Idle ELSE
            [@ EXCEPT !.at = Order[CHOOSE k \in Later(j) : \A l \in Later(j) : k <= l], !.go = FALSE]]

UpgradeStart(j, r) ==
  /\ r.kind = "upgrade" /\ Selected(r) # {}
  /\ Take(j, r, Order[CHOOSE k \in 1..4 : /\ Order[k] \in r.steps
                                           /\ \A l \in 1..(k - 1) : Order[l] \notin r.steps])
  /\ UNCHANGED <<config, belief, image, lock, marker, hist>>

Step(j, s) == At(j, s) /\ job[j].go
CheckJobAbortStatus(j) ==
  /\ Running(j) /\ job[j].r.kind = "upgrade" /\ ~job[j].go
  /\ IF job[j].aborted THEN NextStep(job, j) ELSE job' = [job EXCEPT ![j].go = TRUE]
  /\ unmarked' = IF job[j].aborted /\ job[j].at = "post" THEN unmarked \cup (rebooted \cap job[j].hosts) ELSE unmarked
  /\ UNCHANGED <<config, belief, image, lock, marker, used,
                 tampered, altered, astray, mixed, rebooted, alarm, lost>>

FirmwareDownload(j) ==
  /\ Step(j, "download")
  /\ NextStep(job, j) \/ End(j)
  /\ UNCHANGED <<config, belief, image, lock, marker, used, hist>>

\* An image that is already active ends the upgrade.
FirmwareActivate(j) ==
  /\ Step(j, "activate")
  /\ LET d == job[j].r.by IN
     \/ /\ boot[d] = "old" /\ boot' = [boot EXCEPT ![d] = "new"]
        /\ NextStep(job, j)
     \/ boot' = boot /\ End(j)
  /\ UNCHANGED <<config, belief, os, dbos, lock, marker, used, hist>>

\* A reboot that fails is not noticed. Another OS writes the configuration in
\* another way.
DeviceReboot(j) ==
  /\ Step(j, "reboot")
  /\ LET d == job[j].r.by IN
     \E done \in BOOLEAN :
       LET other == done /\ os[d] # boot[d] IN
       /\ os' = IF done THEN [os EXCEPT ![d] = boot[d]] ELSE os
       /\ running' = IF other THEN [running EXCEPT ![d].form = 1 - @] ELSE running
       /\ rebooted' = IF other THEN rebooted \cup {d} ELSE rebooted
       /\ unmarked' = IF other /\ "post" \notin job[j].r.steps THEN unmarked \cup {d} ELSE unmarked
       /\ NextStep(IF other THEN Old({d}, j) ELSE job, j)
  /\ UNCHANGED <<wanted, pending, belief, boot, dbos, lock, marker, used,
                 tampered, altered, astray, mixed, alarm, lost>>

KeptHash(d) == confhash[d]
UpgradedHash(d) == None

\* An upgrade whose version the row already has is taken to have failed.
PostFlightCheck(j) ==
  /\ Step(j, "post")
  /\ LET d == job[j].r.by IN
     \/ /\ os[d] # dbos[d]
        /\ dbos' = [dbos EXCEPT ![d] = os[d]]
        /\ confhash' = [confhash EXCEPT ![d] = UpgradedHash(d)]
        /\ synced' = [synced EXCEPT ![d] = FALSE]
        /\ events' = [events EXCEPT ![d] = @ \cup {"upgrade"}]
        /\ Mix({d}, j)
        /\ rebooted' = rebooted \ {e \in {d} : confhash'[e] = None}
        /\ unmarked' = unmarked \ {e \in {d} : confhash'[e] = None}
        /\ job' = [Old({d}, j) EXCEPT ![j] = Idle]
     \/ /\ unmarked' = unmarked \cup (rebooted \cap {d})
        /\ UNCHANGED <<dbos, confhash, synced, events, mixed, rebooted>>
        /\ End(j)
  /\ UNCHANGED <<config, managed, boot, os, lock, marker, used, tampered, altered, astray, alarm, lost>>

(***************************************************************************)
(* Requests.                                                               *)
(***************************************************************************)
Abort(j) ==
  /\ Request /\ Running(j) /\ job[j].r.kind = "upgrade" /\ ~job[j].aborted
  /\ job' = [job EXCEPT ![j].aborted = TRUE]
  /\ UNCHANGED <<config, belief, image, lock, marker, hist>>

UpdateFacts(d) ==
  /\ Request /\ dbos[d] # os[d]
  /\ dbos' = [dbos EXCEPT ![d] = os[d]]
  /\ unmarked' = unmarked \cup ({d} \cap rebooted)
  /\ UNCHANGED <<config, belief, boot, os, lock, job, marker,
                 tampered, altered, astray, mixed, rebooted, alarm, lost>>

\* A change of data that the configuration is generated from: the row is read,
\* the list of events read and written, and row and data stored at the end.
MarkRead(d) ==
  /\ Request /\ marker = Idle /\ wanted[d] < MaxRev
  /\ marker' = [at |-> "row", dev |-> d, snap |-> synced[d], list |-> {}]
  /\ mixed' = mixed \cup {e \in {d} : \E i \in Jobs : At(i, "commit") /\ e \in job[i].hosts}
  /\ UNCHANGED <<config, belief, image, lock, job,
                 tampered, altered, astray, rebooted, unmarked, alarm, lost>>

ReadEvents ==
  /\ marker # Idle /\ marker.at = "row"
  /\ marker' = [marker EXCEPT !.at = "list", !.list = events[marker.dev]]
  /\ UNCHANGED <<config, belief, image, lock, job, used, hist>>

WriteEvents ==
  /\ marker # Idle /\ marker.at = "list"
  /\ events' = [events EXCEPT ![marker.dev] = marker.list \cup {"marked"}]
  /\ marker' = [marker EXCEPT !.at = "store"]
  /\ UNCHANGED <<config, confhash, synced, managed, image, lock, job, used, hist>>

MarkStore ==
  /\ marker # Idle /\ marker.at = "store"
  /\ LET d == marker.dev
         hidden == {e \in {d} : synced[e] /\ ~marker.snap} IN
     /\ wanted' = [wanted EXCEPT ![d] = @ + 1]
     /\ synced' = [synced EXCEPT ![d] = @ /\ ~marker.snap]
     /\ job' = Old({d}, None)
     /\ astray' = astray \cup hidden
     /\ mixed' = mixed \cup hidden
  /\ marker' = Idle
  /\ UNCHANGED <<running, pending, confhash, events, managed, image, lock, used,
                 tampered, altered, rebooted, unmarked, alarm, lost>>

\* The request fails after the event was written.
MarkFails ==
  /\ marker # Idle /\ marker.at = "store"
  /\ marker' = Idle /\ mixed' = mixed \cup {marker.dev}
  /\ UNCHANGED <<config, belief, image, lock, job, used,
                 tampered, altered, astray, rebooted, unmarked, alarm, lost>>

PutSynchronized(d, value) ==
  /\ Request /\ synced[d] # value
  /\ synced' = [synced EXCEPT ![d] = value]
  /\ events' = IF value THEN [events EXCEPT ![d] = {}] ELSE events
  /\ astray' = astray \cup {d}
  /\ IF value THEN Mix({d}, None) ELSE mixed' = mixed \cup {d}
  /\ UNCHANGED <<config, confhash, managed, image, lock, job, marker,
                 tampered, altered, rebooted, unmarked, alarm, lost>>

\* Of a switch that is UNMANAGED already the events are removed all the same.
PutState(d, value) ==
  /\ Request /\ ~(value /\ managed[d])
  /\ managed' = [managed EXCEPT ![d] = value]
  /\ IF value
     THEN UNCHANGED <<synced, events, mixed>>
     ELSE /\ synced' = [synced EXCEPT ![d] = FALSE]
          /\ events' = [events EXCEPT ![d] = IF managed[d] THEN {"unmanaged"} ELSE {}]
          /\ IF managed[d] THEN Mix({d}, None) ELSE mixed' = mixed \cup {d}
  /\ UNCHANGED <<config, confhash, image, lock, job, marker,
                 tampered, altered, astray, rebooted, unmarked, alarm, lost>>

\* An event that a client adds does not change the flag.
PostEvent(d) ==
  /\ Request
  /\ events' = [events EXCEPT ![d] = @ \cup {"posted"}]
  /\ mixed' = IF synced[d] THEN mixed \cup {d} ELSE mixed \cup Between({d}, None)
  /\ UNCHANGED <<config, confhash, synced, managed, image, lock, job, marker,
                 tampered, altered, astray, rebooted, unmarked, alarm, lost>>

\* Someone logs in to the switch: what it does changes, or only how it is put.
Tamper(d) ==
  /\ Request
  /\ \E new \in {[running[d] EXCEPT !.rev = Alien], [running[d] EXCEPT !.form = 1 - @]} :
       new # running[d] /\ running' = [running EXCEPT ![d] = new]
  /\ job' = Altered(d)
  /\ tampered' = tampered \cup {d} /\ astray' = astray \cup {d}
  /\ UNCHANGED <<wanted, pending, belief, image, lock, marker,
                 altered, mixed, rebooted, unmarked, alarm, lost>>

Sync(j) ==
  \/ SyncCheckHash(j) \/ AcquireLock(j) \/ PopulateDeviceVars(j) \/ PushSyncDevice(j)
  \/ PostSyncUpdateConfighash(j) \/ SetFlags(j) \/ CommitFlags(j) \/ RollbackWait(j) \/ ConfirmDevices(j)
Upgrade(j) ==
  \/ CheckJobAbortStatus(j) \/ FirmwareDownload(j) \/ FirmwareActivate(j)
  \/ DeviceReboot(j) \/ PostFlightCheck(j)

Next ==
  \/ \E j \in Jobs : \/ \E r \in Requests : SyncStart(j, r) \/ ApplyStart(j, r) \/ UpgradeStart(j, r)
                      \/ Sync(j) \/ PushStaticConfig(j) \/ ApplyDone(j) \/ Upgrade(j) \/ Abort(j)
  \/ \E d \in Devices : \/ Revert(d) \/ UpdateFacts(d) \/ MarkRead(d)
                         \/ \E value \in BOOLEAN : PutSynchronized(d, value) \/ PutState(d, value)
                         \/ PostEvent(d) \/ Tamper(d)
  \/ ReadEvents \/ WriteEvents \/ MarkStore \/ MarkFails

Spec == Init /\ [][Next]_vars

(***************************************************************************)
(* Properties.                                                             *)
(***************************************************************************)
\* A switch that is shown as synchronized runs what would be generated for it,
\* but when it was altered, flagged by hand, or its flag rests on what was true
\* before another job, request or timer: no other way leads to a wrong flag.
SyncedIsTrue ==
  \A d \in Devices : synced[d] => running[d].rev = wanted[d] \/ d \in astray

\* "Configuration is altered outside of CNaaS" is said of altered switches, and
\* else only after a change whose hash is not stored: a push under way, one that
\* failed, a given configuration, an upgrade that was not checked.
AlarmIsTrue == alarm = {}

\* What was put on a switch by hand, and is not what the stored hash was taken of, is
\* overwritten without force only if the switch was altered after the check, or the
\* check had no hash to compare with (sync_check_hash).
NothingLost == lost = {}

\* When nobody is changing them, events are listed of the switches that are not
\* synchronized, and of no others, but for the known ways to lose one.
EventsMatchFlag ==
  \A d \in Devices :
    (d \notin mixed /\ Between({d}, None) = {}) => (synced[d] <=> events[d] = {})

\* A switch that was upgraded is not taken for the one whose hash was stored,
\* unless its check was aborted, left out or did not see the new version.
UpgradeIsMarked == \A d \in rebooted \ unmarked : Upgrading(d)

=============================================================================
