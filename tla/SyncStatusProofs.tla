-------------------------- MODULE SyncStatusProofs --------------------------
(***************************************************************************)
(* What is shown of a switch is true, for any switches, threads, requests  *)
(* and bounds: types, stages and the lock first, then one invariant for    *)
(* the flag, the hash, the alarm, what is overwritten, the upgrades, and   *)
(* the events.                                                             *)
(***************************************************************************)
EXTENDS SyncStatus, TLAPS

(***************************************************************************)
(* How the jobs change: one job takes a step, the others age, that is,     *)
(* learn that what they found out about some switches is old.              *)
(***************************************************************************)
JobsTyped == job = [j \in Jobs |-> job[j]] /\ \A j \in Jobs : JobTyped(job[j])
Typed ==
  /\ RowsTyped /\ HistTyped /\ JobsTyped /\ lock \in Jobs \cup {None}
  /\ marker \in [at: {"row", "list", "store"}, dev: Devices, snap: BOOLEAN, list: SUBSET Causes] \cup {Idle}
  /\ used \in 0..MaxEvents

Kept(x, y) ==
  /\ y.r = x.r /\ y.at = x.at /\ y.hosts = x.hosts /\ y.stored = x.stored /\ y.blank = x.blank
  /\ y.conf = x.conf /\ y.yes = x.yes /\ y.no = x.no /\ y.changed = x.changed /\ y.failed = x.failed
  /\ y.snap = x.snap /\ y.confirmed = x.confirmed
Aged(x, y, ds, dl) ==
  /\ x = Idle <=> y = Idle
  /\ x # Idle => /\ Kept(x, y)
                 /\ y.stale = x.stale \cup (ds \cap x.hosts)
                 /\ y.late = x.late \cup (dl \cap x.hosts)
OthersAge(j, ds, dl) == \A i \in Jobs \ {j} : Aged(job[i], job'[i], ds, dl)

LEMMA RunsTyped ==
  ASSUME Typed, NEW j \in Jobs, Running(j)
  PROVE  /\ job[j].hosts \subseteq Devices /\ job[j] \in JobOf(job[j].hosts) /\ job[j].yes \cap job[j].no = {}
         /\ job[j].r \in Asked /\ job[j].at \in Places
         /\ job[j].stored \in [job[j].hosts -> Configs \cup {None}]
         /\ job[j].conf \in [job[j].hosts -> 0..MaxRev] /\ job[j].snap \in [job[j].hosts -> BOOLEAN]
         /\ job[j].yes \subseteq job[j].hosts /\ job[j].no \subseteq job[j].hosts
         /\ job[j].changed \subseteq job[j].hosts /\ job[j].failed \subseteq job[j].hosts
         /\ job[j].stale \subseteq job[j].hosts /\ job[j].late \subseteq job[j].hosts
         /\ job[j].confirmed \in BOOLEAN /\ job[j].r.dry \in BOOLEAN /\ job[j].r.force \in BOOLEAN
BY DEF Typed, JobsTyped, JobTyped, Running, JobOf, Asked

LEMMA JobRuns ==
  ASSUME NEW x, NEW hosts, x \in JobOf(hosts)
  PROVE  x # Idle
BY DEF JobOf, Idle, Places, Order

LEMMA JobPut ==
  ASSUME NEW F, F = [i \in Jobs |-> F[i]], \A i \in Jobs : JobTyped(F[i]),
         NEW j \in Jobs, NEW x, JobTyped(x), job' = [F EXCEPT ![j] = x]
  PROVE  JobsTyped' /\ \A i \in Jobs : job'[i] = IF i = j THEN x ELSE F[i]
BY DEF JobsTyped

\* A job that learns that its knowledge is old.
LEMMA AgedTyped ==
  ASSUME NEW x, JobTyped(x), x # Idle, NEW ds, NEW dl
  PROVE  LET y == [x EXCEPT !.stale = @ \cup (ds \cap x.hosts), !.late = @ \cup (dl \cap x.hosts)]
         IN  JobTyped(y) /\ Aged(x, y, ds, dl)
<1> DEFINE y == [x EXCEPT !.stale = @ \cup (ds \cap x.hosts), !.late = @ \cup (dl \cap x.hosts)]
<1>1. x \in JobOf(x.hosts) /\ x.hosts \subseteq Devices /\ x.yes \cap x.no = {}
  BY DEF JobTyped
<1>2. y \in JobOf(x.hosts) /\ y.hosts = x.hosts /\ y.yes = x.yes /\ y.no = x.no
  BY <1>1 DEF JobOf
<1>3. Kept(x, y) /\ y.stale = x.stale \cup (ds \cap x.hosts) /\ y.late = x.late \cup (dl \cap x.hosts)
  BY <1>1 DEF JobOf, Kept
<1> HIDE DEF y
<1>4. y # Idle
  BY <1>2, JobRuns
<1> QED BY <1>1, <1>2, <1>3, <1>4 DEF JobTyped, Aged, y

LEMMA StaleTyped ==
  ASSUME NEW x, JobTyped(x), x # Idle, NEW ds
  PROVE  LET y == [x EXCEPT !.stale = @ \cup (ds \cap x.hosts)]
         IN  JobTyped(y) /\ Aged(x, y, ds, {})
<1> DEFINE y == [x EXCEPT !.stale = @ \cup (ds \cap x.hosts)]
<1>1. x \in JobOf(x.hosts) /\ x.hosts \subseteq Devices /\ x.yes \cap x.no = {}
  BY DEF JobTyped
<1>2. y \in JobOf(x.hosts) /\ y.hosts = x.hosts /\ y.yes = x.yes /\ y.no = x.no
  BY <1>1 DEF JobOf
<1>3. Kept(x, y) /\ y.stale = x.stale \cup (ds \cap x.hosts) /\ y.late = x.late \cup ({} \cap x.hosts)
  BY <1>1 DEF JobOf, Kept
<1> HIDE DEF y
<1>4. y # Idle
  BY <1>2, JobRuns
<1> QED BY <1>1, <1>2, <1>3, <1>4 DEF JobTyped, Aged, y

LEMMA SameAge ==
  ASSUME NEW x, JobTyped(x)
  PROVE  Aged(x, x, {}, {})
BY DEF Aged, Kept, JobTyped, JobOf

LEMMA OldJobs ==
  ASSUME Typed, NEW ds, NEW except
  PROVE  LET F == Old(ds, except) IN
         /\ F = [i \in Jobs |-> F[i]]
         /\ \A i \in Jobs : /\ JobTyped(F[i])
                            /\ i # except => Aged(job[i], F[i], ds, {})
                            /\ i = except => F[i] = job[i]
<1> DEFINE F == Old(ds, except)
<1>1. F = [i \in Jobs |-> F[i]]
  BY DEF Old
<1>2. ASSUME NEW i \in Jobs
      PROVE  /\ JobTyped(F[i])
             /\ i # except => Aged(job[i], F[i], ds, {})
             /\ i = except => F[i] = job[i]
  <2>1. JobTyped(job[i])
    BY DEF Typed, JobsTyped
  <2>2. CASE ~Running(i)
    <3>1. F[i] = job[i] /\ job[i] = Idle
      BY <2>2 DEF Old, Running
    <3> QED BY <2>1, <3>1 DEF Aged
  <2>3. CASE i = except
    BY <2>1, <2>3 DEF Old
  <2>4. CASE Running(i) /\ i # except
    BY <2>1, <2>4, StaleTyped DEF Old, Running
  <2> QED BY <2>2, <2>3, <2>4
<1> QED BY <1>1, <1>2

LEMMA AlteredJobs ==
  ASSUME Typed, NEW d
  PROVE  LET F == Altered(d) IN
         /\ F = [i \in Jobs |-> F[i]]
         /\ \A i \in Jobs : JobTyped(F[i]) /\ Aged(job[i], F[i], {d}, {d})
<1> DEFINE F == Altered(d)
<1>1. F = [i \in Jobs |-> F[i]]
  BY DEF Altered
<1>2. ASSUME NEW i \in Jobs
      PROVE  JobTyped(F[i]) /\ Aged(job[i], F[i], {d}, {d})
  <2>1. JobTyped(job[i])
    BY DEF Typed, JobsTyped
  <2>2. CASE ~Running(i)
    <3>1. F[i] = job[i] /\ job[i] = Idle
      BY <2>2 DEF Altered, Running
    <3> QED BY <2>1, <3>1 DEF Aged
  <2>3. CASE Running(i)
    BY <2>1, <2>3, AgedTyped DEF Altered, Running
  <2> QED BY <2>2, <2>3
<1> QED BY <1>1, <1>2

(***************************************************************************)
(* What each step does to the jobs.                                        *)
(***************************************************************************)
\* The same job at another place.
Moves(x, y, at) ==
  /\ y # Idle /\ y.at = at /\ y.r = x.r /\ y.hosts = x.hosts /\ y.stored = x.stored /\ y.blank = x.blank
  /\ y.conf = x.conf /\ y.yes = x.yes /\ y.no = x.no /\ y.changed = x.changed /\ y.failed = x.failed
  /\ y.snap = x.snap /\ y.confirmed = x.confirmed /\ y.stale = x.stale /\ y.late = x.late

LEMMA GoEffect ==
  ASSUME Typed, NEW j \in Jobs, Running(j), NEW at \in Places, Go(j, at)
  PROVE  JobsTyped' /\ OthersAge(j, {}, {}) /\ Moves(job[j], job'[j], at)
<1> DEFINE x == [job[j] EXCEPT !.at = at]
<1>1. job[j] \in JobOf(job[j].hosts) /\ job[j].hosts \subseteq Devices /\ job[j].yes \cap job[j].no = {}
  BY RunsTyped
<1>2. x \in JobOf(job[j].hosts) /\ x.hosts = job[j].hosts /\ x.yes = job[j].yes /\ x.no = job[j].no
  BY <1>1 DEF JobOf
<1>3. Moves(job[j], x, at)
  <2>1. x # Idle
    BY <1>2, JobRuns
  <2> QED BY <1>1, <2>1 DEF JobOf, Moves
<1>4. job' = [job EXCEPT ![j] = x]
  BY DEF Go
<1> HIDE DEF x
<1>5. JobTyped(x)
  BY <1>1, <1>2 DEF JobTyped
<1>6. JobsTyped' /\ \A i \in Jobs : job'[i] = IF i = j THEN x ELSE job[i]
  BY <1>4, <1>5, JobPut DEF Typed, JobsTyped
<1> QED BY <1>3, <1>6, SameAge DEF OthersAge, Typed, JobsTyped

LEMMA EndEffect ==
  ASSUME Typed, NEW j \in Jobs, End(j)
  PROVE  JobsTyped' /\ OthersAge(j, {}, {}) /\ job'[j] = Idle
<1>1. JobTyped(Idle)
  BY DEF JobTyped
<1>2. JobsTyped' /\ \A i \in Jobs : job'[i] = IF i = j THEN Idle ELSE job[i]
  BY <1>1, JobPut DEF End, Typed, JobsTyped
<1> QED BY <1>2, SameAge DEF OthersAge, Typed, JobsTyped

LEMMA SelectedHosts == \A r : Selected(r) \subseteq Devices
BY DEF Selected

\* A job that has just been started.
Starts(x, r, at) ==
  /\ x # Idle /\ x.r = r /\ x.at = at /\ x.hosts = Selected(r)
  /\ x.stored = [d \in Selected(r) |-> StoredHash(r, d)] /\ x.blank = {d \in Selected(r) : confhash[d] = None}
  /\ x.yes = {} /\ x.no = {} /\ x.changed = {} /\ x.stale = {} /\ x.late = {}

LEMMA StartEffect ==
  ASSUME Typed, NEW j \in Jobs, NEW r \in Asked, NEW at \in Places, job' = [job EXCEPT ![j] = Start(r, at)]
  PROVE  JobsTyped' /\ OthersAge(j, {}, {}) /\ Starts(job'[j], r, at)
<1> DEFINE h == Selected(r)
           x == Start(r, at)
<1>1. h \subseteq Devices
  BY SelectedHosts
<1>2. [d \in h |-> StoredHash(r, d)] \in [h -> Configs \cup {None}]
  BY <1>1 DEF StoredHash, Typed, RowsTyped
<1>3. [d \in h |-> wanted[d]] \in [h -> 0..MaxRev]
  BY <1>1 DEF Typed, RowsTyped
<1>4. Start(r, at).hosts = h
  BY DEF Start
<1> HIDE DEF h
<1>5. [d \in h |-> FALSE] \in [h -> BOOLEAN]
  OBVIOUS
<1>6. Start(r, at) \in JobOf(h)
  BY <1>1, <1>2, <1>3, <1>5 DEF Start, JobOf, h
<1>7. x # Idle
  BY <1>6, JobRuns
<1>8. x.yes = {} /\ x.no = {} /\ Starts(x, r, at)
  BY <1>7 DEF Start, Starts
<1> HIDE DEF x
<1>9. JobTyped(x)
  BY <1>1, <1>4, <1>6, <1>8 DEF JobTyped, x
<1>10. JobsTyped' /\ \A i \in Jobs : job'[i] = IF i = j THEN x ELSE job[i]
  BY <1>9, JobPut DEF Typed, JobsTyped, x
<1> QED BY <1>8, <1>10, SameAge DEF OthersAge, Typed, JobsTyped

LEMMA AskedRequests == Requests \subseteq Asked
<1>1. {"download", "activate", "reboot", "post"} = {Order[k] : k \in 1..4}
  BY DEF Order
<1> QED BY <1>1, RequestsAssumption DEF Asked

LEMMA RenderEffect ==
  ASSUME Typed, NEW j \in Jobs, PopulateDeviceVars(j)
  PROVE  /\ JobsTyped' /\ OthersAge(j, {}, {}) /\ job'[j] # Idle /\ job'[j].at = "push"
         /\ job'[j].r = job[j].r /\ job'[j].hosts = job[j].hosts
         /\ job'[j].blank = job[j].blank /\ job'[j].late = job[j].late /\ job'[j].stale = {}
         /\ \A d \in job[j].hosts : job'[j].conf[d] = wanted[d]
<1> DEFINE h == job[j].hosts
           c == [d \in h |-> wanted[d]]
           x == [job[j] EXCEPT !.at = "push", !.stale = {}, !.conf = c]
<1>0. Running(j)
  BY DEF PopulateDeviceVars, At
<1>1. job[j] \in JobOf(h) /\ h \subseteq Devices /\ job[j].yes \cap job[j].no = {}
  BY <1>0, RunsTyped
<1>2. c \in [h -> 0..MaxRev] /\ \A d \in h : c[d] = wanted[d]
  BY <1>1 DEF Typed, RowsTyped
<1>3. job' = [job EXCEPT ![j] = x]
  BY DEF PopulateDeviceVars
<1> HIDE DEF c, h
<1>4. "push" \in Places
  BY DEF Places
<1>5. /\ x \in JobOf(h) /\ x.hosts = job[j].hosts /\ x.yes = job[j].yes /\ x.no = job[j].no /\ x.at = "push" /\ x.r = job[j].r
      /\ x.blank = job[j].blank /\ x.late = job[j].late /\ x.stale = {} /\ x.conf = c
  BY <1>1, <1>2, <1>4 DEF JobOf
<1>6. x # Idle
  BY <1>5, JobRuns
<1> HIDE DEF x
<1>7. JobTyped(x)
  BY <1>1, <1>5 DEF JobTyped, h
<1>8. JobsTyped' /\ \A i \in Jobs : job'[i] = IF i = j THEN x ELSE job[i]
  BY <1>3, <1>7, JobPut DEF Typed, JobsTyped
<1> QED BY <1>2, <1>5, <1>6, <1>8, SameAge DEF OthersAge, Typed, JobsTyped, h

\* A push: those that failed and yet changed, those that changed, and those whose
\* commit is not confirmed yet.
Pushes(j, failed, took, changed, kept) ==
  /\ failed \subseteq job[j].hosts /\ took \subseteq failed /\ changed \subseteq job[j].hosts \ failed
  /\ kept \subseteq changed \cup took
  /\ job[j].r.dry => took = {} /\ kept = {}
  /\ job[j].r.mode = 1 => kept = took
  /\ (job[j].r.mode = 2 /\ ~job[j].r.dry) => kept = changed \cup took
  /\ \A d \in Devices :
       /\ d \in changed \cup took /\ ~job[j].r.dry
            => running'[d] = [rev |-> job[j].conf[d], form |-> running[d].form]
       /\ d \notin changed \cup took \/ job[j].r.dry => running'[d] = running[d]
       /\ pending'[d] = IF d \in kept THEN running[d] ELSE pending[d]
       /\ d \notin took \/ job[j].r.mode # 2 => events'[d] = events[d]
  /\ \A d \in job[j].hosts \ (failed \cup changed) : running[d].rev = job[j].conf[d]
  /\ mixed \subseteq mixed' /\ (job[j].r.mode = 2 => took \subseteq mixed')
  /\ altered \subseteq altered' /\ took \ kept \subseteq altered'
  /\ \A d \in lost' \ lost : /\ d \in job[j].hosts \ (job[j].blank \cup job[j].late) /\ ~job[j].r.force
                             /\ running[d].rev = Alien /\ confhash[d] # None /\ confhash[d].rev # Alien
  /\ LET y == job'[j] IN
     /\ y # Idle /\ y.at \in {"hashes", "flag"} /\ y.r = job[j].r /\ y.hosts = job[j].hosts
     /\ (~job[j].r.dry /\ job[j].r.mode # 2) => y.at = "hashes"
     /\ y.changed = changed /\ y.stale = job[j].stale
     /\ y.yes \subseteq job[j].hosts \ failed
     /\ (job[j].r.dry => y.yes \cap changed = {})

LEMMA PushEffect ==
  ASSUME Typed, NEW j \in Jobs, PushSyncDevice(j)
  PROVE  /\ JobsTyped' /\ RowsTyped' /\ HistTyped'
         /\ \E failed, took, changed, kept : /\ Pushes(j, failed, took, changed, kept)
                                             /\ OthersAge(j, IF job[j].r.dry THEN {} ELSE changed \cup took, {})
<1>0. Running(j) /\ job[j].at = "push"
  BY DEF PushSyncDevice, At
<1> DEFINE h == job[j].hosts
           r == job[j].r
           new == [d \in h |-> [rev |-> job[j].conf[d], form |-> running[d].form]]
           differ == {d \in h : new[d] # running[d]}
<1>1. job[j] \in JobOf(h) /\ h \subseteq Devices /\ r \in Asked /\ job[j].conf \in [h -> 0..MaxRev]
  BY <1>0, RunsTyped
<1>2. PICK failed \in SUBSET h : \E took \in SUBSET failed :
       LET changed == differ \ failed
           unchanged == h \ (failed \cup differ)
           written == IF r.dry THEN {} ELSE changed \cup took
           kept == IF r.mode = 2 THEN written ELSE IF r.mode = 1 THEN took ELSE {}
           alien == {d \in written : /\ running[d].rev = Alien
                                     /\ confhash[d] # None /\ confhash[d].rev # Alien} IN
       /\ took \subseteq (IF r.dry THEN {} ELSE differ)
       /\ running' = [d \in Devices |-> IF d \in written THEN new[d] ELSE running[d]]
       /\ pending' = [d \in Devices |-> IF d \in kept THEN running[d] ELSE pending[d]]
       /\ events' = [d \in Devices |-> IF r.mode = 2 /\ d \in took THEN events[d] \cup {"confirm"} ELSE events[d]]
       /\ mixed' = mixed \cup (IF r.mode = 2 THEN took ELSE {})
       /\ altered' = altered \cup (took \ kept)
       /\ lost' = lost \cup (IF r.force THEN {} ELSE alien \ (job[j].blank \cup job[j].late))
       /\ job' = [Old(written, j) EXCEPT
                    ![j].at = IF r.mode = 2 THEN "flag" ELSE "hashes",
                    ![j].changed = changed, ![j].failed = failed,
                    ![j].yes = Synchronized(j, changed, unchanged),
                    ![j].no = IF r.dry THEN changed ELSE {}]
  BY DEF PushSyncDevice
<1> DEFINE changed == differ \ failed
           unchanged == h \ (failed \cup differ)
<1>3. PICK took \in SUBSET failed :
       LET written == IF r.dry THEN {} ELSE changed \cup took
           kept == IF r.mode = 2 THEN written ELSE IF r.mode = 1 THEN took ELSE {}
           alien == {d \in written : /\ running[d].rev = Alien
                                     /\ confhash[d] # None /\ confhash[d].rev # Alien} IN
       /\ took \subseteq (IF r.dry THEN {} ELSE differ)
       /\ running' = [d \in Devices |-> IF d \in written THEN new[d] ELSE running[d]]
       /\ pending' = [d \in Devices |-> IF d \in kept THEN running[d] ELSE pending[d]]
       /\ events' = [d \in Devices |-> IF r.mode = 2 /\ d \in took THEN events[d] \cup {"confirm"} ELSE events[d]]
       /\ mixed' = mixed \cup (IF r.mode = 2 THEN took ELSE {})
       /\ altered' = altered \cup (took \ kept)
       /\ lost' = lost \cup (IF r.force THEN {} ELSE alien \ (job[j].blank \cup job[j].late))
       /\ job' = [Old(written, j) EXCEPT
                    ![j].at = IF r.mode = 2 THEN "flag" ELSE "hashes",
                    ![j].changed = changed, ![j].failed = failed,
                    ![j].yes = Synchronized(j, changed, unchanged),
                    ![j].no = IF r.dry THEN changed ELSE {}]
  BY <1>2
<1> DEFINE written == IF r.dry THEN {} ELSE changed \cup took
           kept == IF r.mode = 2 THEN written ELSE IF r.mode = 1 THEN took ELSE {}
           yes == Synchronized(j, changed, unchanged)
           at == IF r.mode = 2 THEN "flag" ELSE "hashes"
           no == IF r.dry THEN changed ELSE {}
           x == [job[j] EXCEPT !.at = at, !.changed = changed, !.failed = failed, !.yes = yes, !.no = no]
           F == Old(written, j)
<1>4. /\ took \subseteq (IF r.dry THEN {} ELSE differ) /\ took \subseteq failed /\ failed \subseteq h
      /\ \A d \in Devices : running'[d] = IF d \in written THEN new[d] ELSE running[d]
      /\ \A d \in Devices : pending'[d] = IF d \in kept THEN running[d] ELSE pending[d]
      /\ \A d \in Devices : events'[d] = IF r.mode = 2 /\ d \in took THEN events[d] \cup {"confirm"} ELSE events[d]
      /\ mixed' = mixed \cup (IF r.mode = 2 THEN took ELSE {})
      /\ altered' = altered \cup (took \ kept)
      /\ \A d \in lost' : d \notin lost => /\ ~r.force /\ d \in written /\ d \notin job[j].blank /\ d \notin job[j].late
                                           /\ running[d].rev = Alien /\ confhash[d] # None /\ confhash[d].rev # Alien
      /\ lost' \subseteq lost \cup written
  BY <1>3
<1>5. \A d \in h : new[d] = [rev |-> job[j].conf[d], form |-> running[d].form] /\ new[d] \in Configs
  BY <1>1 DEF Typed, RowsTyped, Configs, Revs
<1>6. /\ changed \subseteq differ /\ changed \cap failed = {} /\ differ \subseteq h /\ unchanged \subseteq h
      /\ unchanged \cap changed = {} /\ unchanged \cap failed = {}
      /\ \A d \in h : d \notin failed /\ d \notin changed => new[d] = running[d]
  OBVIOUS
<1>7. job' = [F EXCEPT ![j] = [F[j] EXCEPT !.at = at, !.changed = changed, !.failed = failed, !.yes = yes, !.no = no]]
  <2>1. job' = [F EXCEPT ![j].at = at, ![j].changed = changed, ![j].failed = failed,
                         ![j].yes = yes, ![j].no = no]
    BY <1>3
  <2>2. F = [i \in Jobs |-> F[i]]
    BY DEF Old
  <2> HIDE DEF F, at, changed, yes, no
  <2> QED BY <2>1, <2>2
<1>8. /\ F[j] = job[j] /\ F = [i \in Jobs |-> F[i]]
      /\ \A i \in Jobs : JobTyped(F[i])
      /\ \A i \in Jobs \ {j} : Aged(job[i], F[i], written, {})
  <2> HIDE DEF F, written
  <2> DEFINE G == Old(written, j)
  <2>1. /\ G = [i \in Jobs |-> G[i]]
        /\ \A i \in Jobs : /\ JobTyped(G[i])
                           /\ i # j => Aged(job[i], G[i], written, {})
                           /\ i = j => G[i] = job[i]
    BY OldJobs
  <2> QED BY <2>1 DEF F
<1>9. yes \subseteq h \ failed /\ (r.dry => yes = unchanged) /\ yes \cap no = {} /\ no \subseteq h
  BY <1>6 DEF Synchronized
<1>10. RowsTyped'
  <2>1. running' \in [Devices -> Configs]
    <3>1. \A d \in Devices : running'[d] \in Configs
      BY <1>4, <1>5, <1>6 DEF Typed, RowsTyped
    <3>2. running' = [d \in Devices |-> running'[d]]
      BY <1>3
    <3> HIDE DEF written, new
    <3> QED BY <3>1, <3>2
  <2>2. pending' \in [Devices -> Configs \cup {None}]
    <3> HIDE DEF kept
    <3> QED BY <1>3 DEF Typed, RowsTyped, kept
  <2>3. events' \in [Devices -> SUBSET Causes]
    BY <1>3 DEF Typed, RowsTyped, Causes
  <2> QED BY <2>1, <2>2, <2>3 DEF PushSyncDevice, Typed, RowsTyped, image
<1>11. HistTyped'
  <2>1. written \subseteq Devices /\ took \subseteq Devices
    BY <1>1, <1>4, <1>6
  <2> HIDE DEF written, kept
  <2> QED BY <1>4, <2>1 DEF PushSyncDevice, Typed, HistTyped
<1> HIDE DEF F, yes, no, written, kept, changed, unchanged, differ
<1>12. at \in Places /\ at \in {"hashes", "flag"} /\ (r.mode # 2 => at = "hashes")
  BY DEF Places
<1> HIDE DEF at
<1>13. /\ x \in JobOf(h) /\ x.at = at /\ x.hosts = h /\ x.changed = changed /\ x.yes = yes /\ x.no = no
       /\ x.r = r /\ x.stale = job[j].stale
  BY <1>1, <1>4, <1>6, <1>9, <1>12 DEF JobOf
<1>14. x # Idle
  BY <1>13, JobRuns
<1>15. job' = [F EXCEPT ![j] = x]
  BY <1>7, <1>8
<1> HIDE DEF x
<1>16. JobTyped(x)
  BY <1>1, <1>9, <1>13 DEF JobTyped
<1>17. JobsTyped' /\ \A i \in Jobs : job'[i] = IF i = j THEN x ELSE F[i]
  BY <1>8, <1>15, <1>16, JobPut
<1>18. OthersAge(j, IF job[j].r.dry THEN {} ELSE changed \cup took, {})
  BY <1>8, <1>17 DEF OthersAge, written
<1>19. Pushes(j, failed, took, changed, kept)
  <2>1. kept \subseteq changed \cup took /\ (r.dry => took = {} /\ kept = {}) /\ (r.mode = 1 => kept = took)
        /\ (r.mode = 2 /\ ~r.dry => kept = changed \cup took)
    BY <1>4 DEF kept, written
  <2>2. \A d \in Devices : (d \in written <=> (d \in changed \cup took /\ ~r.dry)) /\ (d \in written => d \in h)
    BY <1>4, <1>6 DEF written
  <2>3. \A d \in Devices :
          /\ d \in changed \cup took /\ ~r.dry => running'[d] = [rev |-> job[j].conf[d], form |-> running[d].form]
          /\ d \notin changed \cup took \/ r.dry => running'[d] = running[d]
    BY <1>4, <1>5, <2>2
  <2>4. \A d \in h \ (failed \cup changed) : running[d].rev = job[j].conf[d]
    <3>1. ASSUME NEW d \in h \ (failed \cup changed)
          PROVE  running[d].rev = job[j].conf[d]
      <4>1. running[d] = [rev |-> job[j].conf[d], form |-> running[d].form]
        BY <1>5, <1>6
      <4> HIDE DEF h
      <4> QED BY <4>1
    <3> QED BY <3>1
  <2>5. \A d \in lost' \ lost : /\ d \in h \ (job[j].blank \cup job[j].late) /\ ~r.force
                               /\ running[d].rev = Alien /\ confhash[d] # None /\ confhash[d].rev # Alien
    BY <1>1, <1>4, <1>6 DEF written
  <2>6. x.yes \subseteq h \ failed /\ (r.dry => x.yes \cap changed = {})
    BY <1>6, <1>9, <1>13
  <2> HIDE DEF new
  <2> QED BY <1>4, <1>6, <1>12, <1>13, <1>14, <1>17, <2>1, <2>3, <2>4, <2>5, <2>6 DEF Pushes
<1> QED BY <1>10, <1>11, <1>17, <1>18, <1>19

LEMMA OldPut ==
  ASSUME Typed, NEW j \in Jobs, NEW ds, NEW x, JobTyped(x), job' = [Old(ds, j) EXCEPT ![j] = x]
  PROVE  JobsTyped' /\ OthersAge(j, ds, {}) /\ job'[j] = x
<1> DEFINE F == Old(ds, j)
<1>1. /\ F = [i \in Jobs |-> F[i]]
      /\ \A i \in Jobs : JobTyped(F[i])
      /\ \A i \in Jobs \ {j} : Aged(job[i], F[i], ds, {})
  BY OldJobs
<1> HIDE DEF F
<1>2. JobsTyped' /\ \A i \in Jobs : job'[i] = IF i = j THEN x ELSE F[i]
  BY <1>1, JobPut DEF F
<1> QED BY <1>1, <1>2 DEF OthersAge

LEMMA Put ==
  ASSUME Typed, NEW j \in Jobs, NEW x, JobTyped(x), job' = [job EXCEPT ![j] = x]
  PROVE  JobsTyped' /\ OthersAge(j, {}, {}) /\ job'[j] = x
<1>1. JobsTyped' /\ \A i \in Jobs : job'[i] = IF i = j THEN x ELSE job[i]
  BY JobPut DEF Typed, JobsTyped
<1> QED BY <1>1, SameAge DEF OthersAge, Typed, JobsTyped

LEMMA OldAt ==
  ASSUME Typed, NEW j \in Jobs, NEW ds
  PROVE  Old(ds, j)[j] = job[j]
BY DEF Old

\* What storing the hashes of the switches got does to what is known of them.
Hashes(j, targets, got) ==
  /\ \A d \in Devices : confhash'[d] = IF d \in got THEN running[d] ELSE confhash[d]
  /\ tampered' = tampered \ got
  /\ altered' = (altered \ got) \cup (IF job[j].r.dry THEN {} ELSE targets \ got)

LEMMA StoreHashEffect ==
  ASSUME Typed, NEW j \in Jobs, NEW targets \in SUBSET Devices, NEW got \in SUBSET targets,
         StoreHash(j, targets, got)
  PROVE  /\ Hashes(j, targets, got) /\ confhash' \in [Devices -> Configs \cup {None}]
         /\ tampered' \subseteq Devices /\ altered' \subseteq Devices
BY DEF StoreHash, Hashes, Typed, RowsTyped, HistTyped

LEMMA HashTargetsIn ==
  ASSUME Typed, NEW j \in Jobs, Running(j)
  PROVE  HashTargets(j) \subseteq job[j].hosts /\ (~job[j].r.dry => HashTargets(j) = job[j].changed)
BY RunsTyped DEF HashTargets

LEMMA HashesEffect ==
  ASSUME Typed, NEW j \in Jobs, PostSyncUpdateConfighash(j)
  PROVE  /\ JobsTyped' /\ RowsTyped' /\ HistTyped'
         /\ \E got \in SUBSET HashTargets(j) :
              /\ Hashes(j, HashTargets(j), got) /\ OthersAge(j, got, {}) /\ Moves(job[j], job'[j], "flag")
<1>0. Running(j) /\ job[j].at = "hashes"
  BY DEF PostSyncUpdateConfighash, At
<1> DEFINE h == job[j].hosts
           x == [job[j] EXCEPT !.at = "flag"]
<1>1. job[j] \in JobOf(h) /\ h \subseteq Devices /\ job[j].yes \cap job[j].no = {}
  BY <1>0, RunsTyped
<1>2. PICK got \in SUBSET HashTargets(j) :
        StoreHash(j, HashTargets(j), got) /\ job' = [Old(got, j) EXCEPT ![j].at = "flag"]
  BY DEF PostSyncUpdateConfighash
<1>3. HashTargets(j) \subseteq Devices
  BY <1>0, <1>1, HashTargetsIn
<1>4. Hashes(j, HashTargets(j), got) /\ confhash' \in [Devices -> Configs \cup {None}]
      /\ tampered' \subseteq Devices /\ altered' \subseteq Devices
  BY <1>2, <1>3, StoreHashEffect
<1>5. RowsTyped' /\ HistTyped'
  BY <1>4 DEF PostSyncUpdateConfighash, Typed, RowsTyped, HistTyped, config, image
<1>6. x \in JobOf(h) /\ x.hosts = h /\ x.yes = job[j].yes /\ x.no = job[j].no
  BY <1>1 DEF JobOf, Places
<1>7. Moves(job[j], x, "flag")
  <2>1. x # Idle
    BY <1>6, JobRuns
  <2> QED BY <1>1, <2>1 DEF JobOf, Moves
<1>8. job' = [Old(got, j) EXCEPT ![j] = x]
  BY <1>2, OldAt
<1> HIDE DEF x
<1>9. JobTyped(x)
  BY <1>1, <1>6 DEF JobTyped
<1>10. JobsTyped' /\ OthersAge(j, got, {}) /\ job'[j] = x
  BY <1>8, <1>9, OldPut
<1> QED BY <1>4, <1>5, <1>7, <1>10

\* The job of a sync that has changed events and is about to store the flags.
Flags(x, y, no) ==
  /\ y # Idle /\ y.at = "commit" /\ y.r = x.r /\ y.hosts = x.hosts /\ y.yes = x.yes /\ y.no = no
  /\ y.changed = x.changed /\ y.failed = x.failed /\ y.stale = x.stale /\ y.confirmed = x.confirmed
  /\ \A d \in x.hosts : y.snap[d] = synced[d]

LEMMA FlagsEffect ==
  ASSUME Typed, NEW j \in Jobs, SetFlags(j)
  PROVE  /\ JobsTyped' /\ RowsTyped' /\ HistTyped' /\ OthersAge(j, {}, {}) /\ Flags(job[j], job'[j], Told(j))
         /\ Told(j) \subseteq job[j].no
         /\ \A d \in Devices : /\ d \in job[j].yes => events'[d] = {}
                               /\ d \in Told(j) => events'[d] # {}
                               /\ d \notin job[j].yes \cup Told(j) => events'[d] = events[d]
<1>0. Running(j) /\ job[j].at = "flag"
  BY DEF SetFlags, At
<1> DEFINE h == job[j].hosts
           n == Told(j)
           s == [d \in h |-> synced[d]]
           x == [job[j] EXCEPT !.at = "commit", !.no = n, !.snap = s]
<1>1. job[j] \in JobOf(h) /\ h \subseteq Devices /\ job[j].yes \cap job[j].no = {}
      /\ job[j].yes \subseteq h /\ job[j].no \subseteq h
  BY <1>0, RunsTyped
<1>2. n \subseteq job[j].no
  BY DEF Told
<1>3. s \in [h -> BOOLEAN] /\ \A d \in h : s[d] = synced[d]
  BY <1>1 DEF Typed, RowsTyped
<1>4. job' = [job EXCEPT ![j] = x]
  BY DEF SetFlags
<1>5. events' \in [Devices -> SUBSET Causes]
  BY DEF SetFlags, Typed, RowsTyped, Causes
<1>6. RowsTyped'
  BY <1>5 DEF SetFlags, Typed, RowsTyped, config, image
<1>7. mixed' \subseteq Devices
  BY <1>1, <1>2 DEF SetFlags, Mix, Between, Typed, HistTyped
<1>8. HistTyped'
  BY <1>7 DEF SetFlags, Typed, HistTyped
<1>9. \A d \in Devices : /\ d \in job[j].yes => events'[d] = {}
                         /\ d \in n => events'[d] # {}
                         /\ d \notin job[j].yes \cup n => events'[d] = events[d]
  <2>1. n \cap job[j].yes = {}
    BY <1>1, <1>2
  <2> HIDE DEF n
  <2> QED BY <2>1 DEF SetFlags, Cleared, n
<1> HIDE DEF s, n
<1>10. "commit" \in Places
  BY DEF Places
<1>11. /\ x \in JobOf(h) /\ x.hosts = h /\ x.yes = job[j].yes /\ x.no = n /\ x.at = "commit" /\ x.r = job[j].r
       /\ x.changed = job[j].changed /\ x.failed = job[j].failed /\ x.stale = job[j].stale
       /\ x.confirmed = job[j].confirmed /\ x.snap = s
  BY <1>1, <1>2, <1>3, <1>10 DEF JobOf
<1>12. x # Idle
  BY <1>11, JobRuns
<1> HIDE DEF x
<1>13. JobTyped(x)
  BY <1>1, <1>2, <1>11 DEF JobTyped
<1>14. JobsTyped' /\ OthersAge(j, {}, {}) /\ job'[j] = x
  BY <1>4, <1>13, Put
<1> QED BY <1>2, <1>3, <1>6, <1>8, <1>9, <1>11, <1>12, <1>14 DEF Flags, n

\* The confirm job: ok are those whose commit it confirmed.
Confirms(x, y, ok, no) ==
  /\ y # Idle /\ y.at = "flag" /\ y.r = x.r /\ y.hosts = x.hosts /\ y.yes = ok /\ y.no = no
  /\ y.changed = x.changed /\ y.stale = x.stale

LEMMA ConfirmEffect ==
  ASSUME Typed, NEW j \in Jobs, ConfirmDevices(j)
  PROVE  /\ JobsTyped' /\ RowsTyped' /\ HistTyped'
         /\ \E ok \in SUBSET job[j].changed : \E got \in SUBSET ok : \E no \in SUBSET job[j].changed :
              /\ Hashes(j, ok, got) /\ OthersAge(j, got, {}) /\ Confirms(job[j], job'[j], ok, no)
              /\ \A d \in Devices : pending'[d] = IF d \in ok THEN None ELSE pending[d]
              /\ \A d \in ok : pending[d] # None
<1>0. Running(j) /\ job[j].at = "confirm"
  BY DEF ConfirmDevices, At
<1> DEFINE h == job[j].hosts
           hosts == {d \in job[j].changed : managed[d]}
<1>1. job[j] \in JobOf(h) /\ h \subseteq Devices /\ job[j].changed \subseteq h
  BY <1>0, RunsTyped
<1>2. PICK ok \in SUBSET {d \in hosts : pending[d] # None} : \E got \in SUBSET ok :
       /\ pending' = [d \in Devices |-> IF d \in ok THEN None ELSE pending[d]]
       /\ StoreHash(j, ok, got)
       /\ job' = [Old(got, j) EXCEPT ![j].at = "flag", ![j].confirmed = TRUE,
                                     ![j].yes = ok, ![j].no = hosts \ ok]
  BY DEF ConfirmDevices
<1>3. PICK got \in SUBSET ok :
       /\ pending' = [d \in Devices |-> IF d \in ok THEN None ELSE pending[d]]
       /\ StoreHash(j, ok, got)
       /\ job' = [Old(got, j) EXCEPT ![j].at = "flag", ![j].confirmed = TRUE,
                                     ![j].yes = ok, ![j].no = hosts \ ok]
  BY <1>2
<1> DEFINE no == hosts \ ok
           x == [job[j] EXCEPT !.at = "flag", !.confirmed = TRUE, !.yes = ok, !.no = no]
<1>4. ok \subseteq h /\ no \subseteq h /\ no \subseteq job[j].changed /\ ok \subseteq job[j].changed
      /\ ok \cap no = {} /\ (\A d \in ok : pending[d] # None) /\ ok \subseteq Devices
  BY <1>1, <1>2
<1>5. Hashes(j, ok, got) /\ confhash' \in [Devices -> Configs \cup {None}]
      /\ tampered' \subseteq Devices /\ altered' \subseteq Devices
  BY <1>3, <1>4, StoreHashEffect
<1>6. pending' \in [Devices -> Configs \cup {None}]
      /\ \A d \in Devices : pending'[d] = IF d \in ok THEN None ELSE pending[d]
  <2>1. pending' = [d \in Devices |-> IF d \in ok THEN None ELSE pending[d]]
    BY <1>3
  <2> QED BY <2>1 DEF Typed, RowsTyped
<1>7. RowsTyped' /\ HistTyped'
  BY <1>5, <1>6 DEF ConfirmDevices, Typed, RowsTyped, HistTyped, image
<1>8. job' = [Old(got, j) EXCEPT ![j] = x]
  BY <1>3, OldAt
<1> HIDE DEF no, hosts
<1>9. "flag" \in Places
  BY DEF Places
<1>10. /\ x \in JobOf(h) /\ x.hosts = h /\ x.yes = ok /\ x.no = no /\ x.at = "flag" /\ x.r = job[j].r
       /\ x.changed = job[j].changed /\ x.stale = job[j].stale
  BY <1>1, <1>4, <1>9 DEF JobOf
<1>11. x # Idle
  BY <1>10, JobRuns
<1> HIDE DEF x
<1>12. JobTyped(x)
  BY <1>1, <1>4, <1>10 DEF JobTyped
<1>13. JobsTyped' /\ OthersAge(j, got, {}) /\ job'[j] = x
  BY <1>8, <1>12, OldPut
<1>14. Confirms(job[j], job'[j], ok, no)
  BY <1>10, <1>11, <1>13 DEF Confirms
<1> QED BY <1>4, <1>5, <1>6, <1>7, <1>13, <1>14

\* The sync for real that follows a dry run.
PushRequest(r) == [r EXCEPT !.dry = FALSE, !.auto = FALSE, !.resync = FALSE, !.mode = 1]

LEMMA PushAsked == \A r \in Asked : /\ PushRequest(r) \in Asked /\ PushRequest(r).kind = r.kind
                                    /\ PushRequest(r).by = r.by /\ PushRequest(r).dry = FALSE
<1> TAKE r \in Asked
<1>1. [r EXCEPT !.dry = FALSE] \in Asked /\ [r EXCEPT !.dry = FALSE].kind = r.kind
      /\ [r EXCEPT !.dry = FALSE].by = r.by /\ [r EXCEPT !.dry = FALSE].dry = FALSE
  BY DEF Asked
<1>2. ASSUME NEW x \in Asked
      PROVE  [x EXCEPT !.auto = FALSE] \in Asked /\ [x EXCEPT !.auto = FALSE].kind = x.kind
             /\ [x EXCEPT !.auto = FALSE].by = x.by /\ [x EXCEPT !.auto = FALSE].dry = x.dry
  BY DEF Asked
<1>3. ASSUME NEW x \in Asked
      PROVE  [x EXCEPT !.resync = FALSE] \in Asked /\ [x EXCEPT !.resync = FALSE].kind = x.kind
             /\ [x EXCEPT !.resync = FALSE].by = x.by /\ [x EXCEPT !.resync = FALSE].dry = x.dry
  BY DEF Asked
<1>4. ASSUME NEW x \in Asked
      PROVE  [x EXCEPT !.mode = 1] \in Asked /\ [x EXCEPT !.mode = 1].kind = x.kind
             /\ [x EXCEPT !.mode = 1].by = x.by /\ [x EXCEPT !.mode = 1].dry = x.dry
  BY DEF Asked
<1> DEFINE a == [r EXCEPT !.dry = FALSE]
           b == [a EXCEPT !.auto = FALSE]
           c == [b EXCEPT !.resync = FALSE]
           e == [c EXCEPT !.mode = 1]
<1>5. a \in Asked /\ a.kind = r.kind /\ a.by = r.by /\ a.dry = FALSE
  BY <1>1
<1>6. PushRequest(r) = e
  BY DEF PushRequest
<1> HIDE DEF a
<1>7. b \in Asked /\ b.kind = r.kind /\ b.by = r.by /\ b.dry = FALSE
  BY <1>2, <1>5
<1> HIDE DEF b
<1>8. c \in Asked /\ c.kind = r.kind /\ c.by = r.by /\ c.dry = FALSE
  BY <1>3, <1>7
<1> HIDE DEF c
<1>9. e \in Asked /\ e.kind = r.kind /\ e.by = r.by /\ e.dry = FALSE
  BY <1>4, <1>8
<1> QED BY <1>6, <1>9

LEMMA CommitEffect ==
  ASSUME Typed, NEW j \in Jobs, CommitFlags(j)
  PROVE  /\ JobsTyped' /\ RowsTyped' /\ HistTyped' /\ OthersAge(j, {}, {})
         /\ \/ job'[j] = Idle /\ Unlocks(j)
            \/ Starts(job'[j], PushRequest(job[j].r), "hash") /\ Unlocks(j)
            \/ \E at \in {"rollback", "confirm"} : Moves(job[j], job'[j], at) /\ ~Unlocks(j)
         /\ \A d \in Devices : synced'[d] = Flag(j, d)
         /\ \A d \in Devices : confhash'[d] = IF job[j].confirmed /\ d \in job[j].no THEN None ELSE confhash[d]
<1>0. Running(j) /\ job[j].at = "commit"
  BY DEF CommitFlags, At
<1>1. job[j].r \in Asked /\ job[j].yes \subseteq Devices
  BY <1>0, RunsTyped
<1>2. \A d \in Devices : Flag(j, d) \in BOOLEAN
  BY DEF Flag, Typed, RowsTyped
<1>3. synced' \in [Devices -> BOOLEAN] /\ \A d \in Devices : synced'[d] = Flag(j, d)
  BY <1>2 DEF CommitFlags
<1>4. confhash' \in [Devices -> Configs \cup {None}]
      /\ \A d \in Devices : confhash'[d] = IF job[j].confirmed /\ d \in job[j].no THEN None ELSE confhash[d]
  BY DEF CommitFlags, Typed, RowsTyped
<1>5. RowsTyped'
  BY <1>3, <1>4 DEF CommitFlags, Typed, RowsTyped, config, image
<1>6. HistTyped'
  BY <1>1 DEF CommitFlags, Typed, HistTyped
<1>7. \/ End(j) /\ Unlocks(j)
      \/ AutoPush(j) /\ Unlocks(j)
      \/ (Go(j, "rollback") \/ Go(j, "confirm")) /\ ~Unlocks(j)
  <2>1. Proceed(j)
    BY DEF CommitFlags
  <2> QED BY <2>1 DEF Proceed, Unlocks
<1>8. "rollback" \in Places /\ "confirm" \in Places /\ "hash" \in Places
  BY DEF Places
<1>9. CASE End(j) /\ Unlocks(j)
  BY <1>3, <1>4, <1>5, <1>6, <1>9, EndEffect
<1>10. CASE AutoPush(j) /\ Unlocks(j)
  <2>1. job' = [job EXCEPT ![j] = Start(PushRequest(job[j].r), "hash")]
    BY <1>10 DEF AutoPush, PushRequest
  <2> QED BY <1>1, <1>3, <1>4, <1>5, <1>6, <1>8, <1>10, <2>1, PushAsked, StartEffect
<1>11. CASE Go(j, "rollback") /\ ~Unlocks(j)
  BY <1>0, <1>3, <1>4, <1>5, <1>6, <1>8, <1>11, GoEffect
<1>12. CASE Go(j, "confirm") /\ ~Unlocks(j)
  BY <1>0, <1>3, <1>4, <1>5, <1>6, <1>8, <1>12, GoEffect
<1> QED BY <1>7, <1>9, <1>10, <1>11, <1>12

LEMMA ApplyEffect ==
  ASSUME Typed, NEW j \in Jobs, PushStaticConfig(j)
  PROVE  /\ JobsTyped' /\ RowsTyped' /\ HistTyped'
         /\ \E done \in SUBSET job[j].hosts :
              /\ OthersAge(j, done, {}) /\ Moves(job[j], job'[j], "applied")
              /\ \A d \in Devices : /\ d \in done => running'[d].rev = Static
                                    /\ d \notin done => running'[d] = running[d]
              /\ altered' = altered \cup done /\ astray' = astray \cup done
<1>0. Running(j) /\ job[j].at = "apply"
  BY DEF PushStaticConfig, At
<1> DEFINE h == job[j].hosts
           x == [job[j] EXCEPT !.at = "applied"]
<1>1. job[j] \in JobOf(h) /\ h \subseteq Devices /\ job[j].yes \cap job[j].no = {}
  BY <1>0, RunsTyped
<1>2. PICK done \in {{}, h} :
       /\ running' = [d \in Devices |-> IF d \in done THEN [running[d] EXCEPT !.rev = Static] ELSE running[d]]
       /\ job' = [Old(done, j) EXCEPT ![j].at = "applied"]
       /\ altered' = altered \cup done /\ astray' = astray \cup done
  BY DEF PushStaticConfig
<1>3. done \subseteq h
  BY <1>2
<1>4. \A d \in Devices : running[d] \in Configs /\ [running[d] EXCEPT !.rev = Static] \in Configs
                         /\ [running[d] EXCEPT !.rev = Static].rev = Static
  BY DEF Typed, RowsTyped, Configs, Revs
<1>5. running' \in [Devices -> Configs]
  BY <1>2, <1>4
<1>6. \A d \in Devices : /\ d \in done => running'[d].rev = Static
                         /\ d \notin done => running'[d] = running[d]
  BY <1>2, <1>4
<1>7. RowsTyped' /\ HistTyped'
  BY <1>1, <1>2, <1>3, <1>5 DEF PushStaticConfig, Typed, RowsTyped, HistTyped, belief, image
<1>8. x \in JobOf(h) /\ x.hosts = h /\ x.yes = job[j].yes /\ x.no = job[j].no
  BY <1>1 DEF JobOf, Places
<1>9. Moves(job[j], x, "applied")
  <2>1. x # Idle
    BY <1>8, JobRuns
  <2> QED BY <1>1, <2>1 DEF JobOf, Moves
<1>10. job' = [Old(done, j) EXCEPT ![j] = x]
  BY <1>2, OldAt
<1> HIDE DEF x
<1>11. JobTyped(x)
  BY <1>1, <1>8 DEF JobTyped
<1>12. JobsTyped' /\ OthersAge(j, done, {}) /\ job'[j] = x
  BY <1>10, <1>11, OldPut
<1> QED BY <1>2, <1>3, <1>6, <1>7, <1>9, <1>12

\* The next step of an upgrade, if there is one.
Advances(x, y) ==
  /\ y # Idle /\ y.r = x.r /\ y.hosts = x.hosts
  /\ y.at \in x.r.steps /\ y.at \in {Order[k] : k \in 1..4}

LEMMA MovesStep ==
  ASSUME NEW x, JobTyped(x), x # Idle, NEW at \in {Order[k] : k \in 1..4}
  PROVE  LET y == [x EXCEPT !.at = at, !.go = FALSE]
         IN  JobTyped(y) /\ y # Idle /\ y.r = x.r /\ y.hosts = x.hosts /\ y.at = at
<1> DEFINE y == [x EXCEPT !.at = at, !.go = FALSE]
<1>1. x \in JobOf(x.hosts) /\ x.hosts \subseteq Devices /\ x.yes \cap x.no = {}
  BY DEF JobTyped
<1>2. at \in Places
  BY DEF Places
<1>3. y \in JobOf(x.hosts) /\ y.hosts = x.hosts /\ y.yes = x.yes /\ y.no = x.no /\ y.r = x.r /\ y.at = at
  BY <1>1, <1>2 DEF JobOf
<1> HIDE DEF y
<1>4. y # Idle
  BY <1>3, JobRuns
<1> QED BY <1>1, <1>3, <1>4 DEF JobTyped, y

LEMMA LaterSteps ==
  ASSUME NEW j \in Jobs, job[j].at \in {Order[k] : k \in 1..4}
  PROVE  /\ Later(j) # {} => LET k == CHOOSE k \in Later(j) : \A l \in Later(j) : k <= l
                             IN  k \in 1..4 /\ Order[k] \in job[j].r.steps
         /\ (job[j].at = "reboot" /\ "post" \in job[j].r.steps) =>
              Later(j) # {} /\ \A k \in Later(j) : Order[k] = "post"
<1> DEFINE at == CHOOSE k \in 1..4 : Order[k] = job[j].at
<1>1. at \in 1..4 /\ Order[at] = job[j].at
  OBVIOUS
<1> HIDE DEF at
<1>2. Later(j) = {k \in (at + 1)..4 : Order[k] \in job[j].r.steps}
  BY DEF Later, at
<1>3. Later(j) \subseteq 1..4 /\ \A k \in Later(j) : Order[k] \in job[j].r.steps
  BY <1>1, <1>2
<1>4. ASSUME Later(j) # {}
      PROVE  \E k \in Later(j) : \A l \in Later(j) : k <= l
  BY <1>3, <1>4
<1>5. ASSUME job[j].at = "reboot", "post" \in job[j].r.steps
      PROVE  Later(j) # {} /\ \A k \in Later(j) : Order[k] = "post"
  <2>1. at = 3
    BY <1>1, <1>5 DEF Order
  <2>2. Order[4] = "post"
    BY DEF Order
  <2> QED BY <1>2, <1>5, <2>1, <2>2
<1> HIDE DEF Later
<1>6. ASSUME Later(j) # {}
      PROVE  LET k == CHOOSE k \in Later(j) : \A l \in Later(j) : k <= l
             IN  k \in Later(j)
  BY <1>4, <1>6
<1> QED BY <1>3, <1>5, <1>6

LEMMA NextStepEffect ==
  ASSUME Typed, NEW j \in Jobs, Running(j), job[j].at \in {Order[k] : k \in 1..4},
         NEW ds, NEW jobs, (jobs = job /\ ds = {}) \/ jobs = Old(ds, j), NextStep(jobs, j)
  PROVE  /\ JobsTyped' /\ OthersAge(j, ds, {})
         /\ job'[j] = Idle \/ Advances(job[j], job'[j])
         /\ (job[j].at = "reboot" /\ "post" \in job[j].r.steps) => job'[j] # Idle /\ job'[j].at = "post"
<1> DEFINE k == CHOOSE k \in Later(j) : \A l \in Later(j) : k <= l
           at == Order[k]
           y == [job[j] EXCEPT !.at = at, !.go = FALSE]
           x == IF Later(j) = {} THEN Idle ELSE y
<1>1. JobTyped(job[j]) /\ job[j] # Idle
  BY DEF Typed, JobsTyped, Running
<1>2. Later(j) # {} => k \in 1..4 /\ at \in job[j].r.steps
  BY LaterSteps
<1>3. Later(j) # {} => k \in Later(j)
  <2>1. Later(j) # {} => \E l \in Later(j) : \A m \in Later(j) : l <= m
    <3>1. Later(j) \subseteq 1..4
      BY DEF Later, Order
    <3> HIDE DEF Later
    <3> QED BY <3>1
  <2> HIDE DEF Later
  <2> QED BY <2>1
<1> HIDE DEF k
<1>4. Later(j) # {} => at \in {Order[l] : l \in 1..4}
  BY <1>2
<1> HIDE DEF at
<1>5. Later(j) # {} => JobTyped(y) /\ y # Idle /\ y.r = job[j].r /\ y.hosts = job[j].hosts /\ y.at = at
  BY <1>1, <1>4, MovesStep
<1>6. jobs[j] = job[j]
  BY OldAt
<1>7. job' = [jobs EXCEPT ![j] = x]
  BY <1>6 DEF NextStep, at, k
<1> HIDE DEF y
<1>8. JobTyped(x)
  BY <1>5 DEF JobTyped
<1> HIDE DEF x
<1>9. JobsTyped' /\ OthersAge(j, ds, {}) /\ job'[j] = x
  <2>1. CASE jobs = job /\ ds = {}
    BY <1>7, <1>8, <2>1, Put
  <2>2. CASE jobs = Old(ds, j)
    BY <1>7, <1>8, <2>2, OldPut
  <2> QED BY <2>1, <2>2
<1>10. x = Idle \/ Advances(job[j], x)
  BY <1>2, <1>4, <1>5 DEF x, Advances
<1>11. (job[j].at = "reboot" /\ "post" \in job[j].r.steps) => x # Idle /\ x.at = "post"
  <2> SUFFICES ASSUME job[j].at = "reboot", "post" \in job[j].r.steps
               PROVE  x # Idle /\ x.at = "post"
    OBVIOUS
  <2>1. Later(j) # {} /\ \A l \in Later(j) : Order[l] = "post"
    BY LaterSteps
  <2> QED BY <1>3, <1>5, <2>1 DEF x, at
<1> QED BY <1>9, <1>10, <1>11

LEMMA SetsTyped ==
  ASSUME NEW x, JobTyped(x), x # Idle
  PROVE  /\ JobTyped([x EXCEPT !.go = TRUE]) /\ Moves(x, [x EXCEPT !.go = TRUE], x.at)
         /\ JobTyped([x EXCEPT !.aborted = TRUE]) /\ Moves(x, [x EXCEPT !.aborted = TRUE], x.at)
<1> DEFINE y == [x EXCEPT !.go = TRUE]
           z == [x EXCEPT !.aborted = TRUE]
<1>1. x \in JobOf(x.hosts) /\ x.hosts \subseteq Devices /\ x.yes \cap x.no = {}
  BY DEF JobTyped
<1>2. y \in JobOf(x.hosts) /\ z \in JobOf(x.hosts)
  BY <1>1 DEF JobOf
<1>3. y # Idle /\ z # Idle
  BY <1>2, JobRuns
<1>4. Moves(x, y, x.at) /\ Moves(x, z, x.at)
  BY <1>1, <1>3 DEF JobOf, Moves
<1> HIDE DEF y, z
<1> QED BY <1>1, <1>2, <1>4 DEF JobTyped, Moves, y, z

LEMMA AbortEffect ==
  ASSUME Typed, NEW j \in Jobs, Abort(j)
  PROVE  JobsTyped' /\ OthersAge(j, {}, {}) /\ Moves(job[j], job'[j], job[j].at)
<1>1. job' = [job EXCEPT ![j] = [job[j] EXCEPT !.aborted = TRUE]]
  BY DEF Abort
<1>2. JobTyped(job[j]) /\ job[j] # Idle
  BY DEF Typed, JobsTyped, Abort, Running
<1> DEFINE x == [job[j] EXCEPT !.aborted = TRUE]
<1>3. JobTyped(x) /\ Moves(job[j], x, job[j].at)
  BY <1>2, SetsTyped
<1>4. job' = [job EXCEPT ![j] = x]
  BY <1>1
<1> HIDE DEF x
<1>5. JobsTyped' /\ OthersAge(j, {}, {}) /\ job'[j] = x
  BY <1>3, <1>4, Put
<1> QED BY <1>3, <1>5

LEMMA CheckEffect ==
  ASSUME Typed, NEW j \in Jobs, CheckJobAbortStatus(j), job[j].at \in {Order[k] : k \in 1..4}
  PROVE  /\ JobsTyped' /\ OthersAge(j, {}, {})
         /\ \/ job[j].aborted /\ (job'[j] = Idle \/ Advances(job[j], job'[j]))
            \/ ~job[j].aborted /\ Moves(job[j], job'[j], job[j].at)
<1>0. Running(j) /\ JobTyped(job[j]) /\ job[j] # Idle
  BY DEF Typed, JobsTyped, CheckJobAbortStatus, Running
<1>1. CASE job[j].aborted
  <2>1. NextStep(job, j)
    BY <1>1 DEF CheckJobAbortStatus
  <2> QED BY <1>0, <1>1, <2>1, NextStepEffect
<1>2. CASE ~job[j].aborted
  <2>1. job' = [job EXCEPT ![j] = [job[j] EXCEPT !.go = TRUE]]
    BY <1>2 DEF CheckJobAbortStatus
  <2> DEFINE x == [job[j] EXCEPT !.go = TRUE]
  <2>2. JobTyped(x) /\ Moves(job[j], x, job[j].at)
    BY <1>0, SetsTyped
  <2>3. job' = [job EXCEPT ![j] = x]
    BY <2>1
  <2> HIDE DEF x
  <2>4. JobsTyped' /\ OthersAge(j, {}, {}) /\ job'[j] = x
    BY <2>2, <2>3, Put
  <2> QED BY <1>2, <2>2, <2>4
<1> QED BY <1>1, <1>2

LEMMA FirstStep ==
  ASSUME NEW r \in Requests, r.kind = "upgrade"
  PROVE  LET k == CHOOSE k \in 1..4 : /\ Order[k] \in r.steps
                                      /\ \A l \in 1..(k - 1) : Order[l] \notin r.steps
         IN  k \in 1..4 /\ Order[k] \in r.steps
<1>1. r.steps # {} /\ r.steps \subseteq {Order[k] : k \in 1..4}
  BY KindsAssumption, AskedRequests DEF Asked
<1>2. \E k \in 1..4 : Order[k] \in r.steps /\ \A l \in 1..(k - 1) : Order[l] \notin r.steps
  <2> DEFINE P(k) == Order[k] \in r.steps
  <2>1. P(1) \/ P(2) \/ P(3) \/ P(4)
    <3>1. \E k \in 1..4 : Order[k] \in r.steps
      BY <1>1
    <3> QED BY <3>1
  <2> HIDE DEF P
  <2>2. \E k \in 1..4 : P(k) /\ \A l \in 1..(k - 1) : ~P(l)
    BY <2>1
  <2> QED BY <2>2 DEF P
<1> QED BY <1>2

(***************************************************************************)
(* What a job is doing goes with its kind, and the lock is held by exactly *)
(* the sync that is at work for real.                                      *)
(***************************************************************************)
Steps == {Order[k] : k \in 1..4}
SyncStages == {"hash", "lock", "render", "push", "hashes", "flag", "commit", "confirm", "rollback"}
Holding == {"render", "push", "hashes", "flag", "commit", "confirm", "rollback"}
Holds(x) == x # Idle /\ x.r.kind = "sync" /\ ~x.r.dry /\ x.at \in Holding
StagesOK(x) ==
  /\ x.r.kind = "sync" => x.at \in SyncStages
  /\ x.r.kind = "apply" => x.at \in {"apply", "applied"} /\ x.r.by \in Devices
  /\ x.r.kind = "upgrade" => x.at \in Steps \cap x.r.steps /\ x.r.by \in Devices /\ x.hosts = {x.r.by}
  /\ x.at \in {"lock", "confirm", "rollback"} => ~x.r.dry
StageInv ==
  /\ \A j \in Jobs : (Running(j) => StagesOK(job[j])) /\ (lock = j <=> Holds(job[j]))
  /\ marker # Idle => wanted[marker.dev] < MaxRev

LEMMA PlaceNames ==
  /\ SyncStages \cap Steps = {} /\ SyncStages \cap {"apply", "applied"} = {} /\ {"apply", "applied"} \cap Steps = {}
  /\ Holding \subseteq SyncStages /\ Steps = {"download", "activate", "reboot", "post"}
BY DEF SyncStages, Holding, Steps, Order

\* The kind of a job tells where it is, and where it is tells its kind.
LEMMA KindAt ==
  ASSUME Typed, StageInv, NEW j \in Jobs, Running(j)
  PROVE  /\ job[j].r.kind \in {"sync", "apply", "upgrade"}
         /\ job[j].r.kind = "sync" <=> job[j].at \in SyncStages
         /\ job[j].r.kind = "apply" <=> job[j].at \in {"apply", "applied"}
         /\ job[j].r.kind = "upgrade" <=> job[j].at \in Steps
         /\ job[j].r.kind # "sync" => job[j].r.by \in Devices
         /\ job[j].r.kind = "upgrade" => job[j].hosts = {job[j].r.by} /\ job[j].at \in job[j].r.steps
         /\ job[j].at \in {"lock", "confirm", "rollback"} => ~job[j].r.dry
<1>1. job[j].r.kind \in {"sync", "apply", "upgrade"}
  BY RunsTyped DEF Asked
<1>2. StagesOK(job[j])
  BY DEF StageInv
<1> QED BY <1>1, <1>2, PlaceNames DEF StagesOK

\* Everything but the jobs stays typed when it does not change.
LEMMA TypedNext ==
  ASSUME Typed, StageInv, Next
  PROVE  Typed'
<1>1. ASSUME NEW j \in Jobs, NEW r \in Requests, SyncStart(j, r)
      PROVE  Typed'
  <2>1. JobsTyped'
    BY <1>1, StartEffect, AskedRequests DEF SyncStart, Take, Places
  <2> QED BY <1>1, <2>1, RevAssumption DEF SyncStart, Take, Request, Typed, RowsTyped, HistTyped, config, belief, image, hist
<1>2. ASSUME NEW j \in Jobs, NEW r \in Requests, ApplyStart(j, r)
      PROVE  Typed'
  <2>1. JobsTyped'
    BY <1>2, StartEffect, AskedRequests DEF ApplyStart, Take, Places
  <2> QED BY <1>2, <2>1, RevAssumption DEF ApplyStart, Take, Request, Typed, RowsTyped, HistTyped, config, belief, image, hist
<1>3. ASSUME NEW j \in Jobs, NEW r \in Requests, UpgradeStart(j, r)
      PROVE  Typed'
  <2>1. JobsTyped'
    <3> DEFINE k == CHOOSE k \in 1..4 : /\ Order[k] \in r.steps
                                        /\ \A l \in 1..(k - 1) : Order[l] \notin r.steps
    <3>1. k \in 1..4
      BY <1>3, FirstStep DEF UpgradeStart
    <3>2. Take(j, r, Order[k])
      BY <1>3 DEF UpgradeStart
    <3> HIDE DEF k
    <3>3. Order[k] \in Places
      BY <3>1 DEF Places
    <3> QED BY <3>2, <3>3, StartEffect, AskedRequests DEF Take
  <2> QED BY <1>3, <2>1, RevAssumption DEF UpgradeStart, Take, Request, Typed, RowsTyped, HistTyped, config, belief, image, hist
<1>4. ASSUME NEW j \in Jobs, SyncCheckHash(j)
      PROVE  Typed'
  <2>1. JobsTyped'
    <3>1. Running(j) /\ (End(j) \/ Go(j, "render") \/ Go(j, "lock"))
      BY <1>4 DEF SyncCheckHash, At
    <3> QED BY <3>1, EndEffect, GoEffect DEF Places
  <2>2. synced' \in [Devices -> BOOLEAN] /\ alarm' \subseteq Devices /\ mixed' \subseteq Devices
    <3>1. job[j].hosts \subseteq Devices
      BY <1>4, RunsTyped DEF SyncCheckHash, At
    <3> DEFINE read == {d \in job[j].hosts : job[j].stored[d] # None}
               other == {d \in read : job[j].stored[d] # running[d]}
    <3>2. PICK unreachable \in {{}, read} :
            LET bad == other \cup unreachable IN
            \/ UNCHANGED <<synced, alarm, mixed>>
            \/ /\ synced' = [d \in Devices |-> synced[d] /\ d \notin bad]
               /\ mixed' = mixed \cup bad
               /\ alarm' = alarm \cup {d \in other \ unreachable : ~Excused(d, j)}
      BY <1>4 DEF SyncCheckHash
    <3>3. read \subseteq Devices /\ other \subseteq Devices /\ unreachable \subseteq Devices
      BY <3>1, <3>2
    <3> HIDE DEF read, other
    <3> QED BY <3>2, <3>3 DEF Typed, RowsTyped, HistTyped
  <2> QED BY <1>4, <2>1, <2>2 DEF SyncCheckHash, Typed, RowsTyped, HistTyped, config, image
<1>5. ASSUME NEW j \in Jobs, AcquireLock(j)
      PROVE  Typed'
  <2>1. Running(j) /\ (End(j) \/ Go(j, "render")) /\ lock' \in Jobs \cup {None}
    BY <1>5 DEF AcquireLock, At, Typed
  <2>2. JobsTyped'
    BY <2>1, EndEffect, GoEffect DEF Places
  <2> QED BY <1>5, <2>1, <2>2 DEF AcquireLock, Typed, RowsTyped, HistTyped, config, belief, image, hist
<1>6. ASSUME NEW j \in Jobs, PopulateDeviceVars(j)
      PROVE  Typed'
  <2>1. JobsTyped'
    BY <1>6, RenderEffect
  <2> QED BY <1>6, <2>1 DEF PopulateDeviceVars, Typed, RowsTyped, HistTyped, config, belief, image, hist
<1>7. ASSUME NEW j \in Jobs, PushSyncDevice(j)
      PROVE  Typed'
  BY <1>7, PushEffect DEF PushSyncDevice, Typed
<1>8. ASSUME NEW j \in Jobs, PostSyncUpdateConfighash(j)
      PROVE  Typed'
  BY <1>8, HashesEffect DEF PostSyncUpdateConfighash, Typed
<1>9. ASSUME NEW j \in Jobs, SetFlags(j)
      PROVE  Typed'
  BY <1>9, FlagsEffect DEF SetFlags, Typed
<1>10. ASSUME NEW j \in Jobs, CommitFlags(j)
       PROVE  Typed'
  <2>1. JobsTyped' /\ RowsTyped' /\ HistTyped'
    BY <1>10, CommitEffect
  <2> QED BY <1>10, <2>1 DEF CommitFlags, Typed
<1>11. ASSUME NEW j \in Jobs, RollbackWait(j)
       PROVE  Typed'
  <2>1. JobsTyped'
    BY <1>11, EndEffect DEF RollbackWait
  <2> QED BY <1>11, <2>1 DEF RollbackWait, Typed, RowsTyped, HistTyped, config, belief, image, hist
<1>12. ASSUME NEW j \in Jobs, ConfirmDevices(j)
       PROVE  Typed'
  BY <1>12, ConfirmEffect DEF ConfirmDevices, Typed
<1>13. ASSUME NEW j \in Jobs, PushStaticConfig(j)
       PROVE  Typed'
  BY <1>13, ApplyEffect DEF PushStaticConfig, Typed
<1>14. ASSUME NEW j \in Jobs, ApplyDone(j)
       PROVE  Typed'
  <2>1. JobsTyped'
    BY <1>14, EndEffect DEF ApplyDone
  <2>2. mixed' \subseteq Devices /\ job[j].r.by \in Devices
    <3>1. job[j].r.by \in Devices
      BY <1>14, KindAt DEF ApplyDone, At
    <3> QED BY <1>14, <3>1 DEF ApplyDone, Mix, Between, Typed, HistTyped
  <2>3. events' \in [Devices -> SUBSET Causes]
    BY <1>14, <2>2 DEF ApplyDone, Typed, RowsTyped, Causes
  <2> QED BY <1>14, <2>1, <2>2, <2>3 DEF ApplyDone, Typed, RowsTyped, HistTyped, config, image
<1>15. ASSUME NEW j \in Jobs, CheckJobAbortStatus(j)
       PROVE  Typed'
  <2>1. Running(j) /\ job[j].r.kind = "upgrade"
    BY <1>15 DEF CheckJobAbortStatus
  <2>2. JobsTyped'
    BY <1>15, <2>1, KindAt, CheckEffect DEF Steps
  <2> QED BY <1>15, <2>1, <2>2, RunsTyped DEF CheckJobAbortStatus, Typed, RowsTyped, HistTyped, config, belief, image
<1>16. ASSUME NEW j \in Jobs, FirmwareDownload(j)
       PROVE  Typed'
  <2>1. Running(j) /\ job[j].at \in {Order[k] : k \in 1..4} /\ (NextStep(job, j) \/ End(j))
    BY <1>16, PlaceNames DEF FirmwareDownload, Step, At, Steps
  <2>2. JobsTyped'
    BY <2>1, NextStepEffect, EndEffect
  <2> QED BY <1>16, <2>2 DEF FirmwareDownload, Typed, RowsTyped, HistTyped, config, belief, image, hist
<1>17. ASSUME NEW j \in Jobs, FirmwareActivate(j)
       PROVE  Typed'
  <2>1. Running(j) /\ job[j].at \in {Order[k] : k \in 1..4} /\ (NextStep(job, j) \/ End(j))
    BY <1>17, PlaceNames DEF FirmwareActivate, Step, At, Steps
  <2>2. JobsTyped'
    BY <2>1, NextStepEffect, EndEffect
  <2> QED BY <1>17, <2>2 DEF FirmwareActivate, Typed, RowsTyped, HistTyped, config, belief, hist
<1>18. ASSUME NEW j \in Jobs, DeviceReboot(j)
       PROVE  Typed'
  <2>1. Running(j) /\ job[j].at \in {Order[k] : k \in 1..4} /\ job[j].at \in Steps
    BY <1>18, PlaceNames DEF DeviceReboot, Step, At, Steps
  <2>2. job[j].r.by \in Devices
    BY <2>1, KindAt
  <2> DEFINE d == job[j].r.by
  <2>3. PICK done \in BOOLEAN :
          LET other == done /\ os[d] # boot[d] IN
          /\ os' = IF done THEN [os EXCEPT ![d] = boot[d]] ELSE os
          /\ running' = IF other THEN [running EXCEPT ![d].form = 1 - @] ELSE running
          /\ rebooted' = IF other THEN rebooted \cup {d} ELSE rebooted
          /\ unmarked' = IF other /\ "post" \notin job[j].r.steps THEN unmarked \cup {d} ELSE unmarked
          /\ NextStep(IF other THEN Old({d}, j) ELSE job, j)
    BY <1>18 DEF DeviceReboot
  <2>4. NextStep(job, j) \/ NextStep(Old({d}, j), j)
    BY <2>3
  <2>5. JobsTyped'
    BY <2>1, <2>4, NextStepEffect
  <2>6. os' \in [Devices -> {"old", "new"}] /\ rebooted' \subseteq Devices /\ unmarked' \subseteq Devices
    BY <2>2, <2>3 DEF Typed, RowsTyped, HistTyped
  <2>7. running' \in [Devices -> Configs]
    <3>1. [running[d] EXCEPT !.form = 1 - @] \in Configs
      <4>1. running[d] \in [rev: Revs, form: 0..1]
        BY <2>2 DEF Typed, RowsTyped, Configs
      <4> HIDE DEF d
      <4> QED BY <4>1 DEF Configs
    <3> QED BY <2>2, <2>3, <3>1 DEF Typed, RowsTyped
  <2> QED BY <1>18, <2>5, <2>6, <2>7 DEF DeviceReboot, Typed, RowsTyped, HistTyped, belief
<1>19. ASSUME NEW j \in Jobs, PostFlightCheck(j)
       PROVE  Typed'
  <2>1. Running(j) /\ job[j].at \in Steps
    BY <1>19, PlaceNames DEF PostFlightCheck, Step, At
  <2>2. job[j].r.by \in Devices
    BY <2>1, KindAt
  <2>3. JobTyped(Idle)
    BY DEF JobTyped
  <2>4. JobsTyped'
    BY <1>19, <2>3, OldPut, EndEffect DEF PostFlightCheck
  <2>5. confhash' \in [Devices -> Configs \cup {None}] /\ synced' \in [Devices -> BOOLEAN]
        /\ events' \in [Devices -> SUBSET Causes] /\ dbos' \in [Devices -> {"old", "new"}]
    <3> DEFINE d == job[j].r.by
    <3>1. CASE /\ dbos' = [dbos EXCEPT ![d] = os[d]]
               /\ confhash' = [confhash EXCEPT ![d] = UpgradedHash(d)]
               /\ synced' = [synced EXCEPT ![d] = FALSE]
               /\ events' = [events EXCEPT ![d] = @ \cup {"upgrade"}]
      <4> HIDE DEF d
      <4>1. confhash' \in [Devices -> Configs \cup {None}] /\ synced' \in [Devices -> BOOLEAN]
        BY <3>1 DEF UpgradedHash, Typed, RowsTyped
      <4>2. events' \in [Devices -> SUBSET Causes]
        BY <3>1 DEF Typed, RowsTyped, Causes
      <4>3. dbos' \in [Devices -> {"old", "new"}]
        BY <2>2, <3>1 DEF Typed, RowsTyped, d
      <4> QED BY <4>1, <4>2, <4>3
    <3>2. CASE UNCHANGED <<dbos, confhash, synced, events, mixed, rebooted>>
      BY <3>2 DEF Typed, RowsTyped
    <3> QED BY <1>19, <3>1, <3>2 DEF PostFlightCheck
  <2>6. rebooted' \subseteq Devices /\ unmarked' \subseteq Devices /\ mixed' \subseteq Devices
    BY <1>19, <2>2 DEF PostFlightCheck, Mix, Between, Typed, HistTyped
  <2> QED BY <1>19, <2>4, <2>5, <2>6 DEF PostFlightCheck, Typed, RowsTyped, HistTyped, config
<1>20. ASSUME NEW j \in Jobs, Abort(j)
       PROVE  Typed'
  <2>1. JobsTyped'
    BY <1>20, AbortEffect
  <2> QED BY <1>20, <2>1, RevAssumption DEF Abort, Request, Typed, RowsTyped, HistTyped, config, belief, image, hist
<1>21. ASSUME NEW d \in Devices, Revert(d)
       PROVE  Typed'
  <2>1. JobsTyped'
    BY <1>21, AlteredJobs DEF Revert, JobsTyped
  <2> QED BY <1>21, <2>1 DEF Revert, Typed, RowsTyped, HistTyped, belief, image
<1>22. ASSUME NEW d \in Devices, UpdateFacts(d)
       PROVE  Typed'
  BY <1>22, RevAssumption DEF UpdateFacts, Request, Typed, RowsTyped, HistTyped, JobsTyped, config, belief
<1>23. ASSUME NEW d \in Devices, MarkRead(d)
       PROVE  Typed'
  BY <1>23, RevAssumption DEF MarkRead, Request, Typed, RowsTyped, HistTyped, JobsTyped, config, belief, image
<1>24. ASSUME NEW d \in Devices, NEW value \in BOOLEAN, PutSynchronized(d, value)
       PROVE  Typed'
  <2>1. mixed' \subseteq Devices
    BY <1>24 DEF PutSynchronized, Mix, Between, Typed, HistTyped
  <2> QED BY <1>24, <2>1, RevAssumption DEF PutSynchronized, Request, Typed, RowsTyped, HistTyped, JobsTyped, config, image
<1>25. ASSUME NEW d \in Devices, NEW value \in BOOLEAN, PutState(d, value)
       PROVE  Typed'
  <2>1. mixed' \subseteq Devices
    BY <1>25 DEF PutState, Mix, Between, Typed, HistTyped
  <2>2. events' \in [Devices -> SUBSET Causes]
    BY <1>25 DEF PutState, Typed, RowsTyped, Causes
  <2>3. synced' \in [Devices -> BOOLEAN] /\ managed' \in [Devices -> BOOLEAN]
    BY <1>25 DEF PutState, Typed, RowsTyped
  <2>4. RowsTyped' /\ JobsTyped'
    BY <1>25, <2>2, <2>3 DEF PutState, Typed, RowsTyped, JobsTyped, config, image
  <2>5. HistTyped'
    BY <1>25, <2>1 DEF PutState, Typed, HistTyped
  <2>6. used' \in 0..MaxEvents
    BY <1>25, RevAssumption DEF PutState, Request, Typed
  <2> QED BY <1>25, <2>4, <2>5, <2>6 DEF PutState, Typed
<1>26. ASSUME NEW d \in Devices, PostEvent(d)
       PROVE  Typed'
  <2>1. mixed' \subseteq Devices
    BY <1>26 DEF PostEvent, Between, Typed, HistTyped
  <2>2. events' \in [Devices -> SUBSET Causes]
    BY <1>26 DEF PostEvent, Typed, RowsTyped, Causes
  <2>3. RowsTyped' /\ JobsTyped'
    BY <1>26, <2>2 DEF PostEvent, Typed, RowsTyped, JobsTyped, config, image
  <2>4. HistTyped'
    BY <1>26, <2>1 DEF PostEvent, Typed, HistTyped
  <2>5. used' \in 0..MaxEvents
    BY <1>26, RevAssumption DEF PostEvent, Request, Typed
  <2> QED BY <1>26, <2>3, <2>4, <2>5 DEF PostEvent, Typed
<1>27. ASSUME NEW d \in Devices, Tamper(d)
       PROVE  Typed'
  <2>1. JobsTyped'
    BY <1>27, AlteredJobs DEF Tamper, JobsTyped
  <2>2. running' \in [Devices -> Configs]
    <3>1. [running[d] EXCEPT !.rev = Alien] \in Configs /\ [running[d] EXCEPT !.form = 1 - @] \in Configs
      BY DEF Typed, RowsTyped, Configs, Revs
    <3> QED BY <1>27, <3>1 DEF Tamper, Typed, RowsTyped
  <2> QED BY <1>27, <2>1, <2>2, RevAssumption DEF Tamper, Request, Typed, RowsTyped, HistTyped, belief, image
<1>28. CASE ReadEvents
  BY <1>28 DEF ReadEvents, Typed, RowsTyped, HistTyped, JobsTyped, config, belief, image, hist, Idle
<1>29. CASE WriteEvents
  <2>1. events' \in [Devices -> SUBSET Causes]
    BY <1>29 DEF WriteEvents, Typed, RowsTyped, Causes, Idle
  <2> QED BY <1>29, <2>1 DEF WriteEvents, Typed, RowsTyped, HistTyped, JobsTyped, config, image, hist, Idle
<1>30. CASE MarkStore
  <2> DEFINE d == marker.dev
  <2>1. d \in Devices /\ wanted[d] < MaxRev
    BY <1>30 DEF MarkStore, Typed, StageInv, Idle
  <2>2. JobsTyped'
    <3>1. job' = Old({d}, None)
      BY <1>30 DEF MarkStore
    <3> QED BY <3>1, OldJobs DEF JobsTyped
  <2>3. wanted' \in [Devices -> 0..MaxRev]
    BY <1>30, <2>1, RevAssumption DEF MarkStore, Typed, RowsTyped
  <2>4. synced' \in [Devices -> BOOLEAN] /\ astray' \subseteq Devices /\ mixed' \subseteq Devices /\ marker' = Idle
    BY <1>30, <2>1 DEF MarkStore, Typed, RowsTyped, HistTyped
  <2> QED BY <1>30, <2>2, <2>3, <2>4 DEF MarkStore, Typed, RowsTyped, HistTyped, image
<1>31. CASE MarkFails
  BY <1>31 DEF MarkFails, Typed, RowsTyped, HistTyped, JobsTyped, config, belief, image, Idle
<1> QED BY <1>1, <1>2, <1>3, <1>4, <1>5, <1>6, <1>7, <1>8, <1>9, <1>10, <1>11, <1>12, <1>13, <1>14, <1>15,
           <1>16, <1>17, <1>18, <1>19, <1>20, <1>21, <1>22, <1>23, <1>24, <1>25, <1>26, <1>27, <1>28, <1>29,
           <1>30, <1>31 DEF Next, Sync, Upgrade

\* A job that ages is of the same kind, at the same place.
LEMMA AgedStages ==
  ASSUME NEW x, NEW y, NEW ds, NEW dl, Aged(x, y, ds, dl)
  PROVE  /\ (x # Idle => StagesOK(x)) => (y # Idle => StagesOK(y))
         /\ Holds(x) <=> Holds(y)
BY DEF Aged, Kept, StagesOK, Holds

\* One job takes a step; the lock stays, is taken, or is given back.
LEMMA StageMoves ==
  ASSUME Typed, StageInv, NEW j \in Jobs, NEW ds, NEW dl, OthersAge(j, ds, dl),
         job'[j] # Idle => StagesOK(job'[j]), UNCHANGED <<wanted, marker>>,
         \/ lock' = lock /\ (Holds(job[j]) <=> Holds(job'[j]))
         \/ lock = None /\ lock' = j /\ Holds(job'[j])
         \/ lock' = (IF lock = j THEN None ELSE lock) /\ ~Holds(job'[j])
  PROVE  StageInv'
<1>1. ASSUME NEW i \in Jobs \ {j}
      PROVE  (job'[i] # Idle => StagesOK(job'[i])) /\ (Holds(job[i]) <=> Holds(job'[i]))
  BY <1>1, AgedStages DEF OthersAge, StageInv, Running
<1>2. lock' = lock \/ (lock = None /\ lock' = j) \/ (lock = j /\ lock' = None)
  OBVIOUS
<1>3. None \notin Jobs
  BY NoneAssumption
<1>4. \A i \in Jobs : lock' = i <=> Holds(job'[i])
  BY <1>1, <1>2, <1>3 DEF StageInv
<1>5. \A i \in Jobs : job'[i] # Idle => StagesOK(job'[i])
  BY <1>1
<1>6. (marker # Idle => wanted[marker.dev] < MaxRev)'
  BY DEF StageInv
<1> QED BY <1>4, <1>5, <1>6 DEF StageInv, Running

LEMMA StageAges ==
  ASSUME Typed, StageInv, NEW ds, NEW dl, \A i \in Jobs : Aged(job[i], job'[i], ds, dl), lock' = lock,
         marker' # Idle => wanted'[marker'.dev] < MaxRev
  PROVE  StageInv'
<1>1. ASSUME NEW i \in Jobs
      PROVE  (job'[i] # Idle => StagesOK(job'[i])) /\ (Holds(job[i]) <=> Holds(job'[i]))
  BY <1>1, AgedStages DEF StageInv, Running
<1> QED BY <1>1 DEF StageInv, Running

LEMMA StageStays ==
  ASSUME StageInv, UNCHANGED <<job, lock>>, marker' # Idle => wanted'[marker'.dev] < MaxRev
  PROVE  StageInv'
BY DEF StageInv, Running, Holds, StagesOK

\* A sync moves on among its own places.
LEMMA SyncMoves ==
  ASSUME Typed, StageInv, NEW j \in Jobs, At(j, job[j].at), job[j].at \in SyncStages,
         job'[j].r = job[j].r, job'[j].at \in SyncStages,
         job'[j].at \in {"lock", "confirm", "rollback"} => ~job[j].r.dry
  PROVE  /\ StagesOK(job'[j]) /\ job[j].r.kind = "sync"
         /\ job[j].at \in Holding /\ job'[j].at \in Holding /\ job'[j] # Idle => (Holds(job[j]) <=> Holds(job'[j]))
<1>1. job[j].r.kind = "sync" /\ job[j] # Idle
  BY KindAt DEF At, Running
<1> QED BY <1>1 DEF StagesOK, Holds

LEMMA StageNext ==
  ASSUME Typed, StageInv, Next
  PROVE  StageInv'
<1>1. ASSUME NEW j \in Jobs, NEW r \in Requests, SyncStart(j, r)
      PROVE  StageInv'
  <2>1. OthersAge(j, {}, {}) /\ Starts(job'[j], r, "hash")
    BY <1>1, StartEffect, AskedRequests DEF SyncStart, Take, Places
  <2>2. StagesOK(job'[j]) /\ ~Holds(job'[j]) /\ ~Holds(job[j])
    BY <1>1, <2>1 DEF SyncStart, Take, Starts, StagesOK, Holds, SyncStages, Holding, Running
  <2> QED BY <1>1, <2>1, <2>2, StageMoves DEF SyncStart, config
<1>2. ASSUME NEW j \in Jobs, NEW r \in Requests, ApplyStart(j, r)
      PROVE  StageInv'
  <2>1. OthersAge(j, {}, {}) /\ Starts(job'[j], r, "apply")
    BY <1>2, StartEffect, AskedRequests DEF ApplyStart, Take, Places
  <2>2. r.by \in Devices /\ r.kind = "apply"
    BY <1>2, KindsAssumption DEF ApplyStart
  <2>3. StagesOK(job'[j]) /\ ~Holds(job'[j]) /\ ~Holds(job[j])
    BY <1>2, <2>1, <2>2 DEF ApplyStart, Take, Starts, StagesOK, Holds, Holding, Running
  <2> QED BY <1>2, <2>1, <2>3, StageMoves DEF ApplyStart, config
<1>3. ASSUME NEW j \in Jobs, NEW r \in Requests, UpgradeStart(j, r)
      PROVE  StageInv'
  <2> DEFINE k == CHOOSE k \in 1..4 : /\ Order[k] \in r.steps
                                      /\ \A l \in 1..(k - 1) : Order[l] \notin r.steps
  <2>1. k \in 1..4 /\ Order[k] \in r.steps /\ r.kind = "upgrade"
    BY <1>3, FirstStep DEF UpgradeStart
  <2>2. Take(j, r, Order[k])
    BY <1>3 DEF UpgradeStart
  <2> HIDE DEF k
  <2> DEFINE at == Order[k]
  <2>3. at \in Places /\ at \in Steps \cap r.steps
    BY <2>1 DEF Places, Steps
  <2> HIDE DEF at
  <2>4. OthersAge(j, {}, {}) /\ Starts(job'[j], r, at)
    BY <2>2, <2>3, StartEffect, AskedRequests DEF Take, at
  <2>5. r.by \in Devices /\ Selected(r) = {r.by}
    <3>1. r.by \in Devices /\ r.by # "all"
      BY <2>1, KindsAssumption
    <3> QED BY <1>3, <3>1 DEF UpgradeStart, Selected
  <2>6. StagesOK(job'[j]) /\ ~Holds(job'[j]) /\ ~Holds(job[j])
    <3>1. ~Holds(job[j])
      BY <2>2 DEF Take, Running, Holds
    <3>2. job'[j].r = r /\ job'[j].at = at /\ job'[j].hosts = {r.by}
      BY <2>4, <2>5 DEF Starts
    <3>3. at \notin SyncStages /\ at \notin {"lock", "confirm", "rollback"}
      BY <2>3, PlaceNames DEF SyncStages
    <3> QED BY <2>1, <2>3, <2>5, <3>1, <3>2, <3>3 DEF StagesOK, Holds
  <2> QED BY <1>3, <2>4, <2>6, StageMoves DEF UpgradeStart, config
<1>4. ASSUME NEW j \in Jobs, SyncCheckHash(j)
      PROVE  StageInv'
  <2>1. Running(j) /\ job[j].at = "hash" /\ UNCHANGED <<wanted, lock, marker>>
        /\ (End(j) \/ Go(j, IF job[j].r.dry THEN "render" ELSE "lock"))
    BY <1>4 DEF SyncCheckHash, At, config
  <2>2. ~Holds(job[j])
    BY <2>1 DEF Holds, Holding
  <2>3. CASE End(j)
    BY <2>1, <2>2, <2>3, EndEffect, StageMoves DEF Holds
  <2>4. CASE Go(j, IF job[j].r.dry THEN "render" ELSE "lock")
    <3> DEFINE at == IF job[j].r.dry THEN "render" ELSE "lock"
    <3>1. OthersAge(j, {}, {}) /\ Moves(job[j], job'[j], at)
      BY <2>1, <2>4, GoEffect DEF Places
    <3>2. StagesOK(job'[j]) /\ ~Holds(job'[j])
      <4>1. job[j].r.kind = "sync"
        BY <2>1, KindAt DEF SyncStages
      <4> QED BY <3>1, <4>1 DEF Moves, StagesOK, SyncStages, Holds, Holding
    <3> QED BY <2>1, <2>2, <3>1, <3>2, StageMoves
  <2> QED BY <2>1, <2>3, <2>4
<1>5. ASSUME NEW j \in Jobs, AcquireLock(j)
      PROVE  StageInv'
  <2>1. Running(j) /\ job[j].at = "lock" /\ UNCHANGED <<wanted, marker>>
    BY <1>5 DEF AcquireLock, At, config
  <2>2. job[j].r.kind = "sync" /\ ~job[j].r.dry /\ ~Holds(job[j])
    BY <2>1, KindAt DEF SyncStages, Holds, Holding
  <2>3. CASE lock = None
    <3>1. OthersAge(j, {}, {}) /\ Moves(job[j], job'[j], "render") /\ lock' = j
      BY <1>5, <2>1, <2>3, GoEffect DEF AcquireLock, Places
    <3>2. StagesOK(job'[j]) /\ Holds(job'[j])
      BY <2>2, <3>1 DEF Moves, StagesOK, SyncStages, Holds, Holding
    <3> QED BY <2>1, <2>3, <3>1, <3>2, StageMoves
  <2>4. CASE lock # None
    <3>1. OthersAge(j, {}, {}) /\ job'[j] = Idle /\ lock' = lock
      BY <1>5, <2>4, EndEffect DEF AcquireLock
    <3> QED BY <2>1, <2>2, <3>1, StageMoves DEF Holds
  <2> QED BY <2>3, <2>4
<1>6. ASSUME NEW j \in Jobs, PopulateDeviceVars(j)
      PROVE  StageInv'
  <2>1. Running(j) /\ job[j].at = "render" /\ UNCHANGED <<wanted, marker, lock>>
    BY <1>6 DEF PopulateDeviceVars, At, config
  <2>2. OthersAge(j, {}, {}) /\ job'[j] # Idle /\ job'[j].at = "push" /\ job'[j].r = job[j].r
    BY <1>6, RenderEffect
  <2> QED BY <2>1, <2>2, SyncMoves, StageMoves DEF At, SyncStages, Holding
<1>7. ASSUME NEW j \in Jobs, PushSyncDevice(j)
      PROVE  StageInv'
  <2>1. Running(j) /\ job[j].at = "push" /\ UNCHANGED <<wanted, marker, lock>>
    BY <1>7 DEF PushSyncDevice, At
  <2>2. PICK failed, took, changed, kept :
          /\ Pushes(j, failed, took, changed, kept)
          /\ OthersAge(j, IF job[j].r.dry THEN {} ELSE changed \cup took, {})
    BY <1>7, PushEffect
  <2>3. job'[j] # Idle /\ job'[j].at \in {"hashes", "flag"} /\ job'[j].r = job[j].r
    BY <2>2 DEF Pushes
  <2> QED BY <2>1, <2>2, <2>3, SyncMoves, StageMoves DEF At, SyncStages, Holding
<1>8. ASSUME NEW j \in Jobs, PostSyncUpdateConfighash(j)
      PROVE  StageInv'
  <2>1. Running(j) /\ job[j].at = "hashes" /\ UNCHANGED <<wanted, marker, lock>>
    BY <1>8 DEF PostSyncUpdateConfighash, At, config
  <2>2. PICK got \in SUBSET HashTargets(j) : OthersAge(j, got, {}) /\ Moves(job[j], job'[j], "flag")
    BY <1>8, HashesEffect
  <2> QED BY <2>1, <2>2, SyncMoves, StageMoves DEF Moves, At, SyncStages, Holding
<1>9. ASSUME NEW j \in Jobs, SetFlags(j)
      PROVE  StageInv'
  <2>1. Running(j) /\ job[j].at = "flag" /\ UNCHANGED <<wanted, marker, lock>>
    BY <1>9 DEF SetFlags, At, config
  <2>2. OthersAge(j, {}, {}) /\ Flags(job[j], job'[j], Told(j))
    BY <1>9, FlagsEffect
  <2> QED BY <2>1, <2>2, SyncMoves, StageMoves DEF Flags, At, SyncStages, Holding
<1>10. ASSUME NEW j \in Jobs, CommitFlags(j)
       PROVE  StageInv'
  <2>1. Running(j) /\ job[j].at = "commit" /\ UNCHANGED <<wanted, marker>>
        /\ lock' = IF Unlocks(j) /\ lock = j THEN None ELSE lock
    BY <1>10 DEF CommitFlags, At, config
  <2>2. /\ OthersAge(j, {}, {})
        /\ \/ job'[j] = Idle /\ Unlocks(j)
           \/ Starts(job'[j], PushRequest(job[j].r), "hash") /\ Unlocks(j)
           \/ \E at \in {"rollback", "confirm"} : Moves(job[j], job'[j], at) /\ ~Unlocks(j)
    BY <1>10, CommitEffect
  <2>3. job[j].r.kind = "sync" /\ job[j].r \in Asked
    BY <2>1, KindAt, RunsTyped DEF SyncStages
  <2>4. CASE job'[j] = Idle /\ Unlocks(j)
    BY <2>1, <2>2, <2>4, StageMoves DEF Holds
  <2>5. CASE Starts(job'[j], PushRequest(job[j].r), "hash") /\ Unlocks(j)
    <3>1. StagesOK(job'[j]) /\ ~Holds(job'[j])
      BY <2>3, <2>5, PushAsked DEF Starts, StagesOK, SyncStages, Holds, Holding
    <3> QED BY <2>1, <2>2, <2>5, <3>1, StageMoves
  <2>6. CASE \E at \in {"rollback", "confirm"} : Moves(job[j], job'[j], at) /\ ~Unlocks(j)
    <3>1. ~job[j].r.dry
      BY <2>6 DEF Unlocks, Confirming
    <3>2. job'[j] # Idle /\ job'[j].at \in {"rollback", "confirm"} /\ job'[j].r = job[j].r /\ lock' = lock
      BY <2>1, <2>6 DEF Moves
    <3> QED BY <2>1, <2>2, <3>1, <3>2, SyncMoves, StageMoves DEF At, SyncStages, Holding
  <2> QED BY <2>2, <2>4, <2>5, <2>6
<1>11. ASSUME NEW j \in Jobs, RollbackWait(j)
       PROVE  StageInv'
  BY <1>11, EndEffect, StageMoves DEF RollbackWait, Holds, config
<1>12. ASSUME NEW j \in Jobs, ConfirmDevices(j)
       PROVE  StageInv'
  <2>1. Running(j) /\ job[j].at = "confirm" /\ UNCHANGED <<wanted, marker, lock>>
    BY <1>12 DEF ConfirmDevices, At
  <2>2. PICK ok \in SUBSET job[j].changed : \E got \in SUBSET ok : \E no \in SUBSET job[j].changed :
          OthersAge(j, got, {}) /\ Confirms(job[j], job'[j], ok, no)
    BY <1>12, ConfirmEffect
  <2> QED BY <2>1, <2>2, SyncMoves, StageMoves DEF Confirms, At, SyncStages, Holding
<1>13. ASSUME NEW j \in Jobs, PushStaticConfig(j)
       PROVE  StageInv'
  <2>1. Running(j) /\ job[j].at = "apply" /\ UNCHANGED <<wanted, marker, lock>>
    BY <1>13 DEF PushStaticConfig, At
  <2>2. PICK done \in SUBSET job[j].hosts : OthersAge(j, done, {}) /\ Moves(job[j], job'[j], "applied")
    BY <1>13, ApplyEffect
  <2>3. job[j].r.kind = "apply" /\ job[j].r.by \in Devices
    BY <2>1, KindAt
  <2>4. StagesOK(job'[j]) /\ ~Holds(job[j]) /\ ~Holds(job'[j])
    BY <2>2, <2>3 DEF Moves, StagesOK, Holds
  <2> QED BY <2>1, <2>2, <2>4, StageMoves
<1>14. ASSUME NEW j \in Jobs, ApplyDone(j)
       PROVE  StageInv'
  <2>1. ~Holds(job[j])
    BY <1>14 DEF ApplyDone, At, Holds, Holding
  <2> QED BY <1>14, <2>1, EndEffect, StageMoves DEF ApplyDone, Holds, config
<1>15. ASSUME NEW j \in Jobs, Running(j), job[j].at \in Steps, UNCHANGED <<wanted, marker, lock>>,
              NEW ds, NEW dl, OthersAge(j, ds, dl),
              job'[j] = Idle \/ Advances(job[j], job'[j]) \/ Moves(job[j], job'[j], job[j].at)
       PROVE  StageInv'
  <2>1. job[j].r.kind = "upgrade" /\ job[j].r.by \in Devices /\ job[j].hosts = {job[j].r.by}
        /\ job[j].at \in job[j].r.steps
    BY <1>15, KindAt
  <2>2. ~Holds(job[j]) /\ ~Holds(job'[j])
    BY <1>15, <2>1 DEF Holds, Advances, Moves
  <2>3. job'[j] # Idle => StagesOK(job'[j])
    <3>1. job'[j] # Idle => job'[j].r = job[j].r /\ job'[j].hosts = job[j].hosts
                            /\ job'[j].at \in Steps \cap job[j].r.steps
      BY <1>15, <2>1 DEF Advances, Moves, Steps
    <3> QED BY <2>1, <3>1, PlaceNames DEF StagesOK
  <2> QED BY <1>15, <2>2, <2>3, StageMoves
<1>16. ASSUME NEW j \in Jobs, CheckJobAbortStatus(j)
       PROVE  StageInv'
  <2>1. Running(j) /\ job[j].at \in Steps
    BY <1>16, KindAt DEF CheckJobAbortStatus
  <2> QED BY <1>15, <1>16, <2>1, CheckEffect DEF CheckJobAbortStatus, Steps, config
<1>17. ASSUME NEW j \in Jobs, FirmwareDownload(j)
       PROVE  StageInv'
  <2>1. Running(j) /\ job[j].at \in Steps
    BY <1>17, PlaceNames DEF FirmwareDownload, Step, At
  <2>2. OthersAge(j, {}, {}) /\ (job'[j] = Idle \/ Advances(job[j], job'[j]))
    BY <1>17, <2>1, NextStepEffect, EndEffect DEF FirmwareDownload, Steps
  <2> QED BY <1>15, <1>17, <2>1, <2>2 DEF FirmwareDownload, config
<1>18. ASSUME NEW j \in Jobs, FirmwareActivate(j)
       PROVE  StageInv'
  <2>1. Running(j) /\ job[j].at \in Steps
    BY <1>18, PlaceNames DEF FirmwareActivate, Step, At
  <2>2. OthersAge(j, {}, {}) /\ (job'[j] = Idle \/ Advances(job[j], job'[j]))
    BY <1>18, <2>1, NextStepEffect, EndEffect DEF FirmwareActivate, Steps
  <2> QED BY <1>15, <1>18, <2>1, <2>2 DEF FirmwareActivate, config
<1>19. ASSUME NEW j \in Jobs, DeviceReboot(j)
       PROVE  StageInv'
  <2>1. Running(j) /\ job[j].at \in Steps
    BY <1>19, PlaceNames DEF DeviceReboot, Step, At
  <2>2. NextStep(job, j) \/ NextStep(Old({job[j].r.by}, j), j)
    BY <1>19 DEF DeviceReboot
  <2>3. \E ds : OthersAge(j, ds, {}) /\ (job'[j] = Idle \/ Advances(job[j], job'[j]))
    BY <2>1, <2>2, NextStepEffect DEF Steps
  <2> QED BY <1>15, <1>19, <2>1, <2>3 DEF DeviceReboot
<1>20. ASSUME NEW j \in Jobs, PostFlightCheck(j)
       PROVE  StageInv'
  <2>1. Running(j) /\ job[j].at \in Steps
    BY <1>20, PlaceNames DEF PostFlightCheck, Step, At
  <2>2. JobTyped(Idle)
    BY DEF JobTyped
  <2>3. \E ds : OthersAge(j, ds, {}) /\ job'[j] = Idle
    <3>1. job' = [Old({job[j].r.by}, j) EXCEPT ![j] = Idle] \/ End(j)
      BY <1>20 DEF PostFlightCheck
    <3>2. CASE job' = [Old({job[j].r.by}, j) EXCEPT ![j] = Idle]
      <4>1. OthersAge(j, {job[j].r.by}, {}) /\ job'[j] = Idle
        BY <2>2, <3>2, OldPut
      <4> QED BY <4>1
    <3>3. CASE End(j)
      BY <3>3, EndEffect
    <3> QED BY <3>1, <3>2, <3>3
  <2> QED BY <1>15, <1>20, <2>1, <2>3 DEF PostFlightCheck, config
<1>21. ASSUME NEW j \in Jobs, Abort(j)
       PROVE  StageInv'
  <2>1. Running(j) /\ job[j].at \in Steps
    BY <1>21, KindAt DEF Abort
  <2> QED BY <1>15, <1>21, <2>1, AbortEffect DEF Abort, config
<1>22. ASSUME NEW d \in Devices, Revert(d) \/ Tamper(d)
       PROVE  StageInv'
  <2>1. job' = Altered(d) /\ UNCHANGED <<wanted, lock, marker>>
    BY <1>22 DEF Revert, Tamper
  <2>2. \A i \in Jobs : Aged(job[i], job'[i], {d}, {d})
    BY <2>1, AlteredJobs
  <2>3. marker' # Idle => wanted'[marker'.dev] < MaxRev
    BY <2>1 DEF StageInv
  <2> QED BY <2>1, <2>2, <2>3, StageAges
<1>23. ASSUME NEW d \in Devices, UpdateFacts(d) \/ PostEvent(d)
       PROVE  StageInv'
  BY <1>23, StageStays DEF UpdateFacts, PostEvent, StageInv, config
<1>24. ASSUME NEW d \in Devices, MarkRead(d)
       PROVE  StageInv'
  BY <1>24, StageStays DEF MarkRead, config
<1>25. ASSUME NEW d \in Devices, NEW value \in BOOLEAN, PutSynchronized(d, value) \/ PutState(d, value)
       PROVE  StageInv'
  BY <1>25, StageStays DEF PutSynchronized, PutState, StageInv, config
<1>26. CASE ReadEvents \/ WriteEvents
  <2>1. marker'.dev = marker.dev /\ marker # Idle /\ UNCHANGED <<wanted, job, lock>>
    BY <1>26 DEF ReadEvents, WriteEvents, Typed, Idle, config
  <2> QED BY <2>1, StageStays DEF StageInv
<1>27. CASE MarkStore
  <2>1. \A i \in Jobs : Aged(job[i], job'[i], {marker.dev}, {})
    BY <1>27, OldJobs, NoneAssumption DEF MarkStore
  <2> QED BY <1>27, <2>1, StageAges DEF MarkStore
<1>28. CASE MarkFails
  BY <1>28, StageStays DEF MarkFails
<1> QED BY <1>1, <1>2, <1>3, <1>4, <1>5, <1>6, <1>7, <1>8, <1>9, <1>10, <1>11, <1>12, <1>13, <1>14, <1>16,
           <1>17, <1>18, <1>19, <1>20, <1>21, <1>22, <1>23, <1>24, <1>25, <1>26, <1>27, <1>28
        DEF Next, Sync, Upgrade

Base == Typed /\ StageInv

LEMMA BaseInit == Init => Base
<1> SUFFICES ASSUME Init PROVE Base
  OBVIOUS
<1>1. \A d \in Devices : [rev |-> 0, form |-> 0] \in Configs
  BY RevAssumption DEF Configs, Revs
<1>2. RowsTyped /\ HistTyped
  BY <1>1, RevAssumption DEF Init, RowsTyped, HistTyped
<1>3. JobsTyped
  BY DEF Init, JobsTyped, JobTyped
<1> QED BY <1>2, <1>3, RevAssumption, NoneAssumption DEF Init, Base, Typed, StageInv, Running, Holds

LEMMA BaseStep == Base /\ [Next]_vars => Base'
<1>1. ASSUME Base, UNCHANGED vars
      PROVE  Base'
  BY <1>1 DEF Base, Typed, RowsTyped, HistTyped, JobsTyped, StageInv, Running, Holds, StagesOK,
              vars, config, belief, image, hist
<1> QED BY <1>1, TypedNext, StageNext DEF Base

LEMMA BaseHolds == Spec => []Base
BY BaseInit, BaseStep, PTL DEF Spec

\* Rows, jobs, the lock and the request that marks keep their types, and the lock is
\* held by a sync that runs for real.
THEOREM TypeCorrect == Spec => []TypeOK
<1>1. Base => TypeOK
  <2> SUFFICES ASSUME Base PROVE TypeOK
    OBVIOUS
  <2>1. lock # None => Holds(job[lock])
    BY DEF Base, Typed, StageInv
  <2> QED BY <2>1 DEF Base, Typed, JobsTyped, TypeOK, Holds, Running
<1> QED BY <1>1, BaseHolds, PTL

(***************************************************************************)
(* The flag. No revision is on a switch, or waits to come back, that is    *)
(* newer than what a sync is about to push; what a sync takes for          *)
(* synchronized is so, unless it has been told that its knowledge is old.  *)
(***************************************************************************)
Newest(d, rev) ==
  /\ running[d].rev \in Nat => running[d].rev <= rev
  /\ (pending[d] # None /\ pending[d].rev \in Nat) => pending[d].rev <= rev
Pushing(x) == x # Idle /\ x.at = "push"
RevInv ==
  /\ \A d \in Devices : Newest(d, wanted[d])
  /\ \A j \in Jobs : Pushing(job[j]) => \A d \in job[j].hosts :
       /\ job[j].conf[d] <= wanted[d]
       /\ d \notin job[j].stale => job[j].conf[d] = wanted[d]
       /\ ~job[j].r.dry => Newest(d, job[j].conf[d])

Telling(x) == x # Idle /\ x.at \in {"hashes", "flag", "commit", "confirm"}
Claimed(x) == x.yes \cup (IF x.r.dry THEN {} ELSE x.changed)
TrueInv ==
  /\ SyncedIsTrue
  /\ \A j \in Jobs : Telling(job[j]) => \A d \in Claimed(job[j]) \ job[j].stale : running[d].rev = wanted[d]

LEMMA Numbers ==
  ASSUME Typed
  PROVE  /\ \A d \in Devices : wanted[d] \in Nat
         /\ \A j \in Jobs : Running(j) => \A d \in job[j].hosts : d \in Devices /\ job[j].conf[d] \in Nat
BY RunsTyped, RevAssumption DEF Typed, RowsTyped

\* What a job that aged was about to push is what it is about to push.
LEMMA AgedPushes ==
  ASSUME NEW x, NEW y, NEW ds, NEW dl, Aged(x, y, ds, dl), Pushing(y)
  PROVE  Pushing(x) /\ y.hosts = x.hosts /\ y.conf = x.conf /\ y.r = x.r /\ x.stale \subseteq y.stale
BY DEF Aged, Kept, Pushing

LEMMA AgedTells ==
  ASSUME NEW x, NEW y, NEW ds, NEW dl, Aged(x, y, ds, dl), Telling(y)
  PROVE  /\ Telling(x) /\ Claimed(y) = Claimed(x) /\ x.stale \subseteq y.stale
         /\ y.hosts = x.hosts /\ ds \cap x.hosts \subseteq y.stale
BY DEF Aged, Kept, Telling, Claimed

LEMMA ClaimedIn ==
  ASSUME Typed, NEW j \in Jobs, Running(j)
  PROVE  Claimed(job[j]) \subseteq job[j].hosts /\ job[j].hosts \subseteq Devices
BY RunsTyped DEF Claimed

\* Nothing newer than before gets on a switch.
SettlesAt(d) ==
  /\ running'[d].rev \in Nat => \/ running'[d].rev = running[d].rev
                                \/ pending[d] # None /\ running'[d].rev = pending[d].rev
  /\ pending'[d] # None => pending'[d] = pending[d]

LEMMA RevKept ==
  ASSUME Base, RevInv, wanted' = wanted, \A d \in Devices : SettlesAt(d),
         \A i \in Jobs : Pushing(job'[i]) => /\ Pushing(job[i]) /\ job'[i].hosts = job[i].hosts
                                             /\ job'[i].conf = job[i].conf /\ job'[i].r = job[i].r
                                             /\ job[i].stale \subseteq job'[i].stale
  PROVE  RevInv'
<1>1. ASSUME NEW d \in Devices, NEW rev, Newest(d, rev)
      PROVE  /\ running'[d].rev \in Nat => running'[d].rev <= rev
             /\ (pending'[d] # None /\ pending'[d].rev \in Nat) => pending'[d].rev <= rev
  BY <1>1 DEF Newest, SettlesAt
<1>2. \A d \in Devices : Newest(d, wanted[d])'
  BY <1>1 DEF RevInv, Newest
<1>3. ASSUME NEW j \in Jobs, Pushing(job'[j]), NEW d \in job'[j].hosts
      PROVE  /\ job'[j].conf[d] <= wanted'[d]
             /\ d \notin job'[j].stale => job'[j].conf[d] = wanted'[d]
             /\ ~job'[j].r.dry => Newest(d, job[j].conf[d])'
  <2>1. Running(j) /\ Pushing(job[j]) /\ d \in job[j].hosts
    BY <1>3 DEF Pushing, Running
  <2>2. d \in Devices
    BY <2>1, Numbers DEF Base
  <2>3. /\ job'[j].conf = job[j].conf /\ job'[j].r = job[j].r
        /\ job[j].stale \subseteq job'[j].stale
    BY <1>3
  <2>4. ~job'[j].r.dry => /\ running'[d].rev \in Nat => running'[d].rev <= job[j].conf[d]
                          /\ (pending'[d] # None /\ pending'[d].rev \in Nat) => pending'[d].rev <= job[j].conf[d]
    BY <1>1, <2>1, <2>2, <2>3 DEF RevInv
  <2> QED BY <2>1, <2>3, <2>4 DEF RevInv, Newest
<1>4. (\A j \in Jobs : Pushing(job[j]) => \A d \in job[j].hosts :
         /\ job[j].conf[d] <= wanted[d]
         /\ d \notin job[j].stale => job[j].conf[d] = wanted[d]
         /\ ~job[j].r.dry => Newest(d, job[j].conf[d]))'
  BY <1>3
<1> QED BY <1>2, <1>4 DEF RevInv

(***************************************************************************)
(* Most steps leave the jobs that push, store hashes or set flags alone:   *)
(* a job ends, ages, starts, or goes on before its push or in an upgrade.  *)
(***************************************************************************)
Calm(x, y, ds, dl) ==
  \/ y = Idle
  \/ Aged(x, y, ds, dl)
  \/ \E r \in Asked : \E at \in {"hash", "apply"} \cup Steps : Starts(y, r, at)
  \/ \E at \in {"lock", "render", "applied"} : Moves(x, y, at)
  \/ y # Idle /\ y.r = x.r /\ y.hosts = x.hosts /\ y.at \in Steps /\ x.at \in Steps
CalmStep(ds, dl) == \A i \in Jobs : Calm(job[i], job'[i], ds, dl)

Working == {"push", "hashes", "flag", "commit", "confirm"}

LEMMA CalmAt ==
  ASSUME NEW x, NEW y, NEW ds, NEW dl, Calm(x, y, ds, dl), y # Idle, y.at \in Working
  PROVE  Aged(x, y, ds, dl)
<1>1. y.at \notin {"hash", "apply", "lock", "render", "applied"} \cup Steps
  BY PlaceNames DEF Working
<1> QED BY <1>1 DEF Calm, Starts, Moves

LEMMA StartJobs ==
  ASSUME Base, NEW j \in Jobs, NEW r \in Requests, SyncStart(j, r) \/ ApplyStart(j, r) \/ UpgradeStart(j, r)
  PROVE  CalmStep({}, {})
<1>1. \E at \in {"hash", "apply"} \cup Steps : Take(j, r, at)
  <2>1. CASE SyncStart(j, r) \/ ApplyStart(j, r)
    BY <2>1 DEF SyncStart, ApplyStart
  <2>2. CASE UpgradeStart(j, r)
    <3> DEFINE k == CHOOSE k \in 1..4 : /\ Order[k] \in r.steps
                                        /\ \A l \in 1..(k - 1) : Order[l] \notin r.steps
    <3>1. k \in 1..4
      BY <2>2, FirstStep DEF UpgradeStart
    <3>2. Take(j, r, Order[k])
      BY <2>2 DEF UpgradeStart
    <3> HIDE DEF k
    <3> QED BY <3>1, <3>2 DEF Steps
  <2> QED BY <2>1, <2>2
<1>2. PICK at \in {"hash", "apply"} \cup Steps : Take(j, r, at)
  BY <1>1
<1>3. at \in Places /\ r \in Asked
  BY AskedRequests DEF Places, Steps
<1>4. OthersAge(j, {}, {}) /\ Starts(job'[j], r, at)
  BY <1>2, <1>3, StartEffect DEF Take, Base
<1> QED BY <1>3, <1>4 DEF OthersAge, CalmStep, Calm

LEMMA CheckJobs ==
  ASSUME Base, NEW j \in Jobs, SyncCheckHash(j) \/ AcquireLock(j) \/ RollbackWait(j) \/ ApplyDone(j)
  PROVE  /\ CalmStep({}, {})
         /\ job'[j] = Idle \/ \E at \in {"lock", "render"} : Moves(job[j], job'[j], at)
<1>1. CASE End(j)
  BY <1>1, EndEffect DEF OthersAge, CalmStep, Calm, Base
<1>2. CASE \E at \in {"lock", "render"} : Go(j, at)
  <2>1. PICK at \in {"lock", "render"} : Go(j, at)
    BY <1>2
  <2>2. Running(j)
    BY DEF SyncCheckHash, AcquireLock, RollbackWait, ApplyDone, At
  <2>3. OthersAge(j, {}, {}) /\ Moves(job[j], job'[j], at)
    BY <2>1, <2>2, GoEffect DEF Places, Base
  <2> QED BY <2>3 DEF OthersAge, CalmStep, Calm
<1>3. End(j) \/ \E at \in {"lock", "render"} : Go(j, at)
  <2>1. CASE SyncCheckHash(j)
    BY <2>1 DEF SyncCheckHash
  <2>2. CASE AcquireLock(j)
    BY <2>2 DEF AcquireLock
  <2>3. CASE RollbackWait(j) \/ ApplyDone(j)
    BY <2>3 DEF RollbackWait, ApplyDone
  <2> QED BY <2>1, <2>2, <2>3
<1> QED BY <1>1, <1>2, <1>3

LEMMA AdvanceJobs ==
  ASSUME Base, NEW j \in Jobs,
         \/ CheckJobAbortStatus(j) \/ FirmwareDownload(j) \/ FirmwareActivate(j) \/ Abort(j)
  PROVE  CalmStep({}, {})
<1>1. Running(j) /\ job[j].at \in Steps
  BY KindAt, PlaceNames DEF CheckJobAbortStatus, FirmwareDownload, FirmwareActivate, Step, At, Abort, Base
<1>2. OthersAge(j, {}, {}) /\ (job'[j] = Idle \/ Advances(job[j], job'[j]) \/ Moves(job[j], job'[j], job[j].at))
  <2>1. CASE CheckJobAbortStatus(j)
    BY <1>1, <2>1, CheckEffect DEF Base, Steps
  <2>2. CASE Abort(j)
    BY <2>2, AbortEffect DEF Base
  <2>3. CASE FirmwareDownload(j) \/ FirmwareActivate(j)
    <3>1. NextStep(job, j) \/ End(j)
      BY <2>3 DEF FirmwareDownload, FirmwareActivate
    <3> QED BY <1>1, <3>1, NextStepEffect, EndEffect DEF Base, Steps
  <2> QED BY <2>1, <2>2, <2>3
<1> QED BY <1>1, <1>2 DEF OthersAge, CalmStep, Calm, Advances, Moves, Steps

\* A reboot into another OS changes how the configuration is put, and no more.
LEMMA RebootJobs ==
  ASSUME Base, NEW j \in Jobs, DeviceReboot(j)
  PROVE  LET d == job[j].r.by IN
         /\ d \in Devices /\ job[j].hosts = {d}
         /\ \A e \in Devices : e # d => running'[e] = running[e]
         /\ running'[d].rev = running[d].rev
         /\ \/ /\ CalmStep({}, {}) /\ UNCHANGED <<running, rebooted, unmarked>>
            \/ /\ CalmStep({d}, {}) /\ rebooted' = rebooted \cup {d}
               /\ "post" \notin job[j].r.steps => unmarked' = unmarked \cup {d}
               /\ "post" \in job[j].r.steps => unmarked' = unmarked /\ job'[j] # Idle /\ job'[j].at = "post"
         /\ OthersAge(j, {}, {}) \/ OthersAge(j, {d}, {})
         /\ job'[j] = Idle \/ Advances(job[j], job'[j])
<1> DEFINE d == job[j].r.by
<1>1. Running(j) /\ job[j].at = "reboot" /\ job[j].at \in Steps
  BY PlaceNames DEF DeviceReboot, Step, At
<1>2. d \in Devices /\ job[j].hosts = {d}
  BY <1>1, KindAt DEF Base
<1>3. PICK done \in BOOLEAN :
       LET other == done /\ os[d] # boot[d] IN
       /\ running' = IF other THEN [running EXCEPT ![d].form = 1 - @] ELSE running
       /\ rebooted' = IF other THEN rebooted \cup {d} ELSE rebooted
       /\ unmarked' = IF other /\ "post" \notin job[j].r.steps THEN unmarked \cup {d} ELSE unmarked
       /\ NextStep(IF other THEN Old({d}, j) ELSE job, j)
  BY DEF DeviceReboot
<1>4. running[d] \in [rev: Revs, form: 0..1] /\ running \in [Devices -> Configs]
  BY <1>2 DEF Base, Typed, RowsTyped, Configs
<1>5. CASE done /\ os[d] # boot[d]
  <2>1. NextStep(Old({d}, j), j)
    BY <1>3, <1>5
  <2>2. OthersAge(j, {d}, {}) /\ (job'[j] = Idle \/ Advances(job[j], job'[j]))
        /\ ("post" \in job[j].r.steps => job'[j] # Idle /\ job'[j].at = "post")
    BY <1>1, <2>1, NextStepEffect DEF Base, Steps
  <2>3. CalmStep({d}, {})
    BY <1>1, <2>2 DEF OthersAge, CalmStep, Calm, Advances, Steps
  <2>4. running' = [running EXCEPT ![d].form = 1 - @]
    BY <1>3, <1>5
  <2>5. running'[d].rev = running[d].rev /\ \A e \in Devices : e # d => running'[e] = running[e]
    <3> HIDE DEF d
    <3> QED BY <1>2, <1>4, <2>4
  <2> QED BY <1>2, <1>3, <1>5, <2>2, <2>3, <2>5
<1>6. CASE ~(done /\ os[d] # boot[d])
  <2>1. NextStep(job, j) /\ UNCHANGED <<running, rebooted, unmarked>>
    BY <1>3, <1>6
  <2>2. OthersAge(j, {}, {}) /\ (job'[j] = Idle \/ Advances(job[j], job'[j]))
    BY <1>1, <2>1, NextStepEffect DEF Base, Steps
  <2>3. CalmStep({}, {})
    BY <1>1, <2>2 DEF OthersAge, CalmStep, Calm, Advances, Steps
  <2> QED BY <1>2, <2>1, <2>2, <2>3
<1> QED BY <1>5, <1>6

LEMMA PostFlightJobs ==
  ASSUME Base, NEW j \in Jobs, PostFlightCheck(j)
  PROVE  LET d == job[j].r.by IN
         /\ d \in Devices /\ job[j].hosts = {d} /\ job[j].at = "post" /\ Running(j) /\ job'[j] = Idle
         /\ \/ /\ CalmStep({d}, {}) /\ OthersAge(j, {d}, {})
               /\ \A e \in Devices : e # d => confhash'[e] = confhash[e] /\ synced'[e] = synced[e] /\ events'[e] = events[e]
               /\ confhash'[d] = None /\ ~synced'[d] /\ events'[d] = events[d] \cup {"upgrade"}
               /\ Mix({d}, j) /\ rebooted' = rebooted \ {d} /\ unmarked' = unmarked \ {d}
            \/ /\ CalmStep({}, {}) /\ OthersAge(j, {}, {})
               /\ unmarked' = unmarked \cup (rebooted \cap {d})
               /\ UNCHANGED <<confhash, synced, events, mixed, rebooted>>
<1> DEFINE d == job[j].r.by
<1>1. Running(j) /\ job[j].at = "post" /\ job[j].at \in Steps
  BY PlaceNames DEF PostFlightCheck, Step, At
<1>2. d \in Devices /\ job[j].hosts = {d}
  BY <1>1, KindAt DEF Base
<1>3. JobTyped(Idle)
  BY DEF JobTyped
<1>4. CASE /\ confhash' = [confhash EXCEPT ![d] = UpgradedHash(d)]
           /\ synced' = [synced EXCEPT ![d] = FALSE]
           /\ events' = [events EXCEPT ![d] = @ \cup {"upgrade"}]
           /\ Mix({d}, j)
           /\ rebooted' = rebooted \ {e \in {d} : confhash'[e] = None}
           /\ unmarked' = unmarked \ {e \in {d} : confhash'[e] = None}
           /\ job' = [Old({d}, j) EXCEPT ![j] = Idle]
  <2>1. OthersAge(j, {d}, {}) /\ job'[j] = Idle
    BY <1>3, <1>4, OldPut DEF Base
  <2>2. CalmStep({d}, {})
    BY <2>1 DEF OthersAge, CalmStep, Calm
  <2>3. confhash'[d] = None /\ \A e \in Devices : e # d => confhash'[e] = confhash[e]
    <3> HIDE DEF d
    <3> QED BY <1>2, <1>4 DEF UpgradedHash, Base, Typed, RowsTyped
  <2>4. ~synced'[d] /\ \A e \in Devices : e # d => synced'[e] = synced[e]
    <3> HIDE DEF d
    <3> QED BY <1>2, <1>4 DEF Base, Typed, RowsTyped
  <2>5. events'[d] = events[d] \cup {"upgrade"} /\ \A e \in Devices : e # d => events'[e] = events[e]
    <3> HIDE DEF d
    <3> QED BY <1>2, <1>4 DEF Base, Typed, RowsTyped
  <2>6. rebooted' = rebooted \ {d} /\ unmarked' = unmarked \ {d}
    BY <1>4, <2>3
  <2> QED BY <1>1, <1>2, <1>4, <2>1, <2>2, <2>3, <2>4, <2>5, <2>6
<1>5. CASE /\ unmarked' = unmarked \cup (rebooted \cap {d})
           /\ UNCHANGED <<dbos, confhash, synced, events, mixed, rebooted>>
           /\ End(j)
  <2>1. OthersAge(j, {}, {}) /\ job'[j] = Idle
    BY <1>5, EndEffect DEF Base
  <2>2. CalmStep({}, {})
    BY <2>1 DEF OthersAge, CalmStep, Calm
  <2> QED BY <1>1, <1>2, <1>5, <2>1, <2>2
<1> QED BY <1>4, <1>5 DEF PostFlightCheck

LEMMA AlteredStep ==
  ASSUME Base, NEW d, job' = Altered(d)
  PROVE  CalmStep({d}, {d}) /\ \A i \in Jobs : Aged(job[i], job'[i], {d}, {d})
BY AlteredJobs DEF CalmStep, Calm, Base

LEMMA MarkedStep ==
  ASSUME Base, NEW d, job' = Old({d}, None)
  PROVE  CalmStep({d}, {}) /\ \A i \in Jobs : Aged(job[i], job'[i], {d}, {})
BY OldJobs, NoneAssumption DEF CalmStep, Calm, Base

LEMMA SameStep ==
  ASSUME Base, UNCHANGED job
  PROVE  CalmStep({}, {}) /\ \A i \in Jobs : Aged(job[i], job'[i], {}, {})
BY SameAge DEF CalmStep, Calm, Base, Typed, JobsTyped

LEMMA RevCalm ==
  ASSUME Base, RevInv, wanted' = wanted, \A d \in Devices : SettlesAt(d), NEW ds, NEW dl, CalmStep(ds, dl)
  PROVE  RevInv'
<1>1. ASSUME NEW i \in Jobs, Pushing(job'[i])
      PROVE  /\ Pushing(job[i]) /\ job'[i].hosts = job[i].hosts
             /\ job'[i].conf = job[i].conf /\ job'[i].r = job[i].r
             /\ job[i].stale \subseteq job'[i].stale
  <2>1. Aged(job[i], job'[i], ds, dl)
    BY <1>1, CalmAt DEF CalmStep, Pushing, Working
  <2> QED BY <1>1, <2>1, AgedPushes
<1> QED BY <1>1, RevKept

LEMMA RevOne ==
  ASSUME Base, RevInv, wanted' = wanted, \A d \in Devices : SettlesAt(d), NEW j \in Jobs, NEW ds, NEW dl,
         OthersAge(j, ds, dl), ~Pushing(job'[j])
  PROVE  RevInv'
<1>1. ASSUME NEW i \in Jobs, Pushing(job'[i])
      PROVE  /\ Pushing(job[i]) /\ job'[i].hosts = job[i].hosts
             /\ job'[i].conf = job[i].conf /\ job'[i].r = job[i].r
             /\ job[i].stale \subseteq job'[i].stale
  <2>1. Aged(job[i], job'[i], ds, dl)
    BY <1>1 DEF OthersAge
  <2> QED BY <1>1, <2>1, AgedPushes
<1> QED BY <1>1, RevKept

LEMMA RevNext ==
  ASSUME Base, RevInv, Next
  PROVE  RevInv'
<1>1. UNCHANGED config => wanted' = wanted /\ \A d \in Devices : SettlesAt(d)
  BY DEF config, SettlesAt
<1>2. ASSUME NEW j \in Jobs, NEW r \in Requests, SyncStart(j, r) \/ ApplyStart(j, r) \/ UpgradeStart(j, r)
      PROVE  RevInv'
  <2>1. UNCHANGED config
    BY <1>2 DEF SyncStart, ApplyStart, UpgradeStart
  <2> QED BY <1>1, <1>2, <2>1, StartJobs, RevCalm
<1>3. ASSUME NEW j \in Jobs, SyncCheckHash(j) \/ AcquireLock(j) \/ RollbackWait(j) \/ ApplyDone(j)
      PROVE  RevInv'
  <2>1. UNCHANGED config
    BY <1>3 DEF SyncCheckHash, AcquireLock, RollbackWait, ApplyDone
  <2> QED BY <1>1, <1>3, <2>1, CheckJobs, RevCalm
<1>4. ASSUME NEW j \in Jobs,
             CheckJobAbortStatus(j) \/ FirmwareDownload(j) \/ FirmwareActivate(j) \/ Abort(j)
      PROVE  RevInv'
  <2>1. UNCHANGED config
    BY <1>4 DEF CheckJobAbortStatus, FirmwareDownload, FirmwareActivate, Abort
  <2> QED BY <1>1, <1>4, <2>1, AdvanceJobs, RevCalm
<1>5. ASSUME NEW j \in Jobs, PostFlightCheck(j)
      PROVE  RevInv'
  <2>1. UNCHANGED config
    BY <1>5 DEF PostFlightCheck
  <2>2. \E ds : CalmStep(ds, {})
    BY <1>5, PostFlightJobs
  <2> QED BY <1>1, <2>1, <2>2, RevCalm
<1>6. ASSUME UNCHANGED <<config, job>>
      PROVE  RevInv'
  BY <1>1, <1>6, SameStep, RevCalm
<1>7. ASSUME NEW j \in Jobs, PopulateDeviceVars(j)
      PROVE  RevInv'
  <2>1. /\ OthersAge(j, {}, {}) /\ Pushing(job'[j]) /\ job'[j].hosts = job[j].hosts
        /\ \A d \in job[j].hosts : job'[j].conf[d] = wanted[d]
    BY <1>7, RenderEffect DEF Base, Pushing
  <2>2. UNCHANGED <<wanted, running, pending>>
    BY <1>7 DEF PopulateDeviceVars, config
  <2>3. \A d \in Devices : \A rev : Newest(d, rev) => /\ running'[d].rev \in Nat => running'[d].rev <= rev
                                                      /\ (pending'[d] # None /\ pending'[d].rev \in Nat) => pending'[d].rev <= rev
    BY <2>2 DEF Newest
  <2>4. job[j].hosts \subseteq Devices
    BY <1>7, RunsTyped DEF PopulateDeviceVars, At, Base
  <2>5. ASSUME NEW i \in Jobs, Pushing(job'[i]), NEW d \in job'[i].hosts
        PROVE  /\ job'[i].conf[d] <= wanted'[d]
               /\ d \notin job'[i].stale => job'[i].conf[d] = wanted'[d]
               /\ ~job'[i].r.dry => Newest(d, job[i].conf[d])'
    <3>1. CASE i = j
      <4>1. d \in job[j].hosts /\ d \in Devices /\ job'[j].conf[d] = wanted[d] /\ wanted[d] \in Nat
        BY <2>1, <2>4, <2>5, <3>1, Numbers DEF Base
      <4>2. Newest(d, wanted[d])
        BY <4>1 DEF RevInv
      <4> QED BY <2>2, <3>1, <4>1, <4>2 DEF Newest
    <3>2. CASE i # j
      <4>1. Pushing(job[i]) /\ d \in job[i].hosts /\ job'[i].conf = job[i].conf /\ job'[i].r = job[i].r
            /\ job[i].stale \subseteq job'[i].stale
        BY <2>1, <2>5, <3>2, AgedPushes DEF OthersAge
      <4> QED BY <2>2, <4>1 DEF RevInv, Newest
    <3> QED BY <3>1, <3>2
  <2>6. (\A d \in Devices : Newest(d, wanted[d]))'
    BY <2>2 DEF RevInv, Newest
  <2>7. (\A i \in Jobs : Pushing(job[i]) => \A d \in job[i].hosts :
           /\ job[i].conf[d] <= wanted[d]
           /\ d \notin job[i].stale => job[i].conf[d] = wanted[d]
           /\ ~job[i].r.dry => Newest(d, job[i].conf[d]))'
    BY <2>5
  <2> QED BY <2>6, <2>7 DEF RevInv
<1>8. ASSUME NEW j \in Jobs, PushSyncDevice(j)
      PROVE  RevInv'
  <2>1. PICK failed, took, changed, kept :
          /\ Pushes(j, failed, took, changed, kept)
          /\ OthersAge(j, IF job[j].r.dry THEN {} ELSE changed \cup took, {})
    BY <1>8, PushEffect DEF Base
  <2>2. Running(j) /\ Pushing(job[j]) /\ wanted' = wanted
    BY <1>8 DEF PushSyncDevice, At, Running, Pushing
  <2>3. job[j].hosts \subseteq Devices
    BY <2>2, RunsTyped DEF Base
  <2>4. ASSUME NEW i \in Jobs, Pushing(job'[i])
        PROVE  i # j /\ Pushing(job[i]) /\ job'[i].hosts = job[i].hosts /\ job'[i].conf = job[i].conf
               /\ job'[i].r = job[i].r /\ job[i].stale \subseteq job'[i].stale
    <3>1. i # j
      BY <2>1, <2>4 DEF Pushes, Pushing
    <3> QED BY <2>1, <2>4, <3>1, AgedPushes DEF OthersAge
  <2>5. CASE job[j].r.dry
    <3>1. \A d \in Devices : SettlesAt(d)
      BY <2>1, <2>5 DEF Pushes, SettlesAt
    <3> QED BY <2>2, <2>4, <3>1, RevKept
  <2>6. CASE ~job[j].r.dry
    <3>1. Holds(job[j]) /\ lock = j
      <4>1. Holds(job[j])
        BY <2>2, <2>6, KindAt DEF Pushing, Holds, Holding, SyncStages, Base
      <4> QED BY <4>1 DEF StageInv, Base
    <3>2. \A i \in Jobs : Pushing(job[i]) /\ i # j => job[i].r.dry
      <4>1. \A i \in Jobs : i # j => ~Holds(job[i])
        BY <3>1 DEF StageInv, Base
      <4> QED BY <4>1, KindAt, RunsTyped DEF Pushing, Holds, Holding, SyncStages, Running, Base
    <3>3. ASSUME NEW d \in Devices
          PROVE  Newest(d, wanted[d])'
      <4>1. running'[d] = running[d] \/ (d \in job[j].hosts /\ running'[d].rev = job[j].conf[d])
        <5>1. CASE d \in changed \cup took
          <6>1. d \in job[j].hosts
            BY <2>1, <5>1 DEF Pushes
          <6>2. running'[d] = [rev |-> job[j].conf[d], form |-> running[d].form]
            BY <2>1, <2>6, <5>1 DEF Pushes
          <6> QED BY <6>1, <6>2
        <5>2. CASE d \notin changed \cup took
          BY <2>1, <5>2 DEF Pushes
        <5> QED BY <5>1, <5>2
      <4>2. pending'[d] = pending[d] \/ pending'[d] = running[d]
        BY <2>1 DEF Pushes
      <4>3. d \in job[j].hosts => job[j].conf[d] <= wanted[d]
        BY <2>2 DEF RevInv
      <4>4. Newest(d, wanted[d])
        BY DEF RevInv
      <4> QED BY <2>2, <4>1, <4>2, <4>3, <4>4 DEF Newest
    <3>4. ASSUME NEW i \in Jobs, Pushing(job'[i]), NEW d \in job'[i].hosts
          PROVE  /\ job'[i].conf[d] <= wanted'[d]
                 /\ d \notin job'[i].stale => job'[i].conf[d] = wanted'[d]
                 /\ ~job'[i].r.dry => Newest(d, job[i].conf[d])'
      <4>1. i # j /\ Pushing(job[i]) /\ d \in job[i].hosts /\ job'[i].conf = job[i].conf
            /\ job'[i].r = job[i].r /\ job[i].stale \subseteq job'[i].stale
        BY <2>4, <3>4
      <4> QED BY <2>2, <3>2, <4>1 DEF RevInv
    <3>5. (\A i \in Jobs : Pushing(job[i]) => \A d \in job[i].hosts :
             /\ job[i].conf[d] <= wanted[d]
             /\ d \notin job[i].stale => job[i].conf[d] = wanted[d]
             /\ ~job[i].r.dry => Newest(d, job[i].conf[d]))'
      BY <3>4
    <3> QED BY <3>3, <3>5 DEF RevInv
  <2> QED BY <2>5, <2>6
<1>9. ASSUME NEW j \in Jobs, PostSyncUpdateConfighash(j)
      PROVE  RevInv'
  <2>1. UNCHANGED config
    BY <1>9 DEF PostSyncUpdateConfighash
  <2>2. PICK got : OthersAge(j, got, {}) /\ Moves(job[j], job'[j], "flag")
    BY <1>9, HashesEffect DEF Base
  <2>3. ~Pushing(job'[j])
    BY <2>2 DEF Moves, Pushing
  <2> QED BY <1>1, <2>1, <2>2, <2>3, RevOne
<1>10. ASSUME NEW j \in Jobs, SetFlags(j)
       PROVE  RevInv'
  <2>1. UNCHANGED config
    BY <1>10 DEF SetFlags
  <2>2. OthersAge(j, {}, {}) /\ ~Pushing(job'[j])
    BY <1>10, FlagsEffect DEF Base, Flags, Pushing
  <2> QED BY <1>1, <2>1, <2>2, RevOne
<1>11. ASSUME NEW j \in Jobs, CommitFlags(j)
       PROVE  RevInv'
  <2>1. UNCHANGED config
    BY <1>11 DEF CommitFlags
  <2>2. OthersAge(j, {}, {}) /\ ~Pushing(job'[j])
    BY <1>11, CommitEffect DEF Base, Starts, Moves, Pushing
  <2> QED BY <1>1, <2>1, <2>2, RevOne
<1>12. ASSUME NEW j \in Jobs, ConfirmDevices(j)
       PROVE  RevInv'
  <2>1. UNCHANGED <<wanted, running>>
    BY <1>12 DEF ConfirmDevices
  <2>2. PICK ok \in SUBSET job[j].changed : \E got \in SUBSET ok : \E no \in SUBSET job[j].changed :
          /\ OthersAge(j, got, {}) /\ Confirms(job[j], job'[j], ok, no)
          /\ \A d \in Devices : pending'[d] = IF d \in ok THEN None ELSE pending[d]
    BY <1>12, ConfirmEffect DEF Base
  <2>3. ~Pushing(job'[j])
    BY <2>2 DEF Confirms, Pushing
  <2>4. \A d \in Devices : SettlesAt(d)
    BY <2>1, <2>2 DEF SettlesAt
  <2> QED BY <2>1, <2>2, <2>3, <2>4, RevOne
<1>13. ASSUME NEW j \in Jobs, PushStaticConfig(j)
       PROVE  RevInv'
  <2>1. UNCHANGED <<wanted, pending>>
    BY <1>13 DEF PushStaticConfig
  <2>2. PICK done \in SUBSET job[j].hosts :
          /\ OthersAge(j, done, {}) /\ Moves(job[j], job'[j], "applied")
          /\ \A d \in Devices : /\ d \in done => running'[d].rev = Static
                                /\ d \notin done => running'[d] = running[d]
    BY <1>13, ApplyEffect DEF Base
  <2>3. ~Pushing(job'[j])
    BY <2>2 DEF Moves, Pushing
  <2>4. \A d \in Devices : SettlesAt(d)
    BY <2>1, <2>2, ContentAssumption DEF SettlesAt
  <2> QED BY <2>1, <2>2, <2>3, <2>4, RevOne
<1>14. ASSUME NEW j \in Jobs, DeviceReboot(j)
       PROVE  RevInv'
  <2>1. UNCHANGED <<wanted, pending>>
    BY <1>14 DEF DeviceReboot
  <2>2. \A d \in Devices : SettlesAt(d)
    BY <1>14, <2>1, RebootJobs DEF SettlesAt
  <2>3. \E ds : CalmStep(ds, {})
    BY <1>14, RebootJobs
  <2> QED BY <2>1, <2>2, <2>3, RevCalm
<1>15. ASSUME NEW d \in Devices, Revert(d)
       PROVE  RevInv'
  <2>1. /\ wanted' = wanted /\ pending[d] # None /\ job' = Altered(d)
        /\ running' = [running EXCEPT ![d] = pending[d]] /\ pending' = [pending EXCEPT ![d] = None]
    BY <1>15 DEF Revert
  <2>2. \A e \in Devices : SettlesAt(e)
    BY <2>1 DEF SettlesAt, Base, Typed, RowsTyped
  <2> QED BY <2>1, <2>2, AlteredStep, RevCalm
<1>16. ASSUME NEW d \in Devices, Tamper(d)
       PROVE  RevInv'
  <2>1. UNCHANGED <<wanted, pending>> /\ job' = Altered(d)
    BY <1>16 DEF Tamper
  <2>2. running[d] \in [rev: Revs, form: 0..1] /\ running \in [Devices -> Configs]
    BY DEF Base, Typed, RowsTyped, Configs
  <2>3. PICK new \in {[running[d] EXCEPT !.rev = Alien], [running[d] EXCEPT !.form = 1 - @]} :
          running' = [running EXCEPT ![d] = new]
    BY <1>16 DEF Tamper
  <2>4. running'[d] = new /\ \A e \in Devices : e # d => running'[e] = running[e]
    BY <2>2, <2>3
  <2>5. new.rev = Alien \/ new.rev = running[d].rev
    BY <2>2, <2>3
  <2>6. \A e \in Devices : SettlesAt(e)
    BY <2>1, <2>4, <2>5, ContentAssumption DEF SettlesAt
  <2> QED BY <2>1, <2>6, AlteredStep, RevCalm
<1>17. CASE MarkStore
  <2> DEFINE m == marker.dev
  <2>1. /\ wanted' = [wanted EXCEPT ![m] = @ + 1] /\ UNCHANGED <<running, pending>> /\ job' = Old({m}, None)
        /\ m \in Devices
    BY <1>17 DEF MarkStore, Base, Typed, Idle
  <2>2. \A i \in Jobs : Aged(job[i], job'[i], {m}, {})
    BY <2>1, MarkedStep
  <2>3. \A d \in Devices : /\ wanted[d] \in Nat /\ wanted'[d] \in Nat /\ wanted[d] <= wanted'[d]
                           /\ d # m => wanted'[d] = wanted[d]
    BY <2>1, Numbers DEF Base, Typed, RowsTyped
  <2> HIDE DEF m
  <2>4. ASSUME NEW d \in Devices
        PROVE  Newest(d, wanted[d])'
    <3>1. Newest(d, wanted[d])
      BY DEF RevInv
    <3> QED BY <2>1, <2>3, <3>1 DEF Newest
  <2>5. ASSUME NEW i \in Jobs, Pushing(job'[i]), NEW d \in job'[i].hosts
        PROVE  /\ job'[i].conf[d] <= wanted'[d]
               /\ d \notin job'[i].stale => job'[i].conf[d] = wanted'[d]
               /\ ~job'[i].r.dry => Newest(d, job[i].conf[d])'
    <3>1. Pushing(job[i]) /\ d \in job[i].hosts /\ job'[i].conf = job[i].conf /\ job'[i].r = job[i].r
          /\ job[i].stale \subseteq job'[i].stale /\ job'[i].hosts = job[i].hosts
      BY <2>2, <2>5, AgedPushes
    <3>2. m \in job[i].hosts => m \in job'[i].stale
      <4>1. job[i] # Idle /\ job'[i].stale = job[i].stale \cup ({m} \cap job[i].hosts)
        BY <2>2, <3>1 DEF Aged, Pushing
      <4> QED BY <4>1
    <3>3. d \in Devices /\ job[i].conf[d] \in Nat
      BY <3>1, Numbers DEF Base, Pushing, Running
    <3>4. job[i].conf[d] <= wanted[d] /\ (d \notin job[i].stale => job[i].conf[d] = wanted[d])
          /\ (~job[i].r.dry => Newest(d, job[i].conf[d]))
      BY <3>1 DEF RevInv
    <3>5. job'[i].conf[d] <= wanted'[d] /\ (d \notin job'[i].stale => job'[i].conf[d] = wanted'[d])
      BY <2>3, <3>1, <3>2, <3>3, <3>4
    <3> QED BY <2>1, <3>1, <3>4, <3>5 DEF Newest
  <2>6. (\A i \in Jobs : Pushing(job[i]) => \A d \in job[i].hosts :
           /\ job[i].conf[d] <= wanted[d]
           /\ d \notin job[i].stale => job[i].conf[d] = wanted[d]
           /\ ~job[i].r.dry => Newest(d, job[i].conf[d]))'
    BY <2>5
  <2> QED BY <2>4, <2>6 DEF RevInv
<1>18. ASSUME NEW d \in Devices, UpdateFacts(d) \/ MarkRead(d) \/ PostEvent(d)
       PROVE  UNCHANGED <<config, job>>
  BY <1>18 DEF UpdateFacts, MarkRead, PostEvent
<1>19. ASSUME NEW d \in Devices, NEW value \in BOOLEAN, PutSynchronized(d, value) \/ PutState(d, value)
       PROVE  UNCHANGED <<config, job>>
  BY <1>19 DEF PutSynchronized, PutState
<1>20. ASSUME ReadEvents \/ WriteEvents \/ MarkFails
       PROVE  UNCHANGED <<config, job>>
  BY <1>20 DEF ReadEvents, WriteEvents, MarkFails
<1> QED BY <1>2, <1>3, <1>4, <1>5, <1>6, <1>7, <1>8, <1>9, <1>10, <1>11, <1>12, <1>13, <1>14, <1>15, <1>16,
           <1>17, <1>18, <1>19, <1>20 DEF Next, Sync, Upgrade

\* A switch that changes is not shown as synchronized, or known to be shown wrongly;
\* and the syncs are told that their knowledge of it is old.
Noticed(d) ==
  /\ synced'[d] => d \in astray'
  /\ \A i \in Jobs : (Telling(job'[i]) /\ d \in job'[i].hosts) => d \in job'[i].stale
TellsSame(x, y) == Telling(x) /\ Claimed(y) \subseteq Claimed(x) /\ x.stale \subseteq y.stale /\ y.hosts = x.hosts

LEMMA TrueKept ==
  ASSUME Base, TrueInv, astray \subseteq astray',
         \A d \in Devices : (running'[d].rev = running[d].rev /\ wanted'[d] = wanted[d]) \/ Noticed(d),
         \A d \in Devices : synced'[d] => synced[d] \/ d \in astray',
         \A i \in Jobs : Telling(job'[i]) => TellsSame(job[i], job'[i])
  PROVE  TrueInv'
<1>1. SyncedIsTrue'
  BY DEF TrueInv, SyncedIsTrue, Noticed
<1>2. ASSUME NEW i \in Jobs, Telling(job'[i]), NEW d \in Claimed(job'[i]) \ job'[i].stale
      PROVE  running'[d].rev = wanted'[d]
  <2>1. Running(i) /\ d \in Claimed(job[i]) \ job[i].stale /\ job'[i].hosts = job[i].hosts /\ Telling(job[i])
    BY <1>2 DEF TellsSame, Telling, Running
  <2>2. d \in job[i].hosts /\ d \in Devices
    BY <2>1, ClaimedIn DEF Base
  <2>3. running'[d].rev = running[d].rev /\ wanted'[d] = wanted[d]
    BY <1>2, <2>1, <2>2 DEF Noticed
  <2> QED BY <2>1, <2>3 DEF TrueInv
<1> QED BY <1>1, <1>2 DEF TrueInv, Telling, Claimed

LEMMA TrueCalm ==
  ASSUME Base, TrueInv, NEW ds, NEW dl, CalmStep(ds, dl), astray \subseteq astray',
         \A d \in Devices : (running'[d].rev = running[d].rev /\ wanted'[d] = wanted[d]) \/ (d \in ds /\ (synced'[d] => d \in astray')),
         \A d \in Devices : synced'[d] => synced[d] \/ d \in astray'
  PROVE  TrueInv'
<1>1. ASSUME NEW i \in Jobs, Telling(job'[i])
      PROVE  TellsSame(job[i], job'[i]) /\ ds \cap job'[i].hosts \subseteq job'[i].stale
  <2>1. Aged(job[i], job'[i], ds, dl)
    BY <1>1, CalmAt DEF CalmStep, Telling, Working
  <2> QED BY <1>1, <2>1, AgedTells DEF TellsSame
<1>2. \A d \in Devices : (running'[d].rev = running[d].rev /\ wanted'[d] = wanted[d]) \/ Noticed(d)
  BY <1>1 DEF Noticed
<1> QED BY <1>1, <1>2, TrueKept

\* One sync goes on, and claims no more than before.
LEMMA TrueOne ==
  ASSUME Base, TrueInv, NEW j \in Jobs, NEW ds, NEW dl, OthersAge(j, ds, dl), astray \subseteq astray',
         \A d \in Devices : running'[d].rev = running[d].rev /\ wanted'[d] = wanted[d],
         \A d \in Devices : synced'[d] => synced[d] \/ d \in astray',
         Telling(job'[j]) => TellsSame(job[j], job'[j])
  PROVE  TrueInv'
<1>1. ASSUME NEW i \in Jobs, Telling(job'[i])
      PROVE  TellsSame(job[i], job'[i])
  <2>1. CASE i = j
    BY <1>1, <2>1
  <2>2. CASE i # j
    <3>1. Aged(job[i], job'[i], ds, dl)
      BY <2>2 DEF OthersAge
    <3> QED BY <1>1, <3>1, AgedTells DEF TellsSame
  <2> QED BY <2>1, <2>2
<1> QED BY <1>1, TrueKept

LEMMA TrueNext ==
  ASSUME Base, RevInv, TrueInv, Next
  PROVE  TrueInv'
<1>1. ASSUME UNCHANGED config, UNCHANGED astray, \A d \in Devices : synced'[d] => synced[d],
             NEW ds, NEW dl, CalmStep(ds, dl)
      PROVE  TrueInv'
  BY <1>1, TrueCalm DEF config
<1>2. ASSUME NEW j \in Jobs, NEW r \in Requests, SyncStart(j, r) \/ ApplyStart(j, r) \/ UpgradeStart(j, r)
      PROVE  TrueInv'
  <2>1. UNCHANGED config /\ UNCHANGED astray /\ UNCHANGED synced
    BY <1>2 DEF SyncStart, ApplyStart, UpgradeStart, belief, hist
  <2> QED BY <1>1, <1>2, <2>1, StartJobs
<1>3. ASSUME NEW j \in Jobs, SyncCheckHash(j) \/ AcquireLock(j) \/ RollbackWait(j) \/ ApplyDone(j)
      PROVE  TrueInv'
  <2>1. UNCHANGED config /\ UNCHANGED astray
    BY <1>3 DEF SyncCheckHash, AcquireLock, RollbackWait, ApplyDone, hist
  <2>2. \A d \in Devices : synced'[d] => synced[d]
    <3>1. CASE SyncCheckHash(j)
      <4>1. \/ synced' = synced
            \/ \E bad : synced' = [d \in Devices |-> synced[d] /\ d \notin bad]
        BY <3>1 DEF SyncCheckHash
      <4> QED BY <4>1
    <3>2. CASE AcquireLock(j) \/ RollbackWait(j)
      BY <3>2 DEF AcquireLock, RollbackWait, belief
    <3>3. CASE ApplyDone(j)
      BY <3>3 DEF ApplyDone, Base, Typed, RowsTyped
    <3> QED BY <1>3, <3>1, <3>2, <3>3
  <2> QED BY <1>1, <1>3, <2>1, <2>2, CheckJobs
<1>4. ASSUME NEW j \in Jobs,
             CheckJobAbortStatus(j) \/ FirmwareDownload(j) \/ FirmwareActivate(j) \/ Abort(j)
      PROVE  TrueInv'
  <2>1. UNCHANGED config /\ UNCHANGED astray /\ UNCHANGED synced
    BY <1>4 DEF CheckJobAbortStatus, FirmwareDownload, FirmwareActivate, Abort, belief, hist
  <2> QED BY <1>1, <1>4, <2>1, AdvanceJobs
<1>5. ASSUME NEW j \in Jobs, PostFlightCheck(j)
      PROVE  TrueInv'
  <2>1. UNCHANGED config /\ UNCHANGED astray
    BY <1>5 DEF PostFlightCheck
  <2>2. \A d \in Devices : synced'[d] => synced[d]
    BY <1>5, PostFlightJobs
  <2>3. \E ds : CalmStep(ds, {})
    BY <1>5, PostFlightJobs
  <2> QED BY <1>1, <2>1, <2>2, <2>3
<1>6. ASSUME UNCHANGED <<config, job>>, astray \subseteq astray', \A d \in Devices : synced'[d] => synced[d] \/ d \in astray'
      PROVE  TrueInv'
  BY <1>6, SameStep, TrueCalm DEF config
<1>7. ASSUME NEW j \in Jobs, PopulateDeviceVars(j)
      PROVE  TrueInv'
  <2>1. OthersAge(j, {}, {}) /\ job'[j].at = "push"
    BY <1>7, RenderEffect DEF Base
  <2>2. UNCHANGED config /\ UNCHANGED astray /\ UNCHANGED synced
    BY <1>7 DEF PopulateDeviceVars, belief, hist
  <2>3. ~Telling(job'[j])
    BY <2>1 DEF Telling
  <2> QED BY <2>1, <2>2, <2>3, TrueOne DEF config
<1>8. ASSUME NEW j \in Jobs, PushSyncDevice(j)
      PROVE  TrueInv'
  <2>1. PICK failed, took, changed, kept :
          /\ Pushes(j, failed, took, changed, kept)
          /\ OthersAge(j, IF job[j].r.dry THEN {} ELSE changed \cup took, {})
    BY <1>8, PushEffect DEF Base
  <2> DEFINE written == IF job[j].r.dry THEN {} ELSE changed \cup took
  <2>2. Running(j) /\ Pushing(job[j]) /\ UNCHANGED <<wanted, synced, astray>>
    BY <1>8 DEF PushSyncDevice, At, Running, Pushing
  <2>3. job[j].hosts \subseteq Devices /\ written \subseteq job[j].hosts
    BY <2>1, <2>2, RunsTyped DEF Base, Pushes
  <2>4. \A d \in Devices : d \in written => running'[d].rev = job[j].conf[d]
    <3>1. \A d \in Devices : d \in written => running'[d] = [rev |-> job[j].conf[d], form |-> running[d].form]
      BY <2>1 DEF Pushes
    <3> HIDE DEF written
    <3>2. ASSUME NEW d \in Devices, d \in written
          PROVE  running'[d].rev = job[j].conf[d]
      <4>1. running'[d] = [rev |-> job[j].conf[d], form |-> running[d].form]
        BY <3>1, <3>2
      <4> QED BY <4>1
    <3> QED BY <3>2
  <2>5. \A d \in Devices : d \notin written => running'[d] = running[d]
    BY <2>1 DEF Pushes
  <2>6. ASSUME NEW d \in Devices, synced'[d], d \notin astray'
        PROVE  running'[d].rev = wanted'[d]
    <3>1. running[d].rev = wanted[d] /\ wanted[d] \in Nat
      BY <2>2, <2>6, Numbers DEF TrueInv, SyncedIsTrue, Base
    <3>2. CASE d \notin written
      BY <2>2, <2>5, <3>1, <3>2
    <3>3. CASE d \in written
      <4>1. d \in job[j].hosts /\ ~job[j].r.dry
        BY <2>3, <3>3
      <4>2. job[j].conf[d] <= wanted[d] /\ Newest(d, job[j].conf[d]) /\ job[j].conf[d] \in Nat
        BY <2>2, <4>1, Numbers DEF RevInv, Base
      <4>3. job[j].conf[d] = wanted[d]
        BY <3>1, <4>2 DEF Newest
      <4> QED BY <2>2, <2>4, <3>3, <4>3
    <3> QED BY <3>2, <3>3
  <2>7. SyncedIsTrue'
    BY <2>6 DEF SyncedIsTrue
  <2>8. ASSUME NEW i \in Jobs, Telling(job'[i]), NEW d \in Claimed(job'[i]) \ job'[i].stale
        PROVE  running'[d].rev = wanted'[d]
    <3>1. CASE i # j
      <4>1. Telling(job[i]) /\ d \in Claimed(job[i]) \ job[i].stale /\ Running(i)
            /\ written \cap job[i].hosts \subseteq job'[i].stale
        <5>1. Aged(job[i], job'[i], written, {})
          BY <2>1, <3>1 DEF OthersAge
        <5> HIDE DEF written
        <5> QED BY <2>8, <5>1, AgedTells DEF Telling, Running
      <4>2. d \in Devices /\ d \notin written
        BY <2>8, <4>1, ClaimedIn DEF Base
      <4> QED BY <2>2, <2>5, <4>1, <4>2 DEF TrueInv
    <3>2. CASE i = j
      <4>1. /\ job'[j].r = job[j].r /\ job'[j].changed = changed /\ job'[j].stale = job[j].stale
            /\ job'[j].yes \subseteq job[j].hosts \ failed /\ (job[j].r.dry => job'[j].yes \cap changed = {})
            /\ changed \subseteq job[j].hosts \ failed /\ took \subseteq failed
        BY <2>1 DEF Pushes
      <4>2. d \in job[j].hosts \ failed /\ (job[j].r.dry => d \notin changed) /\ d \notin took /\ d \notin job[j].stale
        BY <2>8, <3>2, <4>1 DEF Claimed
      <4>3. job[j].conf[d] = wanted[d] /\ d \in Devices
        BY <2>2, <2>3, <4>2 DEF RevInv
      <4>4. CASE d \in written
        BY <2>2, <2>4, <4>3, <4>4
      <4>5. CASE d \notin written
        <5>1. d \in job[j].hosts \ (failed \cup changed)
          BY <4>2, <4>5
        <5>2. running[d].rev = job[j].conf[d]
          BY <2>1, <5>1 DEF Pushes
        <5> QED BY <2>2, <2>5, <4>3, <4>5, <5>2
      <4> QED BY <4>4, <4>5
    <3> QED BY <3>1, <3>2
  <2>9. (\A i \in Jobs : Telling(job[i]) => \A d \in Claimed(job[i]) \ job[i].stale : running[d].rev = wanted[d])'
    BY <2>8 DEF Telling, Claimed
  <2> QED BY <2>7, <2>9 DEF TrueInv
<1>9. ASSUME NEW j \in Jobs, PostSyncUpdateConfighash(j)
      PROVE  TrueInv'
  <2>1. UNCHANGED config /\ UNCHANGED <<synced, astray>>
    BY <1>9 DEF PostSyncUpdateConfighash
  <2>2. PICK got : OthersAge(j, got, {}) /\ Moves(job[j], job'[j], "flag")
    BY <1>9, HashesEffect DEF Base
  <2>3. TellsSame(job[j], job'[j])
    BY <1>9, <2>2 DEF PostSyncUpdateConfighash, At, Running, Moves, TellsSame, Telling, Claimed
  <2> QED BY <2>1, <2>2, <2>3, TrueOne DEF config
<1>10. ASSUME NEW j \in Jobs, SetFlags(j)
       PROVE  TrueInv'
  <2>1. UNCHANGED config /\ UNCHANGED <<synced, astray>>
    BY <1>10 DEF SetFlags
  <2>2. OthersAge(j, {}, {}) /\ Flags(job[j], job'[j], Told(j))
    BY <1>10, FlagsEffect DEF Base
  <2>3. TellsSame(job[j], job'[j])
    BY <1>10, <2>2 DEF SetFlags, At, Running, Flags, TellsSame, Telling, Claimed
  <2> QED BY <2>1, <2>2, <2>3, TrueOne DEF config
<1>11. ASSUME NEW j \in Jobs, CommitFlags(j)
       PROVE  TrueInv'
  <2>1. UNCHANGED config /\ astray' = (astray \ job[j].yes) \cup (job[j].yes \cap job[j].stale)
        /\ Running(j) /\ job[j].at = "commit"
    BY <1>11 DEF CommitFlags, At
  <2>2. /\ OthersAge(j, {}, {})
        /\ \/ job'[j] = Idle
           \/ Starts(job'[j], PushRequest(job[j].r), "hash")
           \/ \E at \in {"rollback", "confirm"} : Moves(job[j], job'[j], at)
        /\ \A d \in Devices : synced'[d] = Flag(j, d)
    BY <1>11, CommitEffect DEF Base
  <2>3. Telling(job[j]) /\ Claimed(job[j]) \subseteq Devices /\ job[j].yes \subseteq Claimed(job[j])
        /\ job[j].yes \cap job[j].no = {}
    BY <2>1, ClaimedIn, RunsTyped DEF Telling, Claimed, Running, Base
  <2>4. ASSUME NEW d \in Devices, synced'[d], d \notin astray'
        PROVE  running'[d].rev = wanted'[d]
    <3>1. CASE d \in job[j].yes
      <4>1. d \in Claimed(job[j]) \ job[j].stale
        BY <2>1, <2>3, <2>4, <3>1
      <4> QED BY <2>1, <2>3, <4>1 DEF TrueInv, config
    <3>2. CASE d \notin job[j].yes
      <4>1. synced[d] /\ d \notin astray
        BY <2>1, <2>2, <2>4, <3>2 DEF Flag
      <4> QED BY <2>1, <4>1 DEF TrueInv, SyncedIsTrue, config
    <3> QED BY <3>1, <3>2
  <2>5. SyncedIsTrue'
    BY <2>4 DEF SyncedIsTrue
  <2>6. ASSUME NEW i \in Jobs, Telling(job'[i])
        PROVE  TellsSame(job[i], job'[i])
    <3>1. CASE i = j
      BY <2>2, <2>3, <2>6, <3>1 DEF Starts, Moves, Telling, TellsSame, Claimed
    <3>2. CASE i # j
      BY <2>2, <2>6, <3>2, AgedTells DEF OthersAge, TellsSame
    <3> QED BY <3>1, <3>2
  <2>7. ASSUME NEW i \in Jobs, Telling(job'[i]), NEW d \in Claimed(job'[i]) \ job'[i].stale
        PROVE  running'[d].rev = wanted'[d]
    <3>1. Telling(job[i]) /\ d \in Claimed(job[i]) \ job[i].stale
      BY <2>6, <2>7 DEF TellsSame
    <3> QED BY <2>1, <3>1 DEF TrueInv, config
  <2>8. (\A i \in Jobs : Telling(job[i]) => \A d \in Claimed(job[i]) \ job[i].stale : running[d].rev = wanted[d])'
    BY <2>7 DEF Telling, Claimed
  <2> QED BY <2>5, <2>8 DEF TrueInv
<1>12. ASSUME NEW j \in Jobs, ConfirmDevices(j)
       PROVE  TrueInv'
  <2>1. UNCHANGED <<wanted, running, synced, astray>> /\ Running(j) /\ job[j].at = "confirm"
    BY <1>12 DEF ConfirmDevices, At
  <2>2. PICK ok \in SUBSET job[j].changed : \E got \in SUBSET ok : \E no \in SUBSET job[j].changed :
          OthersAge(j, got, {}) /\ Confirms(job[j], job'[j], ok, no)
    BY <1>12, ConfirmEffect DEF Base
  <2>3. ~job[j].r.dry
    BY <2>1, KindAt DEF Base
  <2>4. TellsSame(job[j], job'[j])
    BY <2>1, <2>2, <2>3 DEF Running, Confirms, TellsSame, Telling, Claimed
  <2> QED BY <2>1, <2>2, <2>4, TrueOne
<1>13. ASSUME NEW j \in Jobs, PushStaticConfig(j)
       PROVE  TrueInv'
  <2>1. UNCHANGED <<wanted, synced>>
    BY <1>13 DEF PushStaticConfig, belief
  <2>2. PICK done \in SUBSET job[j].hosts :
          /\ OthersAge(j, done, {}) /\ Moves(job[j], job'[j], "applied")
          /\ \A d \in Devices : d \notin done => running'[d] = running[d]
          /\ astray' = astray \cup done
    BY <1>13, ApplyEffect DEF Base
  <2>3. CalmStep(done, {})
    BY <2>2 DEF OthersAge, CalmStep, Calm
  <2> QED BY <2>1, <2>2, <2>3, TrueCalm
<1>14. ASSUME NEW j \in Jobs, DeviceReboot(j)
       PROVE  TrueInv'
  <2>1. UNCHANGED <<wanted, synced, astray>>
    BY <1>14 DEF DeviceReboot, belief
  <2>2. \E ds : CalmStep(ds, {})
    BY <1>14, RebootJobs
  <2>3. \A d \in Devices : running'[d].rev = running[d].rev
    BY <1>14, RebootJobs
  <2> QED BY <2>1, <2>2, <2>3, TrueCalm
<1>15. ASSUME NEW d \in Devices, Revert(d) \/ Tamper(d)
       PROVE  TrueInv'
  <2>1. UNCHANGED <<wanted, synced>> /\ job' = Altered(d) /\ astray' = astray \cup {d}
        /\ \E new : running' = [running EXCEPT ![d] = new]
    BY <1>15 DEF Revert, Tamper, belief
  <2>2. \A e \in Devices : e # d => running'[e] = running[e]
    BY <2>1 DEF Base, Typed, RowsTyped
  <2> QED BY <2>1, <2>2, AlteredStep, TrueCalm
<1>16. CASE MarkStore
  <2> DEFINE m == marker.dev
  <2>1. /\ wanted' = [wanted EXCEPT ![m] = @ + 1] /\ UNCHANGED running /\ job' = Old({m}, None) /\ m \in Devices
        /\ synced' = [synced EXCEPT ![m] = @ /\ ~marker.snap]
        /\ astray' = astray \cup {e \in {m} : synced[e] /\ ~marker.snap}
    BY <1>16 DEF MarkStore, Base, Typed, Idle
  <2> HIDE DEF m
  <2>2. \A d \in Devices : d # m => wanted'[d] = wanted[d] /\ synced'[d] = synced[d]
    BY <2>1 DEF Base, Typed, RowsTyped
  <2>3. synced'[m] => synced[m] /\ m \in astray'
    BY <2>1 DEF Base, Typed, RowsTyped
  <2> QED BY <2>1, <2>2, <2>3, MarkedStep, TrueCalm
<1>17. ASSUME NEW d \in Devices, UpdateFacts(d) \/ MarkRead(d) \/ PostEvent(d)
       PROVE  TrueInv'
  <2>1. UNCHANGED <<config, job>> /\ UNCHANGED <<synced, astray>>
    BY <1>17 DEF UpdateFacts, MarkRead, PostEvent, belief
  <2> QED BY <1>6, <2>1
<1>18. ASSUME NEW d \in Devices, NEW value \in BOOLEAN, PutSynchronized(d, value) \/ PutState(d, value)
       PROVE  TrueInv'
  <2>1. UNCHANGED <<config, job>>
    BY <1>18 DEF PutSynchronized, PutState
  <2>2. astray \subseteq astray' /\ \A e \in Devices : synced'[e] => synced[e] \/ e \in astray'
    <3>1. CASE PutSynchronized(d, value)
      BY <3>1 DEF PutSynchronized, Base, Typed, RowsTyped
    <3>2. CASE PutState(d, value)
      BY <3>2 DEF PutState, Base, Typed, RowsTyped
    <3> QED BY <1>18, <3>1, <3>2
  <2> QED BY <1>6, <2>1, <2>2
<1>19. CASE ReadEvents \/ WriteEvents \/ MarkFails
  <2>1. UNCHANGED <<config, job>> /\ UNCHANGED <<synced, astray>>
    BY <1>19 DEF ReadEvents, WriteEvents, MarkFails, belief, hist
  <2> QED BY <1>6, <2>1
<1> QED BY <1>2, <1>3, <1>4, <1>5, <1>7, <1>8, <1>9, <1>10, <1>11, <1>12, <1>13, <1>14, <1>15, <1>16,
           <1>17, <1>18, <1>19 DEF Next, Sync, Upgrade

FlagInv == Base /\ RevInv /\ TrueInv

LEMMA FlagInit == Init => FlagInv
<1> SUFFICES ASSUME Init PROVE FlagInv
  OBVIOUS
<1>1. Base
  BY BaseInit
<1>2. RevInv /\ TrueInv
  BY DEF Init, RevInv, Newest, Pushing, TrueInv, SyncedIsTrue, Telling
<1> QED BY <1>1, <1>2 DEF FlagInv

LEMMA FlagStep == FlagInv /\ [Next]_vars => FlagInv'
<1>1. ASSUME FlagInv, Next
      PROVE  FlagInv'
  BY <1>1, BaseStep, RevNext, TrueNext DEF FlagInv
<1>2. ASSUME FlagInv, UNCHANGED vars
      PROVE  FlagInv'
  <2>1. Base'
    BY <1>2, BaseStep DEF FlagInv
  <2>2. RevInv' /\ TrueInv'
    BY <1>2 DEF FlagInv, RevInv, Newest, Pushing, TrueInv, SyncedIsTrue, Telling, Claimed, vars, config, belief, hist
  <2> QED BY <2>1, <2>2 DEF FlagInv
<1> QED BY <1>1, <1>2

\* No step of a job, a request or a timer shows a switch as synchronized that does not
\* run what would be generated for it, but the ways that are named.
THEOREM FlagIsTrue == Spec => []SyncedIsTrue
<1>1. FlagInv => SyncedIsTrue
  BY DEF FlagInv, TrueInv
<1> QED BY <1>1, FlagInit, FlagStep, PTL DEF Spec

(***************************************************************************)
(* Upgrades: a switch that has booted another OS, and is not known to be   *)
(* passed over, is about to be checked by the upgrade that rebooted it.    *)
(***************************************************************************)
LEMMA OneMoves ==
  ASSUME Base, NEW j \in Jobs,
         \/ \E r \in Requests : SyncStart(j, r) \/ ApplyStart(j, r) \/ UpgradeStart(j, r)
         \/ Sync(j) \/ PushStaticConfig(j) \/ ApplyDone(j) \/ Upgrade(j) \/ Abort(j)
  PROVE  \E ds, dl : OthersAge(j, ds, dl)
<1>1. ASSUME NEW r \in Requests, SyncStart(j, r) \/ ApplyStart(j, r) \/ UpgradeStart(j, r)
      PROVE  \E ds, dl : OthersAge(j, ds, dl)
  <2>1. \E at : Take(j, r, at)
    <3>1. CASE SyncStart(j, r) \/ ApplyStart(j, r)
      BY <3>1 DEF SyncStart, ApplyStart
    <3>2. CASE UpgradeStart(j, r)
      BY <3>2 DEF UpgradeStart
    <3> QED BY <1>1, <3>1, <3>2
  <2>2. PICK x : job' = [job EXCEPT ![j] = x]
    BY <2>1 DEF Take
  <2>3. \A i \in Jobs \ {j} : job'[i] = job[i]
    BY <2>2 DEF Base, Typed, JobsTyped
  <2> QED BY <2>3, SameAge DEF OthersAge, Base, Typed, JobsTyped
<1>2. CASE SyncCheckHash(j) \/ AcquireLock(j) \/ RollbackWait(j) \/ ApplyDone(j)
  <2>1. End(j) \/ \E at : Go(j, at)
    <3>1. CASE SyncCheckHash(j)
      BY <3>1 DEF SyncCheckHash
    <3>2. CASE AcquireLock(j)
      BY <3>2 DEF AcquireLock
    <3>3. CASE RollbackWait(j) \/ ApplyDone(j)
      BY <3>3 DEF RollbackWait, ApplyDone
    <3> QED BY <1>2, <3>1, <3>2, <3>3
  <2>2. \E x : job' = [job EXCEPT ![j] = x]
    BY <2>1 DEF End, Go
  <2>3. \A i \in Jobs \ {j} : job'[i] = job[i]
    BY <2>2 DEF Base, Typed, JobsTyped
  <2> QED BY <2>3, SameAge DEF OthersAge, Base, Typed, JobsTyped
<1>3. CASE PopulateDeviceVars(j)
  BY <1>3, RenderEffect DEF Base
<1>4. CASE PushSyncDevice(j)
  BY <1>4, PushEffect DEF Base
<1>5. CASE PostSyncUpdateConfighash(j)
  BY <1>5, HashesEffect DEF Base
<1>6. CASE SetFlags(j)
  BY <1>6, FlagsEffect DEF Base
<1>7. CASE CommitFlags(j)
  BY <1>7, CommitEffect DEF Base
<1>8. CASE ConfirmDevices(j)
  BY <1>8, ConfirmEffect DEF Base
<1>9. CASE PushStaticConfig(j)
  BY <1>9, ApplyEffect DEF Base
<1>10. CASE CheckJobAbortStatus(j)
  BY <1>10, CheckEffect, KindAt DEF CheckJobAbortStatus, Base, Steps
<1>11. CASE FirmwareDownload(j) \/ FirmwareActivate(j)
  <2>1. Running(j) /\ job[j].at \in Steps /\ (NextStep(job, j) \/ End(j))
    BY <1>11, PlaceNames DEF FirmwareDownload, FirmwareActivate, Step, At
  <2> QED BY <2>1, NextStepEffect, EndEffect DEF Base, Steps
<1>12. CASE DeviceReboot(j)
  BY <1>12, RebootJobs
<1>13. CASE PostFlightCheck(j)
  BY <1>13, PostFlightJobs
<1>14. CASE Abort(j)
  BY <1>14, AbortEffect DEF Base
<1> QED BY <1>1, <1>2, <1>3, <1>4, <1>5, <1>6, <1>7, <1>8, <1>9, <1>10, <1>11, <1>12, <1>13, <1>14
        DEF Sync, Upgrade

AtPost(x, d) == x # Idle /\ x.at = "post" /\ d \in x.hosts
CheckInv == \A d \in rebooted \ unmarked : \E i \in Jobs : AtPost(job[i], d)

LEMMA AgedPost ==
  ASSUME NEW x, NEW y, NEW ds, NEW dl, Aged(x, y, ds, dl), NEW d
  PROVE  AtPost(x, d) => AtPost(y, d)
BY DEF Aged, Kept, AtPost

LEMMA CheckKept ==
  ASSUME CheckInv, NEW j \in Jobs, NEW ds, NEW dl, OthersAge(j, ds, dl),
         rebooted' \ unmarked' \subseteq rebooted \ unmarked,
         \A d \in rebooted' \ unmarked' : AtPost(job[j], d) => AtPost(job'[j], d)
  PROVE  CheckInv'
<1>1. ASSUME NEW d \in rebooted' \ unmarked'
      PROVE  \E i \in Jobs : AtPost(job'[i], d)
  <2>1. PICK i \in Jobs : AtPost(job[i], d)
    BY <1>1 DEF CheckInv
  <2> QED BY <1>1, <2>1, AgedPost DEF OthersAge
<1> QED BY <1>1 DEF CheckInv, AtPost

LEMMA CheckAges ==
  ASSUME CheckInv, NEW ds, NEW dl, \A i \in Jobs : Aged(job[i], job'[i], ds, dl),
         rebooted' \ unmarked' \subseteq rebooted \ unmarked
  PROVE  CheckInv'
<1>1. ASSUME NEW d \in rebooted' \ unmarked'
      PROVE  \E i \in Jobs : AtPost(job'[i], d)
  <2>1. PICK i \in Jobs : AtPost(job[i], d)
    BY <1>1 DEF CheckInv
  <2> QED BY <1>1, <2>1, AgedPost
<1> QED BY <1>1 DEF CheckInv, AtPost

LEMMA CheckNext ==
  ASSUME Base, CheckInv, Next
  PROVE  CheckInv'
<1>1. ASSUME NEW j \in Jobs, ~Running(j) \/ job[j].at # "post", UNCHANGED <<rebooted, unmarked>>,
             \E ds, dl : OthersAge(j, ds, dl)
      PROVE  CheckInv'
  BY <1>1, CheckKept DEF AtPost, Running
<1>2. ASSUME NEW j \in Jobs, NEW r \in Requests, SyncStart(j, r) \/ ApplyStart(j, r) \/ UpgradeStart(j, r)
      PROVE  CheckInv'
  <2>1. ~Running(j) /\ UNCHANGED <<rebooted, unmarked>>
    BY <1>2 DEF SyncStart, ApplyStart, UpgradeStart, Take, hist
  <2> QED BY <1>1, <1>2, <2>1, OneMoves
<1>3. ASSUME NEW j \in Jobs, Sync(j) \/ PushStaticConfig(j) \/ ApplyDone(j)
      PROVE  CheckInv'
  <2>1. job[j].at # "post" /\ UNCHANGED <<rebooted, unmarked>>
    BY <1>3 DEF Sync, SyncCheckHash, AcquireLock, PopulateDeviceVars, PushSyncDevice, PostSyncUpdateConfighash,
                SetFlags, CommitFlags, RollbackWait, ConfirmDevices, PushStaticConfig, ApplyDone, At, hist
  <2> QED BY <1>1, <1>3, <2>1, OneMoves
<1>4. ASSUME NEW j \in Jobs, FirmwareDownload(j) \/ FirmwareActivate(j)
      PROVE  CheckInv'
  <2>1. job[j].at # "post" /\ UNCHANGED <<rebooted, unmarked>>
    BY <1>4 DEF FirmwareDownload, FirmwareActivate, Step, At, hist
  <2> QED BY <1>1, <1>4, <2>1, OneMoves DEF Upgrade
<1>5. ASSUME NEW j \in Jobs, CheckJobAbortStatus(j)
      PROVE  CheckInv'
  <2>1. Running(j) /\ job[j].at \in Steps /\ job[j].r.kind = "upgrade"
    BY <1>5, KindAt DEF CheckJobAbortStatus, Base
  <2>2. /\ OthersAge(j, {}, {})
        /\ job[j].aborted \/ Moves(job[j], job'[j], job[j].at)
    BY <1>5, <2>1, CheckEffect DEF Base, Steps
  <2>3. rebooted' = rebooted /\ unmarked \subseteq unmarked'
        /\ ((job[j].aborted /\ job[j].at = "post") => rebooted \cap job[j].hosts \subseteq unmarked')
    BY <1>5 DEF CheckJobAbortStatus
  <2>4. ASSUME NEW d \in rebooted' \ unmarked', AtPost(job[j], d)
        PROVE  AtPost(job'[j], d)
    <3>1. ~job[j].aborted
      BY <2>3, <2>4 DEF AtPost
    <3> QED BY <2>2, <2>4, <3>1 DEF Moves, AtPost
  <2> QED BY <2>2, <2>3, <2>4, CheckKept
<1>6. ASSUME NEW j \in Jobs, DeviceReboot(j)
      PROVE  CheckInv'
  <2> DEFINE d == job[j].r.by
  <2>1. job[j].at = "reboot" /\ job[j] # Idle
    BY <1>6 DEF DeviceReboot, Step, At, Running
  <2>2. /\ \/ UNCHANGED <<rebooted, unmarked>>
           \/ /\ rebooted' = rebooted \cup {d}
              /\ "post" \notin job[j].r.steps => unmarked' = unmarked \cup {d}
              /\ "post" \in job[j].r.steps => unmarked' = unmarked /\ job'[j] # Idle /\ job'[j].at = "post"
        /\ \E ds : OthersAge(j, ds, {})
        /\ job'[j] = Idle \/ Advances(job[j], job'[j])
        /\ job[j].hosts = {d}
    BY <1>6, RebootJobs
  <2>3. CASE UNCHANGED <<rebooted, unmarked>>
    BY <1>1, <2>1, <2>2, <2>3
  <2>4. CASE /\ rebooted' = rebooted \cup {d}
             /\ "post" \notin job[j].r.steps => unmarked' = unmarked \cup {d}
             /\ "post" \in job[j].r.steps => unmarked' = unmarked /\ job'[j] # Idle /\ job'[j].at = "post"
    <3> HIDE DEF d
    <3>1. ASSUME NEW e \in rebooted' \ unmarked'
          PROVE  \E i \in Jobs : AtPost(job'[i], e)
      <4>1. CASE e = d
        <5>1. "post" \in job[j].r.steps /\ job'[j] # Idle /\ job'[j].at = "post"
          BY <2>4, <3>1, <4>1
        <5>2. job'[j].hosts = {d}
          BY <2>2, <5>1 DEF Advances
        <5> QED BY <4>1, <5>1, <5>2 DEF AtPost
      <4>2. CASE e # d
        <5>1. e \in rebooted \ unmarked
          BY <2>4, <3>1, <4>2
        <5>2. PICK i \in Jobs : AtPost(job[i], e)
          BY <5>1 DEF CheckInv
        <5>3. i # j
          BY <2>1, <5>2 DEF AtPost
        <5> QED BY <2>2, <5>2, <5>3, AgedPost DEF OthersAge
      <4> QED BY <4>1, <4>2
    <3> QED BY <3>1 DEF CheckInv, AtPost
  <2> QED BY <2>2, <2>3, <2>4
<1>7. ASSUME NEW j \in Jobs, PostFlightCheck(j)
      PROVE  CheckInv'
  <2> DEFINE d == job[j].r.by
  <2>1. /\ job[j].hosts = {d} /\ \E ds : OthersAge(j, ds, {})
        /\ \/ rebooted' = rebooted \ {d} /\ unmarked' = unmarked \ {d}
           \/ unmarked' = unmarked \cup (rebooted \cap {d}) /\ rebooted' = rebooted
    BY <1>7, PostFlightJobs
  <2> HIDE DEF d
  <2>2. d \notin rebooted' \ unmarked' /\ rebooted' \ unmarked' \subseteq rebooted \ unmarked
    BY <2>1
  <2> QED BY <2>1, <2>2, CheckKept DEF AtPost
<1>8. ASSUME NEW j \in Jobs, Abort(j)
      PROVE  CheckInv'
  <2>1. OthersAge(j, {}, {}) /\ Moves(job[j], job'[j], job[j].at) /\ UNCHANGED <<rebooted, unmarked>>
    BY <1>8, AbortEffect DEF Abort, hist, Base
  <2> QED BY <2>1, CheckKept DEF Moves, AtPost
<1>9. ASSUME NEW d \in Devices, Revert(d) \/ Tamper(d)
      PROVE  CheckInv'
  <2>1. job' = Altered(d) /\ UNCHANGED <<rebooted, unmarked>>
    BY <1>9 DEF Revert, Tamper
  <2> QED BY <2>1, AlteredStep, CheckAges
<1>10. ASSUME UNCHANGED job, rebooted' = rebooted, unmarked \subseteq unmarked'
       PROVE  CheckInv'
  BY <1>10, SameStep, CheckAges
<1>11. ASSUME NEW d \in Devices, UpdateFacts(d) \/ MarkRead(d) \/ PostEvent(d)
       PROVE  CheckInv'
  <2>1. UNCHANGED job /\ rebooted' = rebooted /\ unmarked \subseteq unmarked'
    BY <1>11 DEF UpdateFacts, MarkRead, PostEvent
  <2> QED BY <1>10, <2>1
<1>12. ASSUME NEW d \in Devices, NEW value \in BOOLEAN, PutSynchronized(d, value) \/ PutState(d, value)
       PROVE  CheckInv'
  BY <1>10, <1>12 DEF PutSynchronized, PutState
<1>13. CASE ReadEvents \/ WriteEvents \/ MarkFails
  <2>1. UNCHANGED job /\ UNCHANGED <<rebooted, unmarked>>
    BY <1>13 DEF ReadEvents, WriteEvents, MarkFails, hist
  <2> QED BY <1>10, <2>1
<1>14. CASE MarkStore
  <2>1. job' = Old({marker.dev}, None) /\ UNCHANGED <<rebooted, unmarked>>
    BY <1>14 DEF MarkStore
  <2> QED BY <2>1, MarkedStep, CheckAges
<1> QED BY <1>2, <1>3, <1>4, <1>5, <1>6, <1>7, <1>8, <1>9, <1>11, <1>12, <1>13, <1>14 DEF Next, Upgrade

MarkInv == Base /\ CheckInv

LEMMA MarkInit == Init => MarkInv
<1> SUFFICES ASSUME Init PROVE MarkInv
  OBVIOUS
<1>1. CheckInv
  BY DEF Init, CheckInv
<1> QED BY <1>1, BaseInit DEF MarkInv

LEMMA MarkStep == MarkInv /\ [Next]_vars => MarkInv'
<1>1. ASSUME MarkInv, Next
      PROVE  MarkInv'
  BY <1>1, BaseStep, CheckNext DEF MarkInv
<1>2. ASSUME MarkInv, UNCHANGED vars
      PROVE  MarkInv'
  <2>1. Base'
    BY <1>2, BaseStep DEF MarkInv
  <2>2. CheckInv'
    BY <1>2 DEF MarkInv, CheckInv, AtPost, vars, hist
  <2> QED BY <2>1, <2>2 DEF MarkInv
<1> QED BY <1>1, <1>2

LEMMA PostUpgrades ==
  ASSUME Base, CheckInv, NEW d \in rebooted \ unmarked
  PROVE  Upgrading(d)
<1>1. PICK i \in Jobs : AtPost(job[i], d)
  BY DEF CheckInv
<1>2. Running(i) /\ job[i].at \in Steps
  BY <1>1, PlaceNames DEF AtPost, Running
<1> QED BY <1>1, <1>2, KindAt DEF Upgrading, AtPost, Base

\* A switch that was upgraded is marked, or its upgrade is still at work.
THEOREM UpgradesAreMarked == Spec => []UpgradeIsMarked
<1>1. MarkInv => UpgradeIsMarked
  BY PostUpgrades DEF MarkInv, UpgradeIsMarked
<1> QED BY <1>1, MarkInit, MarkStep, PTL DEF Spec

(***************************************************************************)
(* The hash of a switch that nobody is at work on is that of what it runs. *)
(***************************************************************************)
HashedBy(x, d) == x # Idle /\ x.at = "hashes" /\ d \in x.changed /\ ~x.r.dry
Hashing(d) == \E i \in Jobs : HashedBy(job[i], d)
Covered(d) == d \notin tampered \cup altered \cup unmarked \cup rebooted /\ pending[d] = None /\ ~Hashing(d)
Checking(x) == x # Idle /\ x.at = "hash"
HashInv ==
  /\ alarm = {}
  /\ \A d \in Devices : (Covered(d) /\ confhash[d] # None) => confhash[d] = running[d]
  /\ \A j \in Jobs : Checking(job[j]) => \A d \in job[j].hosts \ job[j].stale :
       (Covered(d) /\ job[j].stored[d] # None) => job[j].stored[d] = running[d]

\* A switch stays as its hash says, or gets the hash of what it runs and the jobs
\* are told so.
HashStays(d) ==
  /\ Covered(d) /\ running'[d] = running[d]
  /\ confhash'[d] = confhash[d] \/ confhash'[d] = None
HashRenewed(d, ds) == (confhash'[d] = None \/ confhash'[d] = running'[d]) /\ d \in ds

LEMMA AgedChecks ==
  ASSUME NEW x, NEW y, NEW ds, NEW dl, Aged(x, y, ds, dl), Checking(y)
  PROVE  /\ Checking(x) /\ y.hosts = x.hosts /\ y.stored = x.stored /\ y.r = x.r /\ y.blank = x.blank
         /\ y.stale = x.stale \cup (ds \cap x.hosts) /\ y.late = x.late \cup (dl \cap x.hosts)
BY DEF Aged, Kept, Checking

LEMMA AgedHashes ==
  ASSUME NEW x, NEW y, NEW ds, NEW dl, Aged(x, y, ds, dl), NEW d
  PROVE  HashedBy(x, d) => HashedBy(y, d)
BY DEF Aged, Kept, HashedBy

LEMMA HashingKept ==
  ASSUME NEW j \in Jobs, NEW ds, NEW dl, OthersAge(j, ds, dl), NEW d, ~HashedBy(job[j], d)
  PROVE  Hashing(d) => Hashing(d)'
<1> SUFFICES ASSUME Hashing(d) PROVE Hashing(d)'
  OBVIOUS
<1>1. PICK i \in Jobs : HashedBy(job[i], d)
  BY DEF Hashing
<1>2. HashedBy(job'[i], d)
  BY <1>1, AgedHashes DEF OthersAge
<1> QED BY <1>2 DEF Hashing, HashedBy

LEMMA HashKept ==
  ASSUME Base, HashInv, alarm' = {}, NEW ds, NEW dl,
         \A d \in Devices : Covered(d)' => HashStays(d) \/ HashRenewed(d, ds),
         \A i \in Jobs : Checking(job'[i]) => \/ Aged(job[i], job'[i], ds, dl)
                                              \/ ds = {} /\ \E r \in Asked : Starts(job'[i], r, "hash")
  PROVE  HashInv'
<1>1. ASSUME NEW d \in Devices, Covered(d)', confhash'[d] # None
      PROVE  confhash'[d] = running'[d]
  BY <1>1 DEF HashInv, HashStays, HashRenewed
<1>2. ASSUME NEW j \in Jobs, Checking(job'[j]), NEW d \in job'[j].hosts \ job'[j].stale,
             Covered(d)', job'[j].stored[d] # None
      PROVE  job'[j].stored[d] = running'[d]
  <2>1. CASE Aged(job[j], job'[j], ds, dl)
    <3>1. /\ Checking(job[j]) /\ job'[j].hosts = job[j].hosts /\ job'[j].stored = job[j].stored
          /\ job'[j].stale = job[j].stale \cup (ds \cap job[j].hosts)
      BY <1>2, <2>1, AgedChecks
    <3>2. d \in job[j].hosts \ job[j].stale /\ d \notin ds /\ d \in Devices
      BY <1>2, <3>1, RunsTyped DEF Checking, Running, Base
    <3>3. HashStays(d)
      BY <1>2, <3>2 DEF HashRenewed
    <3> QED BY <1>2, <3>1, <3>2, <3>3 DEF HashInv, HashStays
  <2>2. CASE ds = {} /\ \E r \in Asked : Starts(job'[j], r, "hash")
    <3>1. PICK r \in Asked : Starts(job'[j], r, "hash")
      BY <2>2
    <3>2. d \in Devices /\ job'[j].stored[d] = StoredHash(r, d)
      BY <1>2, <3>1, SelectedHosts DEF Starts
    <3>3. job'[j].stored[d] = confhash[d]
      BY <1>2, <3>2 DEF StoredHash
    <3>4. HashStays(d)
      BY <1>2, <2>2, <3>2 DEF HashRenewed
    <3> QED BY <1>2, <3>2, <3>3, <3>4 DEF HashInv, HashStays
  <2> QED BY <1>2, <2>1, <2>2
<1>3. (\A d \in Devices : (Covered(d) /\ confhash[d] # None) => confhash[d] = running[d])'
  BY <1>1
<1>4. (\A j \in Jobs : Checking(job[j]) => \A d \in job[j].hosts \ job[j].stale :
         (Covered(d) /\ job[j].stored[d] # None) => job[j].stored[d] = running[d])'
  BY <1>2 DEF Checking
<1> QED BY <1>3, <1>4 DEF HashInv

\* One job that stores no hash goes on, and the switch is as before.
LEMMA CoveredBefore ==
  ASSUME NEW j \in Jobs, NEW ds, NEW dl, OthersAge(j, ds, dl), NEW d, ~HashedBy(job[j], d),
         Covered(d)', d \notin tampered \cup altered \cup unmarked \cup rebooted, pending[d] = None
  PROVE  Covered(d)
BY HashingKept DEF Covered

LEMMA CoveredAges ==
  ASSUME NEW ds, NEW dl, \A i \in Jobs : Aged(job[i], job'[i], ds, dl), NEW d,
         Covered(d)', d \notin tampered \cup altered \cup unmarked \cup rebooted, pending[d] = None
  PROVE  Covered(d)
<1>1. Hashing(d) => Hashing(d)'
  <2> SUFFICES ASSUME Hashing(d) PROVE Hashing(d)'
    OBVIOUS
  <2>1. PICK i \in Jobs : HashedBy(job[i], d)
    BY DEF Hashing
  <2>2. HashedBy(job'[i], d)
    BY <2>1, AgedHashes
  <2> QED BY <2>2 DEF Hashing, HashedBy
<1> QED BY <1>1 DEF Covered

LEMMA HashQuiet ==
  ASSUME Base, HashInv, alarm' = {}, NEW j \in Jobs, NEW ds, NEW dl, OthersAge(j, ds, dl),
         ~Running(j) \/ job[j].at # "hashes",
         Checking(job'[j]) => ds = {} /\ \E r \in Asked : Starts(job'[j], r, "hash"),
         UNCHANGED <<running, pending, tampered, altered>>, rebooted \subseteq rebooted', unmarked \subseteq unmarked',
         \A d \in Devices : confhash'[d] = confhash[d] \/ confhash'[d] = None
  PROVE  HashInv'
<1>1. ASSUME NEW d \in Devices, Covered(d)'
      PROVE  HashStays(d)
  <2>1. Covered(d)
    BY <1>1, CoveredBefore DEF Covered, HashedBy, Running
  <2> QED BY <2>1 DEF HashStays
<1>2. \A i \in Jobs : Checking(job'[i]) => \/ Aged(job[i], job'[i], ds, dl)
                                           \/ ds = {} /\ \E r \in Asked : Starts(job'[i], r, "hash")
  BY DEF OthersAge
<1> QED BY <1>1, <1>2, HashKept

LEMMA HashAges ==
  ASSUME Base, HashInv, alarm' = {}, NEW ds, NEW dl, \A i \in Jobs : Aged(job[i], job'[i], ds, dl),
         \A d \in Devices : Covered(d)' => HashStays(d) \/ HashRenewed(d, ds)
  PROVE  HashInv'
BY HashKept

\* The check of the hash finds no switch that was changed without a reason.
LEMMA NoAlarm ==
  ASSUME Base, CheckInv, HashInv, NEW j \in Jobs, SyncCheckHash(j)
  PROVE  alarm' = {}
<1> DEFINE read == {d \in job[j].hosts : job[j].stored[d] # None}
           other == {d \in read : job[j].stored[d] # running[d]}
<1>1. PICK unreachable \in {{}, read} :
        alarm' = alarm \/ alarm' = alarm \cup {d \in other \ unreachable : ~Excused(d, j)}
  BY DEF SyncCheckHash
<1>2. Running(j) /\ Checking(job[j]) /\ job[j].hosts \subseteq Devices
  BY RunsTyped DEF SyncCheckHash, At, Running, Checking, Base
<1>3. ASSUME NEW d \in other
      PROVE  Excused(d, j)
  <2>1. d \in job[j].hosts /\ job[j].stored[d] # None /\ job[j].stored[d] # running[d]
    OBVIOUS
  <2>2. d \in job[j].stale \/ ~Covered(d)
    BY <1>2, <2>1 DEF HashInv
  <2>3. CASE Hashing(d)
    <3>1. PICK i \in Jobs : HashedBy(job[i], d)
      BY <2>3 DEF Hashing
    <3>2. i # j /\ Running(i)
      BY <1>2, <3>1 DEF HashedBy, Checking, Running
    <3>3. d \in job[i].hosts
      BY <3>1, <3>2, RunsTyped DEF HashedBy, Base
    <3> QED BY <3>1, <3>2, <3>3 DEF Excused, Updating, At, HashedBy
  <2>4. CASE d \in rebooted \ unmarked
    BY <2>4, PostUpgrades DEF Excused
  <2> QED BY <2>2, <2>3, <2>4 DEF Covered, Excused
<1>4. {d \in other \ unreachable : ~Excused(d, j)} = {}
  BY <1>3
<1> QED BY <1>1, <1>4 DEF HashInv

LEMMA HashNext ==
  ASSUME Base, CheckInv, HashInv, Next
  PROVE  HashInv'
<1>0. alarm = {}
  BY DEF HashInv
<1>1. ASSUME NEW j \in Jobs, NEW r \in Requests, SyncStart(j, r) \/ ApplyStart(j, r) \/ UpgradeStart(j, r)
      PROVE  HashInv'
  <2>1. /\ ~Running(j) /\ UNCHANGED <<running, pending, confhash, tampered, altered, rebooted, unmarked, alarm>>
        /\ job[j] = Idle
    BY <1>1 DEF SyncStart, ApplyStart, UpgradeStart, Take, config, belief, hist, Running
  <2>2. \E at \in {"hash", "apply"} \cup Steps : Take(j, r, at)
    <3>1. CASE SyncStart(j, r) \/ ApplyStart(j, r)
      BY <3>1 DEF SyncStart, ApplyStart
    <3>2. CASE UpgradeStart(j, r)
      <4> DEFINE k == CHOOSE k \in 1..4 : /\ Order[k] \in r.steps
                                          /\ \A l \in 1..(k - 1) : Order[l] \notin r.steps
      <4>1. k \in 1..4
        BY <3>2, FirstStep DEF UpgradeStart
      <4>2. Take(j, r, Order[k])
        BY <3>2 DEF UpgradeStart
      <4> HIDE DEF k
      <4> QED BY <4>1, <4>2 DEF Steps
    <3> QED BY <1>1, <3>1, <3>2
  <2>3. PICK at \in {"hash", "apply"} \cup Steps : Take(j, r, at)
    BY <2>2
  <2>4. at \in Places /\ r \in Asked
    BY AskedRequests DEF Places, Steps
  <2>5. OthersAge(j, {}, {}) /\ Starts(job'[j], r, at)
    BY <2>3, <2>4, StartEffect DEF Take, Base
  <2>6. Checking(job'[j]) => Starts(job'[j], r, "hash")
    BY <2>5 DEF Checking, Starts
  <2> QED BY <1>0, <2>1, <2>4, <2>5, <2>6, HashQuiet
<1>2. ASSUME NEW j \in Jobs, SyncCheckHash(j) \/ AcquireLock(j) \/ RollbackWait(j) \/ ApplyDone(j)
      PROVE  HashInv'
  <2>1. UNCHANGED <<running, pending, confhash, tampered, altered, rebooted, unmarked>>
        /\ Running(j) /\ job[j].at # "hashes"
    BY <1>2 DEF SyncCheckHash, AcquireLock, RollbackWait, ApplyDone, At, config, belief, hist
  <2>2. alarm' = {}
    BY <1>0, <1>2, NoAlarm DEF AcquireLock, RollbackWait, ApplyDone, hist
  <2>3. \E ds, dl : OthersAge(j, ds, dl)
    BY <1>2, OneMoves DEF Sync
  <2>4. ~Checking(job'[j])
    BY <1>2, CheckJobs DEF Moves, Checking
  <2> QED BY <2>1, <2>2, <2>3, <2>4, HashQuiet
<1>3. ASSUME NEW j \in Jobs,
             CheckJobAbortStatus(j) \/ FirmwareDownload(j) \/ FirmwareActivate(j) \/ Abort(j)
      PROVE  HashInv'
  <2>1. UNCHANGED <<running, pending, confhash, tampered, altered, rebooted, alarm>> /\ unmarked \subseteq unmarked'
    BY <1>3 DEF CheckJobAbortStatus, FirmwareDownload, FirmwareActivate, Abort, config, belief, hist
  <2>2. Running(j) /\ job[j].at \in Steps
    BY <1>3, KindAt, PlaceNames DEF CheckJobAbortStatus, FirmwareDownload, FirmwareActivate, Step, At, Abort, Base
  <2>3. \E ds, dl : OthersAge(j, ds, dl)
    BY <1>3, OneMoves DEF Upgrade
  <2>4. job'[j] # Idle => job'[j].at \in Steps
    <3>1. CASE CheckJobAbortStatus(j)
      BY <2>2, <3>1, CheckEffect DEF Base, Steps, Advances, Moves
    <3>2. CASE Abort(j)
      BY <2>2, <3>2, AbortEffect DEF Base, Moves
    <3>3. CASE FirmwareDownload(j) \/ FirmwareActivate(j)
      <4>1. NextStep(job, j) \/ End(j)
        BY <3>3 DEF FirmwareDownload, FirmwareActivate
      <4> QED BY <2>2, <4>1, NextStepEffect, EndEffect DEF Base, Steps, Advances
    <3> QED BY <1>3, <3>1, <3>2, <3>3
  <2>5. job[j].at # "hashes" /\ ~Checking(job'[j])
    BY <2>2, <2>4, PlaceNames DEF Checking
  <2> QED BY <1>0, <2>1, <2>3, <2>5, HashQuiet
<1>4. ASSUME NEW j \in Jobs, PostFlightCheck(j)
      PROVE  HashInv'
  <2> DEFINE d == job[j].r.by
  <2>1. UNCHANGED <<running, pending, tampered, altered, alarm>>
    BY <1>4 DEF PostFlightCheck, config
  <2>2. /\ Running(j) /\ job[j].at = "post" /\ job'[j] = Idle
        /\ \/ /\ OthersAge(j, {d}, {}) /\ confhash'[d] = None
              /\ \A e \in Devices : e # d => confhash'[e] = confhash[e]
              /\ rebooted' = rebooted \ {d} /\ unmarked' = unmarked \ {d}
           \/ /\ OthersAge(j, {}, {})
              /\ unmarked' = unmarked \cup (rebooted \cap {d})
              /\ UNCHANGED <<confhash, rebooted>>
    BY <1>4, PostFlightJobs
  <2> HIDE DEF d
  <2>3. CASE /\ OthersAge(j, {d}, {}) /\ confhash'[d] = None
             /\ \A e \in Devices : e # d => confhash'[e] = confhash[e]
             /\ rebooted' = rebooted \ {d} /\ unmarked' = unmarked \ {d}
    <3>1. ASSUME NEW e \in Devices, Covered(e)'
          PROVE  HashStays(e) \/ HashRenewed(e, {d})
      <4>1. CASE e = d
        BY <2>3, <4>1 DEF HashRenewed
      <4>2. CASE e # d
        <5>1. Covered(e)
          BY <2>1, <2>2, <2>3, <3>1, <4>2, CoveredBefore DEF Covered, HashedBy
        <5> QED BY <2>1, <2>3, <4>2, <5>1 DEF HashStays
      <4> QED BY <4>1, <4>2
    <3>2. \A i \in Jobs : Checking(job'[i]) => Aged(job[i], job'[i], {d}, {})
      BY <2>2, <2>3 DEF OthersAge, Checking
    <3> QED BY <1>0, <2>1, <3>1, <3>2, HashKept
  <2>4. CASE /\ OthersAge(j, {}, {})
             /\ unmarked' = unmarked \cup (rebooted \cap {d})
             /\ UNCHANGED <<confhash, rebooted>>
    BY <1>0, <2>1, <2>2, <2>4, HashQuiet DEF Checking
  <2> QED BY <2>2, <2>3, <2>4
<1>5. ASSUME NEW j \in Jobs, PopulateDeviceVars(j)
      PROVE  HashInv'
  <2>1. UNCHANGED <<running, pending, confhash, tampered, altered, rebooted, unmarked, alarm>>
        /\ Running(j) /\ job[j].at # "hashes"
    BY <1>5 DEF PopulateDeviceVars, At, config, belief, hist
  <2>2. OthersAge(j, {}, {}) /\ ~Checking(job'[j])
    BY <1>5, RenderEffect DEF Base, Checking
  <2> QED BY <1>0, <2>1, <2>2, HashQuiet
<1>6. ASSUME NEW j \in Jobs, SetFlags(j)
      PROVE  HashInv'
  <2>1. UNCHANGED <<running, pending, confhash, tampered, altered, rebooted, unmarked, alarm>>
        /\ Running(j) /\ job[j].at # "hashes"
    BY <1>6 DEF SetFlags, At, config
  <2>2. OthersAge(j, {}, {}) /\ ~Checking(job'[j])
    BY <1>6, FlagsEffect DEF Base, Checking, Flags
  <2> QED BY <1>0, <2>1, <2>2, HashQuiet
<1>7. ASSUME NEW j \in Jobs, CommitFlags(j)
      PROVE  HashInv'
  <2>1. UNCHANGED <<running, pending, tampered, altered, rebooted, unmarked, alarm>>
        /\ Running(j) /\ job[j].at # "hashes"
    BY <1>7 DEF CommitFlags, At, config
  <2>2. /\ OthersAge(j, {}, {})
        /\ \/ job'[j] = Idle
           \/ Starts(job'[j], PushRequest(job[j].r), "hash")
           \/ \E at \in {"rollback", "confirm"} : Moves(job[j], job'[j], at)
        /\ \A d \in Devices : confhash'[d] = confhash[d] \/ confhash'[d] = None
    BY <1>7, CommitEffect DEF Base
  <2>3. PushRequest(job[j].r) \in Asked
    BY <2>1, RunsTyped, PushAsked DEF Base
  <2>4. Checking(job'[j]) => \E r \in Asked : Starts(job'[j], r, "hash")
    BY <2>2, <2>3 DEF Checking, Moves
  <2> QED BY <1>0, <2>1, <2>2, <2>4, HashQuiet
<1>8. ASSUME NEW j \in Jobs, PushSyncDevice(j)
      PROVE  HashInv'
  <2>1. PICK failed, took, changed, kept :
          /\ Pushes(j, failed, took, changed, kept)
          /\ OthersAge(j, IF job[j].r.dry THEN {} ELSE changed \cup took, {})
    BY <1>8, PushEffect DEF Base
  <2> DEFINE ds == IF job[j].r.dry THEN {} ELSE changed \cup took
  <2>2. Running(j) /\ job[j].at = "push" /\ UNCHANGED <<confhash, tampered, rebooted, unmarked, alarm>>
    BY <1>8 DEF PushSyncDevice, At
  <2>3. /\ altered \subseteq altered' /\ took \ kept \subseteq altered' /\ kept \subseteq changed \cup took
        /\ job[j].r.dry => kept = {}
        /\ (job[j].r.mode = 2 /\ ~job[j].r.dry) => kept = changed \cup took
        /\ \A d \in Devices : /\ d \notin ds => running'[d] = running[d]
                              /\ pending'[d] = IF d \in kept THEN running[d] ELSE pending[d]
        /\ job'[j] # Idle /\ job'[j].at \in {"hashes", "flag"} /\ job'[j].r = job[j].r /\ job'[j].changed = changed
        /\ (~job[j].r.dry /\ job[j].r.mode # 2) => job'[j].at = "hashes"
    BY <2>1 DEF Pushes
  <2>4. ASSUME NEW d \in Devices, Covered(d)'
        PROVE  HashStays(d)
    <3>1. d \notin kept
      <4>1. running[d] # None
        BY ConfigsAssumption DEF Base, Typed, RowsTyped
      <4> QED BY <2>3, <2>4, <4>1 DEF Covered
    <3>2. d \notin ds
      <4> SUFFICES ASSUME d \in ds PROVE FALSE
        OBVIOUS
      <4>1. ~job[j].r.dry /\ d \in changed \cup took
        OBVIOUS
      <4>2. d \notin took
        BY <2>3, <2>4, <3>1 DEF Covered
      <4>3. d \in changed /\ job[j].r.mode # 2
        BY <2>3, <3>1, <4>1, <4>2
      <4>4. HashedBy(job'[j], d)
        BY <2>3, <4>1, <4>3 DEF HashedBy
      <4>5. Hashing(d)'
        BY <4>4 DEF Hashing, HashedBy
      <4> QED BY <2>4, <4>5 DEF Covered
    <3>3. Covered(d)
      <4>1. ~HashedBy(job[j], d)
        BY <2>2 DEF HashedBy
      <4>2. d \notin tampered \cup altered \cup unmarked \cup rebooted /\ pending[d] = None
        BY <2>2, <2>3, <2>4, <3>1 DEF Covered
      <4> QED BY <2>1, <2>4, <4>1, <4>2, CoveredBefore
    <3> QED BY <2>2, <2>3, <3>2, <3>3 DEF HashStays
  <2>5. \A i \in Jobs : Checking(job'[i]) => Aged(job[i], job'[i], ds, {})
    BY <2>1, <2>3 DEF OthersAge, Checking
  <2> HIDE DEF ds
  <2> QED BY <1>0, <2>2, <2>4, <2>5, HashKept
<1>9. ASSUME NEW j \in Jobs, PostSyncUpdateConfighash(j)
      PROVE  HashInv'
  <2>1. PICK got \in SUBSET HashTargets(j) :
          Hashes(j, HashTargets(j), got) /\ OthersAge(j, got, {}) /\ Moves(job[j], job'[j], "flag")
    BY <1>9, HashesEffect DEF Base
  <2>2. Running(j) /\ job[j].at = "hashes" /\ UNCHANGED <<running, pending, rebooted, unmarked, alarm>>
    BY <1>9 DEF PostSyncUpdateConfighash, At, config
  <2>3. ASSUME NEW d \in Devices, Covered(d)'
        PROVE  HashStays(d) \/ HashRenewed(d, got)
    <3>1. CASE d \in got
      BY <2>1, <2>2, <3>1 DEF Hashes, HashRenewed
    <3>2. CASE d \notin got
      <4>1. d \notin tampered \cup altered \cup unmarked \cup rebooted /\ pending[d] = None
            /\ (~job[j].r.dry => d \notin HashTargets(j))
        BY <2>1, <2>2, <2>3, <3>2 DEF Hashes, Covered
      <4>2. ~HashedBy(job[j], d)
        BY <2>2, <4>1, HashTargetsIn DEF HashedBy, Base
      <4>3. Covered(d)
        BY <2>1, <2>3, <4>1, <4>2, CoveredBefore
      <4>4. confhash'[d] = confhash[d]
        BY <2>1, <3>2 DEF Hashes
      <4> QED BY <2>2, <4>3, <4>4 DEF HashStays
    <3> QED BY <3>1, <3>2
  <2>4. \A i \in Jobs : Checking(job'[i]) => Aged(job[i], job'[i], got, {})
    BY <2>1 DEF OthersAge, Checking, Moves
  <2> QED BY <1>0, <2>2, <2>3, <2>4, HashKept
<1>10. ASSUME NEW j \in Jobs, ConfirmDevices(j)
       PROVE  HashInv'
  <2>1. PICK ok \in SUBSET job[j].changed : \E got \in SUBSET ok : \E no \in SUBSET job[j].changed :
          /\ Hashes(j, ok, got) /\ OthersAge(j, got, {}) /\ Confirms(job[j], job'[j], ok, no)
          /\ \A d \in Devices : pending'[d] = IF d \in ok THEN None ELSE pending[d]
    BY <1>10, ConfirmEffect DEF Base
  <2>2. PICK got \in SUBSET ok : \E no \in SUBSET job[j].changed :
          /\ Hashes(j, ok, got) /\ OthersAge(j, got, {}) /\ Confirms(job[j], job'[j], ok, no)
    BY <2>1
  <2>3. Running(j) /\ job[j].at = "confirm" /\ UNCHANGED <<running, rebooted, unmarked, alarm>>
    BY <1>10 DEF ConfirmDevices, At
  <2>4. ~job[j].r.dry
    BY <2>3, KindAt DEF Base
  <2>5. ASSUME NEW d \in Devices, Covered(d)'
        PROVE  HashStays(d) \/ HashRenewed(d, got)
    <3>1. CASE d \in got
      BY <2>2, <2>3, <3>1 DEF Hashes, HashRenewed
    <3>2. CASE d \notin got
      <4>1. d \notin ok /\ d \notin tampered \cup altered \cup unmarked \cup rebooted
        BY <2>2, <2>3, <2>4, <2>5, <3>2 DEF Hashes, Covered
      <4>2. pending[d] = None
        BY <2>1, <2>5, <4>1 DEF Covered
      <4>3. Covered(d)
        BY <2>2, <2>3, <2>5, <4>1, <4>2, CoveredBefore DEF HashedBy
      <4>4. confhash'[d] = confhash[d]
        BY <2>2, <3>2 DEF Hashes
      <4> QED BY <2>3, <4>3, <4>4 DEF HashStays
    <3> QED BY <3>1, <3>2
  <2>6. \A i \in Jobs : Checking(job'[i]) => Aged(job[i], job'[i], got, {})
    BY <2>2 DEF OthersAge, Checking, Confirms
  <2> QED BY <1>0, <2>3, <2>5, <2>6, HashKept
<1>11. ASSUME NEW j \in Jobs, PushStaticConfig(j)
       PROVE  HashInv'
  <2>1. PICK done \in SUBSET job[j].hosts :
          /\ OthersAge(j, done, {}) /\ Moves(job[j], job'[j], "applied")
          /\ \A d \in Devices : d \notin done => running'[d] = running[d]
          /\ altered' = altered \cup done
    BY <1>11, ApplyEffect DEF Base
  <2>2. Running(j) /\ job[j].at = "apply" /\ UNCHANGED <<pending, confhash, tampered, rebooted, unmarked, alarm>>
    BY <1>11 DEF PushStaticConfig, At, belief
  <2>3. ASSUME NEW d \in Devices, Covered(d)'
        PROVE  HashStays(d)
    <3>1. d \notin done /\ d \notin tampered \cup altered \cup unmarked \cup rebooted /\ pending[d] = None
      BY <2>1, <2>2, <2>3 DEF Covered
    <3>2. Covered(d)
      BY <2>1, <2>2, <2>3, <3>1, CoveredBefore DEF HashedBy
    <3> QED BY <2>1, <2>2, <3>1, <3>2 DEF HashStays
  <2>4. \A i \in Jobs : Checking(job'[i]) => Aged(job[i], job'[i], done, {})
    BY <2>1 DEF OthersAge, Checking, Moves
  <2> QED BY <1>0, <2>2, <2>3, <2>4, HashKept
<1>12. ASSUME NEW j \in Jobs, DeviceReboot(j)
       PROVE  HashInv'
  <2> DEFINE d == job[j].r.by
  <2>1. /\ \/ UNCHANGED <<running, rebooted, unmarked>>
           \/ /\ rebooted' = rebooted \cup {d} /\ unmarked \subseteq unmarked'
              /\ \A e \in Devices : e # d => running'[e] = running[e]
        /\ OthersAge(j, {}, {}) \/ OthersAge(j, {d}, {})
        /\ job'[j] = Idle \/ Advances(job[j], job'[j])
    BY <1>12, RebootJobs
  <2>2. Running(j) /\ job[j].at = "reboot" /\ UNCHANGED <<pending, confhash, tampered, altered, alarm>>
    BY <1>12 DEF DeviceReboot, Step, At, belief
  <2>3. ~Checking(job'[j])
    BY <2>1, PlaceNames DEF Advances, Checking, Steps
  <2> HIDE DEF d
  <2>4. ASSUME NEW e \in Devices, Covered(e)'
        PROVE  HashStays(e)
    <3>1. e \notin tampered \cup altered \cup unmarked \cup rebooted /\ pending[e] = None /\ running'[e] = running[e]
      BY <2>1, <2>2, <2>4 DEF Covered
    <3>2. Covered(e)
      BY <2>1, <2>2, <2>4, <3>1, CoveredBefore DEF HashedBy
    <3> QED BY <2>2, <3>1, <3>2 DEF HashStays
  <2>5. CASE OthersAge(j, {}, {})
    <3>1. \A i \in Jobs : Checking(job'[i]) => Aged(job[i], job'[i], {}, {})
      BY <2>3, <2>5 DEF OthersAge
    <3> QED BY <1>0, <2>2, <2>4, <3>1, HashKept
  <2>6. CASE OthersAge(j, {d}, {})
    <3>1. \A i \in Jobs : Checking(job'[i]) => Aged(job[i], job'[i], {d}, {})
      BY <2>3, <2>6 DEF OthersAge
    <3> QED BY <1>0, <2>2, <2>4, <3>1, HashKept
  <2> QED BY <2>1, <2>5, <2>6
<1>13. ASSUME NEW d \in Devices, Revert(d)
       PROVE  HashInv'
  <2>1. /\ pending[d] # None /\ job' = Altered(d)
        /\ running' = [running EXCEPT ![d] = pending[d]] /\ pending' = [pending EXCEPT ![d] = None]
        /\ altered' = IF confhash[d] \in {None, pending[d]} THEN altered ELSE altered \cup {d}
        /\ UNCHANGED <<confhash, tampered, rebooted, unmarked, alarm>>
    BY <1>13 DEF Revert, belief
  <2>2. /\ running'[d] = pending[d]
        /\ \A e \in Devices : e # d => running'[e] = running[e] /\ pending'[e] = pending[e]
    BY <2>1 DEF Base, Typed, RowsTyped
  <2>3. \A i \in Jobs : Aged(job[i], job'[i], {d}, {d})
    BY <2>1, AlteredStep
  <2>4. ASSUME NEW e \in Devices, Covered(e)'
        PROVE  HashStays(e) \/ HashRenewed(e, {d})
    <3>1. CASE e = d
      BY <2>1, <2>2, <2>4, <3>1 DEF HashRenewed, Covered
    <3>2. CASE e # d
      <4>1. Covered(e)
        BY <2>1, <2>2, <2>3, <2>4, <3>2, CoveredAges DEF Covered
      <4> QED BY <2>1, <2>2, <3>2, <4>1 DEF HashStays
    <3> QED BY <3>1, <3>2
  <2> QED BY <1>0, <2>1, <2>3, <2>4, HashAges
<1>14. ASSUME NEW d \in Devices, Tamper(d)
       PROVE  HashInv'
  <2>1. /\ job' = Altered(d) /\ tampered' = tampered \cup {d} /\ \E new : running' = [running EXCEPT ![d] = new]
        /\ UNCHANGED <<pending, confhash, altered, rebooted, unmarked, alarm>>
    BY <1>14 DEF Tamper, belief
  <2>2. \A e \in Devices : e # d => running'[e] = running[e]
    BY <2>1 DEF Base, Typed, RowsTyped
  <2>3. \A i \in Jobs : Aged(job[i], job'[i], {d}, {d})
    BY <2>1, AlteredStep
  <2>4. ASSUME NEW e \in Devices, Covered(e)'
        PROVE  HashStays(e)
    <3>1. e # d /\ e \notin tampered \cup altered \cup unmarked \cup rebooted /\ pending[e] = None
      BY <2>1, <2>4 DEF Covered
    <3>2. Covered(e)
      BY <2>3, <2>4, <3>1, CoveredAges
    <3> QED BY <2>1, <2>2, <3>1, <3>2 DEF HashStays
  <2> QED BY <1>0, <2>1, <2>3, <2>4, HashAges
<1>15. ASSUME UNCHANGED <<running, pending, confhash, tampered, altered, rebooted, alarm>>, unmarked \subseteq unmarked',
              NEW ds, \A i \in Jobs : Aged(job[i], job'[i], ds, {})
       PROVE  HashInv'
  <2>1. ASSUME NEW e \in Devices, Covered(e)'
        PROVE  HashStays(e)
    <3>1. Covered(e)
      BY <1>15, <2>1, CoveredAges DEF Covered
    <3> QED BY <1>15, <3>1 DEF HashStays
  <2> QED BY <1>0, <1>15, <2>1, HashAges
<1>16. CASE MarkStore
  <2>1. job' = Old({marker.dev}, None)
        /\ UNCHANGED <<running, pending, confhash, tampered, altered, rebooted, unmarked, alarm>>
    BY <1>16 DEF MarkStore
  <2> QED BY <1>15, <2>1, MarkedStep
<1>17. ASSUME NEW d \in Devices, UpdateFacts(d) \/ MarkRead(d) \/ PostEvent(d)
       PROVE  HashInv'
  <2>1. UNCHANGED <<job, running, pending, confhash, tampered, altered, rebooted, alarm>> /\ unmarked \subseteq unmarked'
    BY <1>17 DEF UpdateFacts, MarkRead, PostEvent, config, belief
  <2> QED BY <1>15, <2>1, SameStep
<1>18. ASSUME NEW d \in Devices, NEW value \in BOOLEAN, PutSynchronized(d, value) \/ PutState(d, value)
       PROVE  HashInv'
  <2>1. UNCHANGED <<job, running, pending, confhash, tampered, altered, rebooted, unmarked, alarm>>
    BY <1>18 DEF PutSynchronized, PutState, config
  <2> QED BY <1>15, <2>1, SameStep
<1>19. CASE ReadEvents \/ WriteEvents \/ MarkFails
  <2>1. UNCHANGED <<job, running, pending, confhash, tampered, altered, rebooted, unmarked, alarm>>
    BY <1>19 DEF ReadEvents, WriteEvents, MarkFails, config, belief, hist
  <2> QED BY <1>15, <2>1, SameStep
<1> QED BY <1>1, <1>2, <1>3, <1>4, <1>5, <1>6, <1>7, <1>8, <1>9, <1>10, <1>11, <1>12, <1>13, <1>14,
           <1>16, <1>17, <1>18, <1>19 DEF Next, Sync, Upgrade

AlarmInv == Base /\ CheckInv /\ HashInv

LEMMA AlarmInit == Init => AlarmInv
<1> SUFFICES ASSUME Init PROVE AlarmInv
  OBVIOUS
<1>1. Base /\ CheckInv
  BY BaseInit, MarkInit DEF MarkInv
<1>2. HashInv
  BY DEF Init, HashInv, Checking
<1> QED BY <1>1, <1>2 DEF AlarmInv

LEMMA AlarmStep == AlarmInv /\ [Next]_vars => AlarmInv'
<1>1. ASSUME AlarmInv, Next
      PROVE  AlarmInv'
  BY <1>1, BaseStep, CheckNext, HashNext DEF AlarmInv
<1>2. ASSUME AlarmInv, UNCHANGED vars
      PROVE  AlarmInv'
  <2>1. Base' /\ CheckInv'
    BY <1>2, BaseStep, MarkStep DEF AlarmInv, MarkInv
  <2>2. HashInv'
    BY <1>2 DEF AlarmInv, HashInv, Covered, Hashing, HashedBy, Checking, vars, config, belief, hist
  <2> QED BY <2>1, <2>2 DEF AlarmInv
<1> QED BY <1>1, <1>2

\* No sync says of a switch that it was altered outside of CNaaS when nobody did, and
\* no other job or timer has changed it since its hash was stored.
THEOREM AlarmsAreTrue == Spec => []AlarmIsTrue
<1>1. AlarmInv => AlarmIsTrue
  BY DEF AlarmInv, HashInv, AlarmIsTrue
<1> QED BY <1>1, AlarmInit, AlarmStep, PTL DEF Spec

(***************************************************************************)
(* What someone entered on a switch, and the hash does not cover, is not   *)
(* overwritten: the check finds it, or it was entered after the check.     *)
(***************************************************************************)
Foreign(d) == running[d].rev = Alien /\ confhash[d] # None /\ confhash[d].rev # Alien
Checked(x) == x # Idle /\ x.at \in {"lock", "render", "push"}
LostInv ==
  /\ lost = {}
  /\ \A j \in Jobs : (Checking(job[j]) /\ ~job[j].r.force) => \A d \in job[j].hosts \ (job[j].blank \cup job[j].late) :
       job[j].stored[d] # None /\ (Foreign(d) => job[j].stored[d].rev # Alien)
  /\ \A j \in Jobs : (Checked(job[j]) /\ ~job[j].r.force) => \A d \in job[j].hosts \ (job[j].blank \cup job[j].late) :
       ~Foreign(d)

LEMMA AgedChecked ==
  ASSUME NEW x, NEW y, NEW ds, NEW dl, Aged(x, y, ds, dl), Checked(y)
  PROVE  /\ Checked(x) /\ y.hosts = x.hosts /\ y.r = x.r /\ y.blank = x.blank
         /\ y.late = x.late \cup (dl \cap x.hosts)
BY DEF Aged, Kept, Checked

\* A job that ages, one that starts, one that passed the check, or one that goes on after it.
Passes(x, y) ==
  y.r = x.r /\ y.hosts = x.hosts /\ y.blank = x.blank /\ y.late = x.late

LEMMA LostKept ==
  ASSUME Base, LostInv, lost' = {}, NEW ds, NEW dl,
         \A d \in Devices : Foreign(d)' => Foreign(d) \/ d \in dl,
         \A i \in Jobs : Checking(job'[i]) => \/ Aged(job[i], job'[i], ds, dl)
                                              \/ dl = {} /\ \E r \in Asked : Starts(job'[i], r, "hash"),
         \A i \in Jobs : Checked(job'[i]) => \/ Aged(job[i], job'[i], ds, dl)
                                             \/ dl = {} /\ Checked(job[i]) /\ Passes(job[i], job'[i])
                                             \/ /\ dl = {} /\ Checking(job[i]) /\ Passes(job[i], job'[i])
                                                /\ \A d \in job[i].hosts : job[i].stored[d] # None => job[i].stored[d] = running[d]
  PROVE  LostInv'
<1>1. ASSUME NEW j \in Jobs, Checking(job'[j]), ~job'[j].r.force,
             NEW d \in job'[j].hosts \ (job'[j].blank \cup job'[j].late)
      PROVE  job'[j].stored[d] # None /\ (Foreign(d)' => job'[j].stored[d].rev # Alien)
  <2>1. CASE Aged(job[j], job'[j], ds, dl)
    <3>1. /\ Checking(job[j]) /\ job'[j].hosts = job[j].hosts /\ job'[j].stored = job[j].stored
          /\ job'[j].r = job[j].r /\ job'[j].blank = job[j].blank /\ job'[j].late = job[j].late \cup (dl \cap job[j].hosts)
      BY <1>1, <2>1, AgedChecks
    <3>2. d \in job[j].hosts \ (job[j].blank \cup job[j].late) /\ d \notin dl /\ d \in Devices
      BY <1>1, <3>1, RunsTyped DEF Checking, Running, Base
    <3> QED BY <1>1, <3>1, <3>2 DEF LostInv
  <2>2. CASE dl = {} /\ \E r \in Asked : Starts(job'[j], r, "hash")
    <3>1. PICK r \in Asked : Starts(job'[j], r, "hash")
      BY <2>2
    <3>2. d \in Devices /\ job'[j].stored[d] = StoredHash(r, d) /\ confhash[d] # None /\ ~r.force
      BY <1>1, <3>1, SelectedHosts DEF Starts
    <3>3. job'[j].stored[d] = confhash[d]
      BY <3>2 DEF StoredHash
    <3>4. Foreign(d)' => Foreign(d)
      BY <2>2, <3>2
    <3> QED BY <3>2, <3>3, <3>4 DEF Foreign
  <2> QED BY <1>1, <2>1, <2>2
<1>2. ASSUME NEW j \in Jobs, Checked(job'[j]), ~job'[j].r.force,
             NEW d \in job'[j].hosts \ (job'[j].blank \cup job'[j].late), Foreign(d)'
      PROVE  FALSE
  <2>1. CASE Aged(job[j], job'[j], ds, dl)
    <3>1. /\ Checked(job[j]) /\ job'[j].hosts = job[j].hosts /\ job'[j].r = job[j].r
          /\ job'[j].blank = job[j].blank /\ job'[j].late = job[j].late \cup (dl \cap job[j].hosts)
      BY <1>2, <2>1, AgedChecked
    <3>2. d \in job[j].hosts \ (job[j].blank \cup job[j].late) /\ d \notin dl /\ d \in Devices
      BY <1>2, <3>1, RunsTyped DEF Checked, Running, Base
    <3> QED BY <1>2, <3>1, <3>2 DEF LostInv
  <2>2. CASE dl = {} /\ Checked(job[j]) /\ Passes(job[j], job'[j])
    <3>1. d \in job[j].hosts \ (job[j].blank \cup job[j].late) /\ d \in Devices /\ ~job[j].r.force
      BY <1>2, <2>2, RunsTyped DEF Passes, Checked, Running, Base
    <3>2. Foreign(d)
      BY <1>2, <2>2, <3>1
    <3> QED BY <2>2, <3>1, <3>2 DEF LostInv
  <2>3. CASE /\ dl = {} /\ Checking(job[j]) /\ Passes(job[j], job'[j])
             /\ \A e \in job[j].hosts : job[j].stored[e] # None => job[j].stored[e] = running[e]
    <3>1. d \in job[j].hosts \ (job[j].blank \cup job[j].late) /\ d \in Devices /\ ~job[j].r.force
      BY <1>2, <2>3, RunsTyped DEF Passes, Checking, Running, Base
    <3>2. Foreign(d)
      BY <1>2, <2>3, <3>1
    <3>3. job[j].stored[d] # None /\ job[j].stored[d].rev # Alien
      BY <2>3, <3>1, <3>2 DEF LostInv
    <3>4. job[j].stored[d] = running[d]
      BY <2>3, <3>1, <3>3
    <3> QED BY <3>2, <3>3, <3>4 DEF Foreign
  <2> QED BY <1>2, <2>1, <2>2, <2>3
<1>3. (\A j \in Jobs : (Checking(job[j]) /\ ~job[j].r.force) => \A d \in job[j].hosts \ (job[j].blank \cup job[j].late) :
         job[j].stored[d] # None /\ (Foreign(d) => job[j].stored[d].rev # Alien))'
  BY <1>1 DEF Checking
<1>4. (\A j \in Jobs : (Checked(job[j]) /\ ~job[j].r.force) => \A d \in job[j].hosts \ (job[j].blank \cup job[j].late) :
         ~Foreign(d))'
  BY <1>2 DEF Checked
<1> QED BY <1>3, <1>4 DEF LostInv

\* One job takes a step that is not its check, its start, or one between check and push.
LEMMA LostOne ==
  ASSUME Base, LostInv, lost' = {}, NEW j \in Jobs, NEW ds, OthersAge(j, ds, {}),
         \A d \in Devices : Foreign(d)' => Foreign(d), ~Checking(job'[j]), ~Checked(job'[j])
  PROVE  LostInv'
BY LostKept DEF OthersAge

LEMMA LostAges ==
  ASSUME Base, LostInv, lost' = {}, NEW ds, NEW dl, \A i \in Jobs : Aged(job[i], job'[i], ds, dl),
         \A d \in Devices : Foreign(d)' => Foreign(d) \/ d \in dl
  PROVE  LostInv'
BY LostKept

LEMMA LostNext ==
  ASSUME Base, LostInv, Next
  PROVE  LostInv'
<1>0. lost = {}
  BY DEF LostInv
<1>1. ASSUME UNCHANGED <<running, confhash>>
      PROVE  \A d \in Devices : Foreign(d)' => Foreign(d)
  BY <1>1 DEF Foreign
<1>2. ASSUME NEW j \in Jobs, NEW r \in Requests, SyncStart(j, r) \/ ApplyStart(j, r) \/ UpgradeStart(j, r)
      PROVE  LostInv'
  <2>1. UNCHANGED <<running, confhash, lost>>
    BY <1>2 DEF SyncStart, ApplyStart, UpgradeStart, config, belief, hist
  <2>2. \E at \in {"hash", "apply"} \cup Steps : Take(j, r, at)
    <3>1. CASE SyncStart(j, r) \/ ApplyStart(j, r)
      BY <3>1 DEF SyncStart, ApplyStart
    <3>2. CASE UpgradeStart(j, r)
      <4> DEFINE k == CHOOSE k \in 1..4 : /\ Order[k] \in r.steps
                                          /\ \A l \in 1..(k - 1) : Order[l] \notin r.steps
      <4>1. k \in 1..4
        BY <3>2, FirstStep DEF UpgradeStart
      <4>2. Take(j, r, Order[k])
        BY <3>2 DEF UpgradeStart
      <4> HIDE DEF k
      <4> QED BY <4>1, <4>2 DEF Steps
    <3> QED BY <1>2, <3>1, <3>2
  <2>3. PICK at \in {"hash", "apply"} \cup Steps : Take(j, r, at)
    BY <2>2
  <2>4. at \in Places /\ r \in Asked
    BY AskedRequests DEF Places, Steps
  <2>5. OthersAge(j, {}, {}) /\ Starts(job'[j], r, at)
    BY <2>3, <2>4, StartEffect DEF Take, Base
  <2>6. /\ Checking(job'[j]) => Starts(job'[j], r, "hash")
        /\ ~Checked(job'[j])
    <3>1. at \notin {"lock", "render", "push"}
      BY PlaceNames
    <3> QED BY <2>5, <3>1 DEF Checking, Checked, Starts
  <2>7. \A i \in Jobs : Checking(job'[i]) => \/ Aged(job[i], job'[i], {}, {})
                                             \/ \E q \in Asked : Starts(job'[i], q, "hash")
    BY <2>4, <2>5, <2>6 DEF OthersAge
  <2>8. \A i \in Jobs : Checked(job'[i]) => Aged(job[i], job'[i], {}, {})
    BY <2>5, <2>6 DEF OthersAge
  <2> QED BY <1>0, <1>1, <2>1, <2>7, <2>8, LostKept
<1>3. ASSUME NEW j \in Jobs, RollbackWait(j) \/ ApplyDone(j)
      PROVE  LostInv'
  <2>1. UNCHANGED <<running, confhash, lost>> /\ End(j)
    BY <1>3 DEF RollbackWait, ApplyDone, config, belief, hist
  <2>2. OthersAge(j, {}, {}) /\ job'[j] = Idle
    BY <2>1, EndEffect DEF Base
  <2> QED BY <1>0, <1>1, <2>1, <2>2, LostOne DEF Checking, Checked
<1>4. ASSUME NEW j \in Jobs, SyncCheckHash(j)
      PROVE  LostInv'
  <2>1. UNCHANGED <<running, confhash, lost>> /\ Running(j) /\ job[j].at = "hash"
    BY <1>4 DEF SyncCheckHash, At, config
  <2>2. CASE End(j)
    <3>1. OthersAge(j, {}, {}) /\ job'[j] = Idle
      BY <2>2, EndEffect DEF Base
    <3> QED BY <1>0, <1>1, <2>1, <3>1, LostOne DEF Checking, Checked
  <2>3. CASE ~End(j)
    <3> DEFINE at == IF job[j].r.dry THEN "render" ELSE "lock"
    <3>1. /\ Go(j, at)
          /\ {d \in {e \in job[j].hosts : job[j].stored[e] # None} : job[j].stored[d] # running[d]} = {}
      BY <1>4, <2>3 DEF SyncCheckHash
    <3>2. at \in Places
      BY DEF Places
    <3> HIDE DEF at
    <3>3. OthersAge(j, {}, {}) /\ Moves(job[j], job'[j], at)
      BY <2>1, <3>1, <3>2, GoEffect DEF Base
    <3>4. Checking(job[j]) /\ Passes(job[j], job'[j]) /\ ~Checking(job'[j])
      BY <2>1, <3>3 DEF Checking, Running, Passes, Moves, at
    <3>5. \A d \in job[j].hosts : job[j].stored[d] # None => job[j].stored[d] = running[d]
      BY <3>1
    <3>6. \A i \in Jobs : Checking(job'[i]) => Aged(job[i], job'[i], {}, {})
      BY <3>3, <3>4 DEF OthersAge
    <3>7. \A i \in Jobs : Checked(job'[i]) => \/ Aged(job[i], job'[i], {}, {})
                                              \/ /\ Checking(job[i]) /\ Passes(job[i], job'[i])
                                                 /\ \A d \in job[i].hosts : job[i].stored[d] # None => job[i].stored[d] = running[d]
      BY <3>3, <3>4, <3>5 DEF OthersAge
    <3> QED BY <1>0, <1>1, <2>1, <3>6, <3>7, LostKept
  <2> QED BY <2>2, <2>3
<1>5. ASSUME NEW j \in Jobs, AcquireLock(j) \/ PopulateDeviceVars(j)
      PROVE  LostInv'
  <2>1. UNCHANGED <<running, confhash, lost>> /\ Running(j) /\ Checked(job[j])
    BY <1>5 DEF AcquireLock, PopulateDeviceVars, At, config, belief, hist, Checked, Running
  <2>2. OthersAge(j, {}, {}) /\ (job'[j] = Idle \/ (Passes(job[j], job'[j]) /\ job'[j].at \in {"render", "push"}))
    <3>1. CASE AcquireLock(j)
      <4>1. End(j) \/ Go(j, "render")
        BY <3>1 DEF AcquireLock
      <4> QED BY <2>1, <4>1, EndEffect, GoEffect DEF Base, Places, Moves, Passes
    <3>2. CASE PopulateDeviceVars(j)
      BY <3>2, RenderEffect DEF Base, Passes
    <3> QED BY <1>5, <3>1, <3>2
  <2>3. \A i \in Jobs : Checking(job'[i]) => Aged(job[i], job'[i], {}, {})
    BY <2>2 DEF OthersAge, Checking
  <2>4. \A i \in Jobs : Checked(job'[i]) => \/ Aged(job[i], job'[i], {}, {})
                                            \/ Checked(job[i]) /\ Passes(job[i], job'[i])
    BY <2>1, <2>2 DEF OthersAge, Checked
  <2> QED BY <1>0, <1>1, <2>1, <2>3, <2>4, LostKept
<1>6. ASSUME NEW j \in Jobs,
             CheckJobAbortStatus(j) \/ FirmwareDownload(j) \/ FirmwareActivate(j) \/ Abort(j)
      PROVE  LostInv'
  <2>1. UNCHANGED <<running, confhash, lost>>
    BY <1>6 DEF CheckJobAbortStatus, FirmwareDownload, FirmwareActivate, Abort, config, belief, hist
  <2>2. Running(j) /\ job[j].at \in Steps
    BY <1>6, KindAt, PlaceNames DEF CheckJobAbortStatus, FirmwareDownload, FirmwareActivate, Step, At, Abort, Base
  <2>3. OthersAge(j, {}, {}) /\ (job'[j] # Idle => job'[j].at \in Steps)
    <3>1. CASE CheckJobAbortStatus(j)
      BY <2>2, <3>1, CheckEffect DEF Base, Steps, Advances, Moves
    <3>2. CASE Abort(j)
      BY <2>2, <3>2, AbortEffect DEF Base, Moves
    <3>3. CASE FirmwareDownload(j) \/ FirmwareActivate(j)
      <4>1. NextStep(job, j) \/ End(j)
        BY <3>3 DEF FirmwareDownload, FirmwareActivate
      <4> QED BY <2>2, <4>1, NextStepEffect, EndEffect DEF Base, Steps, Advances
    <3> QED BY <1>6, <3>1, <3>2, <3>3
  <2>4. ~Checking(job'[j]) /\ ~Checked(job'[j])
    BY <2>3, PlaceNames DEF Checking, Checked
  <2> QED BY <1>0, <1>1, <2>1, <2>3, <2>4, LostOne
<1>7. ASSUME NEW j \in Jobs, PostFlightCheck(j)
      PROVE  LostInv'
  <2>1. UNCHANGED <<running, lost>>
    BY <1>7 DEF PostFlightCheck, config
  <2>2. job'[j] = Idle /\ \A e \in Devices : confhash'[e] = confhash[e] \/ confhash'[e] = None
    BY <1>7, PostFlightJobs
  <2>3. \E ds : OthersAge(j, ds, {})
    BY <1>7, PostFlightJobs
  <2>4. \A d \in Devices : Foreign(d)' => Foreign(d)
    BY <2>1, <2>2 DEF Foreign
  <2> QED BY <1>0, <2>1, <2>2, <2>3, <2>4, LostOne DEF Checking, Checked
<1>8. ASSUME NEW j \in Jobs, PushSyncDevice(j)
      PROVE  LostInv'
  <2>1. PICK failed, took, changed, kept :
          /\ Pushes(j, failed, took, changed, kept)
          /\ OthersAge(j, IF job[j].r.dry THEN {} ELSE changed \cup took, {})
    BY <1>8, PushEffect DEF Base
  <2>2. Running(j) /\ Checked(job[j]) /\ UNCHANGED confhash /\ job[j].hosts \subseteq Devices
    BY <1>8, RunsTyped DEF PushSyncDevice, At, Running, Checked, Base
  <2>3. lost' = {}
    <3>1. \A d \in lost' \ lost : /\ d \in job[j].hosts \ (job[j].blank \cup job[j].late) /\ ~job[j].r.force
                                  /\ running[d].rev = Alien /\ confhash[d] # None /\ confhash[d].rev # Alien
      BY <2>1 DEF Pushes
    <3>2. \A d \in lost' \ lost : FALSE
      BY <2>2, <3>1 DEF LostInv, Foreign
    <3> QED BY <1>0, <3>2
  <2>4. ASSUME NEW d \in Devices, Foreign(d)'
        PROVE  Foreign(d)
    <3>1. CASE d \in changed \cup took /\ ~job[j].r.dry
      <4>1. running'[d] = [rev |-> job[j].conf[d], form |-> running[d].form]
        BY <2>1, <3>1 DEF Pushes
      <4>2. running'[d].rev = job[j].conf[d]
        BY <4>1
      <4>3. d \in job[j].hosts
        BY <2>1, <3>1 DEF Pushes
      <4>4. job[j].conf[d] \in Nat
        BY <2>2, <4>3, Numbers DEF Base
      <4> QED BY <2>4, <4>2, <4>4, ContentAssumption DEF Foreign
    <3>2. CASE ~(d \in changed \cup took /\ ~job[j].r.dry)
      <4>1. running'[d] = running[d]
        BY <2>1, <3>2 DEF Pushes
      <4> QED BY <2>2, <2>4, <4>1 DEF Foreign
    <3> QED BY <3>1, <3>2
  <2>5. ~Checking(job'[j]) /\ ~Checked(job'[j])
    BY <2>1 DEF Pushes, Checking, Checked
  <2> QED BY <2>1, <2>3, <2>4, <2>5, LostOne
<1>9. ASSUME NEW j \in Jobs, PostSyncUpdateConfighash(j) \/ ConfirmDevices(j)
      PROVE  LostInv'
  <2>1. UNCHANGED <<running, lost>>
    BY <1>9 DEF PostSyncUpdateConfighash, ConfirmDevices, config
  <2>2. PICK targets, got : /\ Hashes(j, targets, got) /\ OthersAge(j, got, {}) /\ job'[j].at = "flag"
    BY <1>9, HashesEffect, ConfirmEffect DEF Base, Moves, Confirms
  <2>3. \A d \in Devices : Foreign(d)' => Foreign(d)
    BY <2>1, <2>2 DEF Foreign, Hashes
  <2> QED BY <1>0, <2>1, <2>2, <2>3, LostOne DEF Checking, Checked
<1>10. ASSUME NEW j \in Jobs, SetFlags(j)
       PROVE  LostInv'
  <2>1. UNCHANGED <<running, confhash, lost>>
    BY <1>10 DEF SetFlags, config
  <2>2. OthersAge(j, {}, {}) /\ ~Checking(job'[j]) /\ ~Checked(job'[j])
    BY <1>10, FlagsEffect DEF Base, Checking, Checked, Flags
  <2> QED BY <1>0, <1>1, <2>1, <2>2, LostOne
<1>11. ASSUME NEW j \in Jobs, CommitFlags(j)
       PROVE  LostInv'
  <2>1. UNCHANGED <<running, lost>> /\ Running(j)
    BY <1>11 DEF CommitFlags, At, config
  <2>2. /\ OthersAge(j, {}, {})
        /\ \/ job'[j] = Idle
           \/ Starts(job'[j], PushRequest(job[j].r), "hash")
           \/ \E at \in {"rollback", "confirm"} : Moves(job[j], job'[j], at)
        /\ \A d \in Devices : confhash'[d] = confhash[d] \/ confhash'[d] = None
    BY <1>11, CommitEffect DEF Base
  <2>3. PushRequest(job[j].r) \in Asked
    BY <2>1, RunsTyped, PushAsked DEF Base
  <2>4. \A i \in Jobs : Checking(job'[i]) => \/ Aged(job[i], job'[i], {}, {})
                                             \/ \E q \in Asked : Starts(job'[i], q, "hash")
    BY <2>2, <2>3 DEF OthersAge, Checking, Moves
  <2>5. \A i \in Jobs : Checked(job'[i]) => Aged(job[i], job'[i], {}, {})
    BY <2>2 DEF OthersAge, Checked, Starts, Moves
  <2>6. \A d \in Devices : Foreign(d)' => Foreign(d)
    BY <2>1, <2>2 DEF Foreign
  <2> QED BY <1>0, <2>1, <2>4, <2>5, <2>6, LostKept
<1>12. ASSUME NEW j \in Jobs, PushStaticConfig(j)
       PROVE  LostInv'
  <2>1. UNCHANGED <<confhash, lost>>
    BY <1>12 DEF PushStaticConfig, belief
  <2>2. PICK done \in SUBSET job[j].hosts :
          /\ OthersAge(j, done, {}) /\ Moves(job[j], job'[j], "applied")
          /\ \A d \in Devices : /\ d \in done => running'[d].rev = Static
                                /\ d \notin done => running'[d] = running[d]
    BY <1>12, ApplyEffect DEF Base
  <2>3. \A d \in Devices : Foreign(d)' => Foreign(d)
    BY <2>1, <2>2, ContentAssumption DEF Foreign
  <2>4. ~Checking(job'[j]) /\ ~Checked(job'[j])
    BY <2>2 DEF Moves, Checking, Checked
  <2> QED BY <1>0, <2>1, <2>2, <2>3, <2>4, LostOne
<1>13. ASSUME NEW j \in Jobs, DeviceReboot(j)
       PROVE  LostInv'
  <2>1. UNCHANGED <<confhash, lost>>
    BY <1>13 DEF DeviceReboot, belief
  <2>2. /\ \A d \in Devices : running'[d].rev = running[d].rev
        /\ job'[j] = Idle \/ Advances(job[j], job'[j])
    BY <1>13, RebootJobs
  <2>3. \E ds : OthersAge(j, ds, {})
    BY <1>13, RebootJobs
  <2>4. \A d \in Devices : Foreign(d)' => Foreign(d)
    BY <2>1, <2>2 DEF Foreign
  <2>5. ~Checking(job'[j]) /\ ~Checked(job'[j])
    BY <2>2, PlaceNames DEF Advances, Checking, Checked, Steps
  <2> QED BY <1>0, <2>1, <2>3, <2>4, <2>5, LostOne
<1>14. ASSUME NEW d \in Devices, Revert(d) \/ Tamper(d)
       PROVE  LostInv'
  <2>1. UNCHANGED <<confhash, lost>> /\ job' = Altered(d) /\ \E new : running' = [running EXCEPT ![d] = new]
    BY <1>14 DEF Revert, Tamper, belief
  <2>2. \A e \in Devices : e # d => running'[e] = running[e]
    BY <2>1 DEF Base, Typed, RowsTyped
  <2>3. \A e \in Devices : Foreign(e)' => Foreign(e) \/ e \in {d}
    BY <2>1, <2>2 DEF Foreign
  <2> QED BY <1>0, <2>1, <2>3, AlteredStep, LostAges
<1>15. ASSUME UNCHANGED <<running, confhash, lost>>, NEW ds, \A i \in Jobs : Aged(job[i], job'[i], ds, {})
       PROVE  LostInv'
  BY <1>0, <1>1, <1>15, LostAges
<1>16. CASE MarkStore
  <2>1. job' = Old({marker.dev}, None) /\ UNCHANGED <<running, confhash, lost>>
    BY <1>16 DEF MarkStore
  <2> QED BY <1>15, <2>1, MarkedStep
<1>17. ASSUME NEW d \in Devices, UpdateFacts(d) \/ MarkRead(d) \/ PostEvent(d)
       PROVE  LostInv'
  <2>1. UNCHANGED <<job, running, confhash, lost>>
    BY <1>17 DEF UpdateFacts, MarkRead, PostEvent, config, belief
  <2> QED BY <1>15, <2>1, SameStep
<1>18. ASSUME NEW d \in Devices, NEW value \in BOOLEAN, PutSynchronized(d, value) \/ PutState(d, value)
       PROVE  LostInv'
  <2>1. UNCHANGED <<job, running, confhash, lost>>
    BY <1>18 DEF PutSynchronized, PutState, config
  <2> QED BY <1>15, <2>1, SameStep
<1>19. CASE ReadEvents \/ WriteEvents \/ MarkFails
  <2>1. UNCHANGED <<job, running, confhash, lost>>
    BY <1>19 DEF ReadEvents, WriteEvents, MarkFails, config, belief, hist
  <2> QED BY <1>15, <2>1, SameStep
<1> QED BY <1>2, <1>3, <1>4, <1>5, <1>6, <1>7, <1>8, <1>9, <1>10, <1>11, <1>12, <1>13, <1>14,
           <1>16, <1>17, <1>18, <1>19 DEF Next, Sync, Upgrade

KeepInv == Base /\ LostInv

LEMMA KeepInit == Init => KeepInv
<1> SUFFICES ASSUME Init PROVE KeepInv
  OBVIOUS
<1>1. LostInv
  BY DEF Init, LostInv, Checking, Checked
<1> QED BY <1>1, BaseInit DEF KeepInv

LEMMA KeepStep == KeepInv /\ [Next]_vars => KeepInv'
<1>1. ASSUME KeepInv, Next
      PROVE  KeepInv'
  BY <1>1, BaseStep, LostNext DEF KeepInv
<1>2. ASSUME KeepInv, UNCHANGED vars
      PROVE  KeepInv'
  <2>1. Base'
    BY <1>2, BaseStep DEF KeepInv
  <2>2. LostInv'
    BY <1>2 DEF KeepInv, LostInv, Foreign, Checking, Checked, vars, config, belief, hist
  <2> QED BY <2>1, <2>2 DEF KeepInv
<1> QED BY <1>1, <1>2

\* No sync overwrites, without force, what someone entered on a switch before the check
\* of the hash, when there was a hash to check with that was not taken of it.
THEOREM NothingIsLost == Spec => []NothingLost
<1>1. KeepInv => NothingLost
  BY DEF KeepInv, LostInv, NothingLost
<1> QED BY <1>1, KeepInit, KeepStep, PTL DEF Spec

(***************************************************************************)
(* Events and flag: of a switch that is not known to be mixed up, at most  *)
(* one job or request is about to change the flag, and that one knows the  *)
(* flag and fits it to the events; if none is, the two match.              *)
(***************************************************************************)
Acts(x, d) == x # Idle /\ x.at = "commit" /\ d \in x.yes \cup x.no
Marks(d) == marker # Idle /\ marker.dev = d
EventsAt(d) ==
  /\ \A j \in Jobs : Acts(job[j], d) =>
       /\ ~Marks(d) /\ \A i \in Jobs \ {j} : ~Acts(job[i], d)
       /\ job[j].snap[d] = synced[d] /\ (d \in job[j].yes <=> events[d] = {})
  /\ (Marks(d) /\ marker.at = "store") => events[d] # {}
  /\ (~Marks(d) /\ \A j \in Jobs : ~Acts(job[j], d)) => (synced[d] <=> events[d] = {})
EventInv == \A d \in Devices \ mixed : EventsAt(d)

\* What a step may do to a switch: nothing, end what was being done to it, or mark it.
SameActs(x, y, d) ==
  /\ Acts(y, d) <=> Acts(x, d)
  /\ Acts(x, d) => y.snap = x.snap /\ y.yes = x.yes
Same(d) ==
  /\ synced'[d] = synced[d] /\ events'[d] = events[d]
  /\ Marks(d)' <=> Marks(d)
  /\ (Marks(d)' /\ marker'.at = "store") => marker.at = "store"
  /\ \A i \in Jobs : SameActs(job[i], job'[i], d)
Settled(d) == ~Marks(d)' /\ (\A i \in Jobs : ~Acts(job'[i], d)) /\ (synced'[d] <=> events'[d] = {})
Marked(d) == Marks(d)' /\ (\A i \in Jobs : ~Acts(job'[i], d)) /\ (marker'.at = "store" => events'[d] # {})

LEMMA SameEvents ==
  ASSUME NEW d, EventsAt(d), Same(d)
  PROVE  EventsAt(d)'
<1>1. ASSUME NEW j \in Jobs, Acts(job'[j], d)
      PROVE  /\ ~Marks(d)' /\ \A i \in Jobs \ {j} : ~Acts(job'[i], d)
             /\ job'[j].snap[d] = synced'[d] /\ (d \in job'[j].yes <=> events'[d] = {})
  <2>1. Acts(job[j], d) /\ job'[j].snap = job[j].snap /\ job'[j].yes = job[j].yes
    BY <1>1 DEF Same, SameActs
  <2>2. /\ ~Marks(d) /\ \A i \in Jobs \ {j} : ~Acts(job[i], d)
        /\ job[j].snap[d] = synced[d] /\ (d \in job[j].yes <=> events[d] = {})
    BY <2>1 DEF EventsAt
  <2> QED BY <2>1, <2>2 DEF Same, SameActs
<1>2. (Marks(d)' /\ marker'.at = "store") => events'[d] # {}
  BY DEF EventsAt, Same
<1>3. (~Marks(d)' /\ \A j \in Jobs : ~Acts(job'[j], d)) => (synced'[d] <=> events'[d] = {})
  BY DEF EventsAt, Same, SameActs
<1> QED BY <1>1, <1>2, <1>3 DEF EventsAt, Acts

LEMMA EventsKept ==
  ASSUME EventInv, \A d \in Devices \ mixed' : (d \notin mixed /\ Same(d)) \/ Settled(d) \/ Marked(d)
  PROVE  EventInv'
<1> SUFFICES ASSUME NEW d \in Devices \ mixed'
             PROVE  EventsAt(d)'
  BY DEF EventInv, EventsAt, Marks, Acts
<1>1. CASE d \notin mixed /\ Same(d)
  BY <1>1, SameEvents DEF EventInv
<1>2. CASE Settled(d)
  BY <1>2 DEF Settled, EventsAt, Acts
<1>3. CASE Marked(d)
  BY <1>3 DEF Marked, EventsAt, Acts
<1> QED BY <1>1, <1>2, <1>3

LEMMA AgedActs ==
  ASSUME NEW x, NEW y, NEW ds, NEW dl, Aged(x, y, ds, dl), NEW d
  PROVE  SameActs(x, y, d)
BY DEF Aged, Kept, SameActs, Acts

LEMMA BetweenActs ==
  ASSUME Base, NEW j, NEW ds, NEW d \in ds, d \notin Between(ds, j)
  PROVE  ~Marks(d) /\ \A i \in Jobs \ {j} : ~Acts(job[i], d)
<1>1. ASSUME NEW i \in Jobs \ {j}, Acts(job[i], d)
      PROVE  FALSE
  <2>1. At(i, "commit") /\ d \in job[i].hosts
    BY <1>1, RunsTyped DEF Acts, At, Running, Base
  <2> QED BY <2>1 DEF Between
<1> QED BY <1>1 DEF Between, Marks

\* One job takes a step that is neither to nor from where it stores the flags.
AwayFrom(x) == x # Idle => x.at # "commit"
LEMMA OneAway ==
  ASSUME NEW j \in Jobs, NEW ds, NEW dl, OthersAge(j, ds, dl), AwayFrom(job[j]), AwayFrom(job'[j]), NEW d
  PROVE  \A i \in Jobs : SameActs(job[i], job'[i], d)
<1>1. SameActs(job[j], job'[j], d)
  BY DEF AwayFrom, SameActs, Acts
<1> QED BY <1>1, AgedActs DEF OthersAge

LEMMA EventsOne ==
  ASSUME EventInv, NEW j \in Jobs, NEW ds, NEW dl, OthersAge(j, ds, dl),
         AwayFrom(job[j]), AwayFrom(job'[j]), UNCHANGED marker, mixed \subseteq mixed',
         \A d \in Devices \ mixed' : synced'[d] = synced[d] /\ events'[d] = events[d]
  PROVE  EventInv'
<1>1. ASSUME NEW d \in Devices \ mixed'
      PROVE  Same(d) /\ d \notin mixed
  BY <1>1, OneAway DEF Same, Marks
<1> QED BY <1>1, EventsKept

LEMMA EventsAges ==
  ASSUME EventInv, NEW ds, NEW dl, \A i \in Jobs : Aged(job[i], job'[i], ds, dl),
         UNCHANGED <<marker, synced, events>>, mixed \subseteq mixed'
  PROVE  EventInv'
<1>1. ASSUME NEW d \in Devices \ mixed'
      PROVE  Same(d) /\ d \notin mixed
  BY <1>1, AgedActs DEF Same, Marks
<1> QED BY <1>1, EventsKept

\* The flag of one switch is taken away and an event added, by a job that then ends.
LEMMA EventsFlagged ==
  ASSUME Base, EventInv, NEW j \in Jobs, NEW ds, NEW dl, OthersAge(j, ds, dl),
         AwayFrom(job[j]), job'[j] = Idle, UNCHANGED marker, NEW d \in Devices, Mix({d}, j),
         \A e \in Devices : e # d => synced'[e] = synced[e] /\ events'[e] = events[e],
         ~synced'[d], events'[d] # {}
  PROVE  EventInv'
<1>1. \A e : \A i \in Jobs : SameActs(job[i], job'[i], e)
  BY OneAway DEF AwayFrom
<1>2. ASSUME NEW e \in Devices \ mixed'
      PROVE  (e \notin mixed /\ Same(e)) \/ Settled(e)
  <2>1. CASE e # d
    BY <1>1, <1>2, <2>1 DEF Mix, Same, Marks
  <2>2. CASE e = d
    <3>1. d \notin Between({d}, j)
      BY <1>2, <2>2 DEF Mix
    <3>2. ~Marks(d) /\ \A i \in Jobs \ {j} : ~Acts(job[i], d)
      BY <3>1, BetweenActs
    <3>3. \A i \in Jobs : ~Acts(job'[i], d)
      BY <1>1, <3>2 DEF SameActs, AwayFrom, Acts
    <3> QED BY <2>2, <3>2, <3>3 DEF Settled, Marks
  <2> QED BY <2>1, <2>2
<1> QED BY <1>2, EventsKept

\* A job stores the flags: those it acts on match their events now.
LEMMA EventsCommitted ==
  ASSUME Base, EventInv, NEW j \in Jobs, CommitFlags(j)
  PROVE  EventInv'
<1>1. Running(j) /\ job[j].at = "commit" /\ UNCHANGED <<events, marker, mixed>>
  BY DEF CommitFlags, At
<1>2. /\ OthersAge(j, {}, {}) /\ AwayFrom(job'[j])
      /\ \A d \in Devices : synced'[d] = Flag(j, d)
  <2>1. /\ OthersAge(j, {}, {}) /\ \A d \in Devices : synced'[d] = Flag(j, d)
        /\ \/ job'[j] = Idle
           \/ Starts(job'[j], PushRequest(job[j].r), "hash")
           \/ \E at \in {"rollback", "confirm"} : Moves(job[j], job'[j], at)
    BY CommitEffect DEF Base
  <2> QED BY <2>1 DEF AwayFrom, Starts, Moves
<1>3. job[j].yes \cap job[j].no = {} /\ synced \in [Devices -> BOOLEAN]
  BY <1>1, RunsTyped DEF Base, Typed, RowsTyped
<1>4. ASSUME NEW d \in Devices \ mixed'
      PROVE  (d \notin mixed /\ Same(d)) \/ Settled(d)
  <2>1. EventsAt(d) /\ d \notin mixed
    BY <1>1, <1>4 DEF EventInv
  <2>2. \A i \in Jobs \ {j} : SameActs(job[i], job'[i], d)
    BY <1>2, AgedActs DEF OthersAge
  <2>3. ~Acts(job'[j], d)
    BY <1>2 DEF AwayFrom, Acts
  <2>4. CASE Acts(job[j], d)
    <3>1. /\ ~Marks(d) /\ \A i \in Jobs \ {j} : ~Acts(job[i], d)
          /\ job[j].snap[d] = synced[d] /\ (d \in job[j].yes <=> events[d] = {})
      BY <2>1, <2>4 DEF EventsAt
    <3>2. synced'[d] <=> d \in job[j].yes
      <4>1. d \in job[j].yes \cup job[j].no
        BY <2>4 DEF Acts
      <4>2. CASE d \in job[j].yes
        BY <1>2, <3>1, <4>2, <1>4, <1>3 DEF Flag
      <4>3. CASE d \in job[j].no
        BY <1>2, <3>1, <4>3, <1>4, <1>3 DEF Flag
      <4> QED BY <4>1, <4>2, <4>3
    <3>3. \A i \in Jobs : ~Acts(job'[i], d)
      BY <2>2, <2>3, <3>1 DEF SameActs
    <3> QED BY <1>1, <3>1, <3>2, <3>3 DEF Settled, Marks
  <2>5. CASE ~Acts(job[j], d)
    <3>1. synced'[d] = synced[d]
      BY <1>1, <1>2, <1>4, <2>5 DEF Flag, Acts, Running
    <3>2. \A i \in Jobs : SameActs(job[i], job'[i], d)
      BY <2>2, <2>3, <2>5 DEF SameActs
    <3> QED BY <1>1, <2>1, <3>1, <3>2 DEF Same, Marks
  <2> QED BY <2>4, <2>5
<1> QED BY <1>4, EventsKept

\* A job changes the events first: no other is about to store the flags of its switches.
LEMMA EventsTold ==
  ASSUME Base, EventInv, NEW j \in Jobs, SetFlags(j)
  PROVE  EventInv'
<1> DEFINE ds == job[j].yes \cup Told(j)
<1>1. Running(j) /\ job[j].at = "flag" /\ UNCHANGED <<synced, marker>> /\ Mix(ds, j)
  BY DEF SetFlags, At
<1>2. /\ OthersAge(j, {}, {}) /\ Flags(job[j], job'[j], Told(j)) /\ Told(j) \subseteq job[j].no
      /\ \A d \in Devices : /\ d \in job[j].yes => events'[d] = {}
                            /\ d \in Told(j) => events'[d] # {}
                            /\ d \notin ds => events'[d] = events[d]
  BY FlagsEffect DEF Base
<1>3. job[j].yes \cap job[j].no = {} /\ ds \subseteq job[j].hosts /\ job[j].hosts \subseteq Devices
  BY <1>1, <1>2, RunsTyped DEF Base
<1>4. \A e : ~Acts(job[j], e) /\ (Acts(job'[j], e) <=> e \in ds)
  BY <1>1, <1>2 DEF Acts, Flags
<1>5. \A e : \A i \in Jobs \ {j} : SameActs(job[i], job'[i], e)
  BY <1>2, AgedActs DEF OthersAge
<1> HIDE DEF ds
<1>6. ASSUME NEW d \in Devices \ mixed'
      PROVE  EventsAt(d)'
  <2>1. CASE d \notin ds
    <3>1. d \notin mixed
      BY <1>1, <1>6, <2>1 DEF Mix
    <3>2. \A i \in Jobs : SameActs(job[i], job'[i], d)
      BY <1>4, <1>5, <2>1 DEF SameActs
    <3>3. Same(d)
      BY <1>1, <1>2, <2>1, <3>2 DEF Same, Marks
    <3> QED BY <3>1, <3>3, SameEvents DEF EventInv
  <2>2. CASE d \in ds
    <3>1. d \notin Between(ds, j)
      BY <1>1, <1>6 DEF Mix
    <3>2. ~Marks(d) /\ \A i \in Jobs \ {j} : ~Acts(job[i], d)
      BY <2>2, <3>1, BetweenActs
    <3>3. ~Marks(d)' /\ \A i \in Jobs \ {j} : ~Acts(job'[i], d)
      BY <1>1, <1>5, <3>2 DEF SameActs, Marks
    <3>4. Acts(job'[j], d)
      BY <1>4, <2>2
    <3>5. job'[j].snap[d] = synced'[d]
      BY <1>1, <1>2, <1>3, <2>2 DEF Flags
    <3>6. d \in job'[j].yes <=> events'[d] = {}
      BY <1>2, <1>3, <2>2 DEF Flags, ds
    <3> QED BY <3>3, <3>4, <3>5, <3>6 DEF EventsAt, Acts, Marks
  <2> QED BY <2>1, <2>2
<1> QED BY <1>6 DEF EventInv, EventsAt, Acts, Marks

\* A request that changes data: it reads the row, and the list of events, and writes them.
LEMMA EventsMarked ==
  ASSUME Base, EventInv, MarkStore \/ MarkFails \/ ReadEvents \/ WriteEvents
  PROVE  EventInv'
<1>1. marker # Idle /\ marker.dev \in Devices /\ marker.snap \in BOOLEAN /\ marker.at \in {"row", "list", "store"}
  BY DEF MarkStore, MarkFails, ReadEvents, WriteEvents, Base, Typed
<1> DEFINE d == marker.dev
<1>2. synced \in [Devices -> BOOLEAN] /\ events \in [Devices -> SUBSET Causes]
  BY DEF Base, Typed, RowsTyped
<1>3. \A e : Marks(e) <=> e = d
  BY <1>1 DEF Marks
<1>4. CASE MarkStore
  <2>1. /\ synced' = [synced EXCEPT ![d] = @ /\ ~marker.snap] /\ UNCHANGED events /\ marker' = Idle /\ marker.at = "store"
        /\ mixed' = mixed \cup {e \in {d} : synced[e] /\ ~marker.snap}
    BY <1>4 DEF MarkStore
  <2>2. \A e : \A i \in Jobs : SameActs(job[i], job'[i], e)
    BY <1>4, MarkedStep, AgedActs DEF MarkStore
  <2>3. \A e : ~Marks(e)'
    BY <2>1 DEF Marks
  <2>4. ASSUME NEW e \in Devices \ mixed'
        PROVE  (e \notin mixed /\ Same(e)) \/ Settled(e)
    <3>1. CASE e # d
      <4>1. synced'[e] = synced[e]
        BY <1>2, <2>1, <2>4, <3>1
      <4> QED BY <1>3, <2>1, <2>2, <2>3, <2>4, <3>1, <4>1 DEF Same
    <3>2. CASE e = d
      <4>1. EventsAt(d)
        BY <2>1, <2>4, <3>2 DEF EventInv
      <4>2. events[d] # {} /\ \A i \in Jobs : ~Acts(job[i], d)
        BY <1>3, <2>1, <4>1 DEF EventsAt
      <4>3. ~synced'[d]
        <5>1. ~synced[d] \/ marker.snap
          BY <2>1, <2>4, <3>2
        <5>2. synced'[d] = (synced[d] /\ ~marker.snap)
          BY <1>1, <1>2, <2>1
        <5> QED BY <5>1, <5>2
      <4> QED BY <2>1, <2>2, <2>3, <3>2, <4>2, <4>3 DEF Settled, SameActs
    <3> QED BY <3>1, <3>2
  <2> QED BY <2>4, EventsKept
<1>5. CASE MarkFails
  <2>1. UNCHANGED <<synced, events, job>> /\ marker' = Idle /\ mixed' = mixed \cup {d}
    BY <1>5 DEF MarkFails, belief
  <2>2. \A e : \A i \in Jobs : SameActs(job[i], job'[i], e)
    BY <2>1 DEF SameActs
  <2>3. \A e \in Devices \ mixed' : e \notin mixed /\ Same(e)
    BY <1>3, <2>1, <2>2 DEF Same, Marks
  <2> QED BY <2>3, EventsKept
<1>6. CASE ReadEvents
  <2>1. /\ UNCHANGED <<synced, events, job, mixed>> /\ marker.at = "row"
        /\ marker' = [marker EXCEPT !.at = "list", !.list = events[marker.dev]]
    BY <1>6 DEF ReadEvents, belief, hist
  <2>2. marker' # Idle /\ marker'.dev = d /\ marker'.at = "list"
    BY <1>1, <2>1 DEF Idle, Base, Typed
  <2>3. \A e : \A i \in Jobs : SameActs(job[i], job'[i], e)
    BY <2>1 DEF SameActs
  <2>4. \A e \in Devices \ mixed' : e \notin mixed /\ Same(e)
    BY <1>3, <2>1, <2>2, <2>3 DEF Same, Marks
  <2> QED BY <2>4, EventsKept
<1>7. CASE WriteEvents
  <2>1. /\ UNCHANGED <<synced, job, mixed>> /\ marker.at = "list"
        /\ events' = [events EXCEPT ![d] = marker.list \cup {"marked"}]
        /\ marker' = [marker EXCEPT !.at = "store"]
    BY <1>7 DEF WriteEvents, hist
  <2>2. marker' # Idle /\ marker'.dev = d
    BY <1>1, <2>1 DEF Idle, Base, Typed
  <2>3. \A e : \A i \in Jobs : SameActs(job[i], job'[i], e)
    BY <2>1 DEF SameActs
  <2>4. ASSUME NEW e \in Devices \ mixed'
        PROVE  (e \notin mixed /\ Same(e)) \/ Marked(e)
    <3>1. CASE e # d
      <4>1. events'[e] = events[e]
        BY <1>2, <2>1, <2>4, <3>1
      <4> QED BY <1>3, <2>1, <2>2, <2>3, <2>4, <3>1, <4>1 DEF Same, Marks
    <3>2. CASE e = d
      <4>1. EventsAt(d) /\ Marks(d)
        BY <1>3, <2>1, <2>4, <3>2 DEF EventInv
      <4>2. \A i \in Jobs : ~Acts(job[i], d)
        BY <4>1 DEF EventsAt
      <4>3. events'[d] # {}
        BY <1>1, <1>2, <2>1
      <4> QED BY <2>1, <2>2, <3>2, <4>2, <4>3 DEF Marked, Marks
    <3> QED BY <3>1, <3>2
  <2> QED BY <2>4, EventsKept
<1> QED BY <1>4, <1>5, <1>6, <1>7

\* Requests that change a flag or the events at once.
LEMMA EventsAsked ==
  ASSUME Base, EventInv, NEW d \in Devices, UNCHANGED <<job, marker>>,
         \A e \in Devices : e # d => synced'[e] = synced[e] /\ events'[e] = events[e],
         mixed \ {d} \subseteq mixed',
         \/ UNCHANGED <<synced, events, mixed>>
         \/ d \in mixed'
         \/ d \notin Between({d}, None) /\ (synced'[d] <=> events'[d] = {})
  PROVE  EventInv'
<1>1. \A e : \A i \in Jobs : SameActs(job[i], job'[i], e)
  BY DEF SameActs
<1>2. ASSUME NEW e \in Devices \ mixed'
      PROVE  (e \notin mixed /\ Same(e)) \/ Settled(e)
  <2>1. CASE e # d
    BY <1>1, <1>2, <2>1 DEF Same, Marks
  <2>2. CASE e = d /\ UNCHANGED <<synced, events, mixed>>
    BY <1>1, <1>2, <2>2 DEF Same, Marks
  <2>3. CASE e = d /\ d \notin Between({d}, None) /\ (synced'[d] <=> events'[d] = {})
    <3>1. ~Marks(d) /\ \A i \in Jobs : ~Acts(job[i], d)
      BY <2>3, BetweenActs, NoneAssumption
    <3> QED BY <2>3, <3>1 DEF Settled, Marks
  <2> QED BY <1>2, <2>1, <2>2, <2>3
<1> QED BY <1>2, EventsKept

LEMMA EventNext ==
  ASSUME Base, EventInv, Next
  PROVE  EventInv'
<1>1. ASSUME NEW j \in Jobs, UNCHANGED <<synced, events, marker, mixed>>, AwayFrom(job[j]), AwayFrom(job'[j]),
             \E ds, dl : OthersAge(j, ds, dl)
      PROVE  EventInv'
  BY <1>1, EventsOne
<1>2. ASSUME NEW j \in Jobs, NEW r \in Requests, SyncStart(j, r) \/ ApplyStart(j, r) \/ UpgradeStart(j, r)
      PROVE  EventInv'
  <2>1. UNCHANGED <<synced, events, marker, mixed>> /\ ~Running(j)
    BY <1>2 DEF SyncStart, ApplyStart, UpgradeStart, Take, belief, hist
  <2>2. CalmStep({}, {})
    BY <1>2, StartJobs
  <2>3. AwayFrom(job'[j])
    <3>1. ASSUME job'[j] # Idle, job'[j].at = "commit"
          PROVE  FALSE
      <4>1. Aged(job[j], job'[j], {}, {})
        BY <2>2, <3>1, CalmAt DEF CalmStep, Working
      <4> QED BY <2>1, <3>1, <4>1 DEF Aged, Running
    <3> QED BY <3>1 DEF AwayFrom
  <2> QED BY <1>1, <1>2, <2>1, <2>3, OneMoves DEF AwayFrom, Running
<1>3. ASSUME NEW j \in Jobs, SyncCheckHash(j)
      PROVE  EventInv'
  <2>1. Running(j) /\ job[j].at = "hash" /\ UNCHANGED <<events, marker>>
    BY <1>3 DEF SyncCheckHash, At
  <2>2. AwayFrom(job[j]) /\ AwayFrom(job'[j])
    BY <1>3, <2>1, CheckJobs DEF AwayFrom, Moves
  <2>3. \/ UNCHANGED <<synced, mixed>>
        \/ \E bad : synced' = [d \in Devices |-> synced[d] /\ d \notin bad] /\ mixed' = mixed \cup bad
    BY <1>3 DEF SyncCheckHash
  <2>4. CASE UNCHANGED <<synced, mixed>>
    BY <1>1, <1>3, <2>1, <2>2, <2>4, OneMoves DEF Sync
  <2>5. CASE \E bad : synced' = [d \in Devices |-> synced[d] /\ d \notin bad] /\ mixed' = mixed \cup bad
    <3>1. PICK bad : synced' = [d \in Devices |-> synced[d] /\ d \notin bad] /\ mixed' = mixed \cup bad
      BY <2>5
    <3>2. \A d \in Devices \ mixed' : synced'[d] = synced[d]
      BY <3>1 DEF Base, Typed, RowsTyped
    <3>3. \E ds, dl : OthersAge(j, ds, dl)
      BY <1>3, OneMoves DEF Sync
    <3> QED BY <2>1, <2>2, <3>1, <3>2, <3>3, EventsOne
  <2> QED BY <2>3, <2>4, <2>5
<1>4. ASSUME NEW j \in Jobs, AcquireLock(j) \/ RollbackWait(j)
      PROVE  EventInv'
  <2>1. Running(j) /\ job[j].at \in {"lock", "rollback"} /\ UNCHANGED <<synced, events, marker, mixed>>
    BY <1>4 DEF AcquireLock, RollbackWait, At, belief, hist
  <2>2. AwayFrom(job[j]) /\ AwayFrom(job'[j])
    BY <1>4, <2>1, CheckJobs DEF AwayFrom, Moves
  <2> QED BY <1>1, <1>4, <2>1, <2>2, OneMoves DEF Sync
<1>5. ASSUME NEW j \in Jobs, PopulateDeviceVars(j)
      PROVE  EventInv'
  <2>1. Running(j) /\ job[j].at = "render" /\ UNCHANGED <<synced, events, marker, mixed>> /\ job'[j].at = "push"
    BY <1>5, RenderEffect DEF PopulateDeviceVars, At, belief, hist, Base
  <2> QED BY <1>1, <1>5, <2>1, OneMoves DEF Sync, AwayFrom
<1>6. ASSUME NEW j \in Jobs, PushSyncDevice(j)
      PROVE  EventInv'
  <2>1. PICK failed, took, changed, kept :
          /\ Pushes(j, failed, took, changed, kept)
          /\ OthersAge(j, IF job[j].r.dry THEN {} ELSE changed \cup took, {})
    BY <1>6, PushEffect DEF Base
  <2>2. Running(j) /\ job[j].at = "push" /\ UNCHANGED <<synced, marker>>
    BY <1>6 DEF PushSyncDevice, At
  <2>3. AwayFrom(job[j]) /\ AwayFrom(job'[j])
    BY <2>1, <2>2 DEF AwayFrom, Pushes
  <2>4. mixed \subseteq mixed' /\ \A d \in Devices \ mixed' : events'[d] = events[d]
    BY <2>1 DEF Pushes
  <2> QED BY <2>1, <2>2, <2>3, <2>4, EventsOne
<1>7. ASSUME NEW j \in Jobs, PostSyncUpdateConfighash(j) \/ ConfirmDevices(j)
      PROVE  EventInv'
  <2>1. Running(j) /\ job[j].at \in {"hashes", "confirm"} /\ UNCHANGED <<synced, events, marker, mixed>>
    BY <1>7 DEF PostSyncUpdateConfighash, ConfirmDevices, At
  <2>2. AwayFrom(job[j]) /\ AwayFrom(job'[j])
    <3>1. job'[j].at = "flag"
      BY <1>7, HashesEffect, ConfirmEffect DEF Base, Moves, Confirms
    <3> QED BY <2>1, <3>1 DEF AwayFrom
  <2> QED BY <1>1, <1>7, <2>1, <2>2, OneMoves DEF Sync
<1>8. ASSUME NEW j \in Jobs, PushStaticConfig(j)
      PROVE  EventInv'
  <2>1. Running(j) /\ job[j].at = "apply" /\ UNCHANGED <<synced, events, marker, mixed>>
    BY <1>8 DEF PushStaticConfig, At, belief
  <2>2. AwayFrom(job[j]) /\ AwayFrom(job'[j])
    BY <1>8, <2>1, ApplyEffect DEF Base, Moves, AwayFrom
  <2> QED BY <1>1, <1>8, <2>1, <2>2, OneMoves
<1>9. ASSUME NEW j \in Jobs, ApplyDone(j)
      PROVE  EventInv'
  <2> DEFINE d == job[j].r.by
  <2>1. /\ Running(j) /\ job[j].at = "applied" /\ UNCHANGED marker /\ End(j) /\ Mix({d}, j)
        /\ synced' = [synced EXCEPT ![d] = FALSE] /\ events' = [events EXCEPT ![d] = @ \cup {"apply"}]
    BY <1>9 DEF ApplyDone, At
  <2>2. d \in Devices
    BY <2>1, KindAt DEF Base
  <2>3. OthersAge(j, {}, {}) /\ job'[j] = Idle /\ AwayFrom(job[j])
    BY <2>1, EndEffect DEF Base, AwayFrom
  <2> HIDE DEF d
  <2>4. /\ \A e \in Devices : e # d => synced'[e] = synced[e] /\ events'[e] = events[e]
        /\ ~synced'[d] /\ events'[d] # {}
    BY <2>1, <2>2 DEF Base, Typed, RowsTyped
  <2> QED BY <2>1, <2>2, <2>3, <2>4, EventsFlagged
<1>10. ASSUME NEW j \in Jobs,
              CheckJobAbortStatus(j) \/ FirmwareDownload(j) \/ FirmwareActivate(j) \/ DeviceReboot(j) \/ Abort(j)
       PROVE  EventInv'
  <2>1. UNCHANGED <<synced, events, marker, mixed>>
    BY <1>10 DEF CheckJobAbortStatus, FirmwareDownload, FirmwareActivate, DeviceReboot, Abort, belief, hist
  <2>2. Running(j) /\ job[j].at \in Steps
    BY <1>10, KindAt, PlaceNames
    DEF CheckJobAbortStatus, FirmwareDownload, FirmwareActivate, DeviceReboot, Step, At, Abort, Base
  <2>3. job'[j] # Idle => job'[j].at \in Steps
    <3>1. CASE CheckJobAbortStatus(j)
      BY <2>2, <3>1, CheckEffect DEF Base, Steps, Advances, Moves
    <3>2. CASE Abort(j)
      BY <2>2, <3>2, AbortEffect DEF Base, Moves
    <3>3. CASE FirmwareDownload(j) \/ FirmwareActivate(j)
      <4>1. NextStep(job, j) \/ End(j)
        BY <3>3 DEF FirmwareDownload, FirmwareActivate
      <4> QED BY <2>2, <4>1, NextStepEffect, EndEffect DEF Base, Steps, Advances
    <3>4. CASE DeviceReboot(j)
      BY <3>4, RebootJobs DEF Advances, Steps
    <3> QED BY <1>10, <3>1, <3>2, <3>3, <3>4
  <2>4. AwayFrom(job[j]) /\ AwayFrom(job'[j])
    BY <2>2, <2>3, PlaceNames DEF AwayFrom
  <2> QED BY <1>1, <1>10, <2>1, <2>4, OneMoves DEF Upgrade
<1>11. ASSUME NEW j \in Jobs, PostFlightCheck(j)
       PROVE  EventInv'
  <2> DEFINE d == job[j].r.by
  <2>1. UNCHANGED marker
    BY <1>11 DEF PostFlightCheck
  <2>2. d \in Devices /\ job'[j] = Idle /\ AwayFrom(job[j])
    BY <1>11, PostFlightJobs DEF AwayFrom
  <2>3. CASE /\ OthersAge(j, {d}, {})
             /\ \A e \in Devices : e # d => synced'[e] = synced[e] /\ events'[e] = events[e]
             /\ ~synced'[d] /\ events'[d] = events[d] \cup {"upgrade"} /\ Mix({d}, j)
    <3>1. events'[d] # {}
      BY <2>3
    <3> HIDE DEF d
    <3> QED BY <2>1, <2>2, <2>3, <3>1, EventsFlagged
  <2>4. CASE OthersAge(j, {}, {}) /\ UNCHANGED <<synced, events, mixed>>
    BY <1>1, <2>1, <2>2, <2>4 DEF AwayFrom
  <2> QED BY <1>11, <2>3, <2>4, PostFlightJobs
<1>12. ASSUME NEW d \in Devices, Revert(d) \/ Tamper(d)
       PROVE  EventInv'
  <2>1. UNCHANGED <<synced, events, marker, mixed>> /\ job' = Altered(d)
    BY <1>12 DEF Revert, Tamper, belief
  <2> QED BY <2>1, AlteredStep, EventsAges
<1>13. ASSUME NEW d \in Devices, UpdateFacts(d)
       PROVE  EventInv'
  <2>1. UNCHANGED <<job, synced, events, marker, mixed>>
    BY <1>13 DEF UpdateFacts, belief
  <2> QED BY <2>1, SameStep, EventsAges
<1>14. ASSUME NEW d \in Devices, MarkRead(d)
       PROVE  EventInv'
  <2>1. /\ UNCHANGED <<job, synced, events>> /\ marker = Idle
        /\ marker' = [at |-> "row", dev |-> d, snap |-> synced[d], list |-> {}]
        /\ mixed' = mixed \cup {e \in {d} : \E i \in Jobs : At(i, "commit") /\ e \in job[i].hosts}
    BY <1>14 DEF MarkRead, belief
  <2>2. \A e : \A i \in Jobs : SameActs(job[i], job'[i], e)
    BY <2>1 DEF SameActs
  <2>3. marker' # Idle /\ marker'.dev = d /\ marker'.at = "row"
    BY <2>1 DEF Idle
  <2>4. ASSUME NEW e \in Devices \ mixed'
        PROVE  (e \notin mixed /\ Same(e)) \/ Marked(e)
    <3>1. CASE e # d
      BY <2>1, <2>2, <2>3, <2>4, <3>1 DEF Same, Marks
    <3>2. CASE e = d
      <4>1. ASSUME NEW i \in Jobs, Acts(job[i], d)
            PROVE  FALSE
        <5>1. At(i, "commit") /\ d \in job[i].hosts
          BY <4>1, RunsTyped DEF Acts, At, Running, Base
        <5> QED BY <2>1, <2>4, <3>2, <5>1
      <4> QED BY <2>1, <2>3, <3>2, <4>1 DEF Marked, Marks
    <3> QED BY <3>1, <3>2
  <2> QED BY <2>4, EventsKept
<1>15. ASSUME NEW d \in Devices, NEW value \in BOOLEAN, PutSynchronized(d, value)
       PROVE  EventInv'
  <2>1. /\ synced' = [synced EXCEPT ![d] = value] /\ UNCHANGED <<job, marker>>
        /\ value => events' = [events EXCEPT ![d] = {}] /\ Mix({d}, None)
        /\ ~value => events' = events /\ mixed' = mixed \cup {d}
    BY <1>15 DEF PutSynchronized
  <2>2. \A e \in Devices : e # d => synced'[e] = synced[e] /\ events'[e] = events[e]
    BY <2>1 DEF Base, Typed, RowsTyped
  <2>3. d \in mixed' \/ (d \notin Between({d}, None) /\ (synced'[d] <=> events'[d] = {}))
    BY <2>1 DEF Mix, Base, Typed, RowsTyped
  <2>4. mixed \ {d} \subseteq mixed'
    BY <2>1 DEF Mix
  <2> QED BY <2>1, <2>2, <2>3, <2>4, EventsAsked
<1>16. ASSUME NEW d \in Devices, NEW value \in BOOLEAN, PutState(d, value)
       PROVE  EventInv'
  <2>1. /\ UNCHANGED <<job, marker>>
        /\ value => UNCHANGED <<synced, events, mixed>>
        /\ ~value => /\ synced' = [synced EXCEPT ![d] = FALSE]
                     /\ events' = [events EXCEPT ![d] = IF managed[d] THEN {"unmanaged"} ELSE {}]
                     /\ IF managed[d] THEN Mix({d}, None) ELSE mixed' = mixed \cup {d}
    BY <1>16 DEF PutState
  <2>2. CASE value
    BY <2>1, <2>2, EventsAsked
  <2>3. CASE ~value
    <3>1. \A e \in Devices : e # d => synced'[e] = synced[e] /\ events'[e] = events[e]
      BY <2>1, <2>3 DEF Base, Typed, RowsTyped
    <3>2. d \in mixed' \/ (d \notin Between({d}, None) /\ (synced'[d] <=> events'[d] = {}))
      <4>1. ~synced'[d] /\ events'[d] = IF managed[d] THEN {"unmanaged"} ELSE {}
        BY <2>1, <2>3 DEF Base, Typed, RowsTyped
      <4> QED BY <2>1, <2>3, <4>1 DEF Mix
    <3>3. mixed \ {d} \subseteq mixed'
      BY <2>1, <2>3 DEF Mix
    <3> QED BY <2>1, <3>1, <3>2, <3>3, EventsAsked
  <2> QED BY <2>2, <2>3
<1>17. ASSUME NEW d \in Devices, PostEvent(d)
       PROVE  EventInv'
  <2>1. /\ events' = [events EXCEPT ![d] = @ \cup {"posted"}] /\ UNCHANGED <<job, marker, synced>>
        /\ mixed' = IF synced[d] THEN mixed \cup {d} ELSE mixed \cup Between({d}, None)
    BY <1>17 DEF PostEvent
  <2>2. events'[d] # {} /\ \A e \in Devices : e # d => events'[e] = events[e]
    BY <2>1 DEF Base, Typed, RowsTyped
  <2>3. d \in mixed' \/ (d \notin Between({d}, None) /\ (synced'[d] <=> events'[d] = {}))
    BY <2>1, <2>2
  <2> QED BY <2>1, <2>2, <2>3, EventsAsked
<1> QED BY <1>2, <1>3, <1>4, <1>5, <1>6, <1>7, <1>8, <1>9, <1>10, <1>11, <1>12, <1>13, <1>14, <1>15,
           <1>16, <1>17, EventsTold, EventsCommitted, EventsMarked DEF Next, Sync, Upgrade

EvInv == Base /\ EventInv

LEMMA EvInit == Init => EvInv
<1> SUFFICES ASSUME Init PROVE EvInv
  OBVIOUS
<1>1. EventInv
  BY DEF Init, EventInv, EventsAt, Acts, Marks
<1> QED BY <1>1, BaseInit DEF EvInv

LEMMA EvStep == EvInv /\ [Next]_vars => EvInv'
<1>1. ASSUME EvInv, Next
      PROVE  EvInv'
  BY <1>1, BaseStep, EventNext DEF EvInv
<1>2. ASSUME EvInv, UNCHANGED vars
      PROVE  EvInv'
  <2>1. Base'
    BY <1>2, BaseStep DEF EvInv
  <2>2. EventInv'
    BY <1>2 DEF EvInv, EventInv, EventsAt, Acts, Marks, vars, belief, hist
  <2> QED BY <2>1, <2>2 DEF EvInv
<1> QED BY <1>1, <1>2

\* When nobody is changing them, events are listed of the switches that are not
\* synchronized and of no others, but for the known ways to lose one.
THEOREM EventsAreTrue == Spec => []EventsMatchFlag
<1>1. EvInv => EventsMatchFlag
  <2> SUFFICES ASSUME EvInv, NEW d \in Devices, d \notin mixed, Between({d}, None) = {}
               PROVE  synced[d] <=> events[d] = {}
    BY DEF EventsMatchFlag
  <2>1. ~Marks(d) /\ \A i \in Jobs : ~Acts(job[i], d)
    BY BetweenActs, NoneAssumption DEF EvInv
  <2> QED BY <2>1 DEF EvInv, EventInv, EventsAt
<1> QED BY <1>1, EvInit, EvStep, PTL DEF Spec

=============================================================================
