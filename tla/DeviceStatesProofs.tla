------------------------ MODULE DeviceStatesProofs ------------------------
(***************************************************************************)
(* DeviceLifecycle implements DeviceStates: every commit of a job or a     *)
(* request is a step of a device in the order of its states, or shows      *)
(* nothing.  That rests on what the jobs remember: they read the state of  *)
(* their device once, long before they store the next one.                 *)
(***************************************************************************)
EXTENDS DeviceLifecycleProofs

(***************************************************************************)
(* What jobs remember.                                                     *)
(***************************************************************************)
PastChecks(j) == job[j].kind \in FirstSteps /\ job[j].at \in PreCommit
InSecond(j) == job[j].kind = "step2" /\ job[j].at \in {"facts", "store"}
Knows(j) ==
  /\ PastChecks(j) => row[job[j].dev].state = "DISCOVERED"
  /\ InSecond(j) => row[job[j].dev].state \in {"INIT"} \cup InService

\* A job that goes on with an address has one, and what it has read of its device
\* is still so when it stores the next state.
ShownInv ==
  /\ \A j \in Slots : Flying(j) => job[j].addr \in Pool
  /\ \A j \in Slots : (job[j] # NoJob /\ ById(j) /\ job[j].dev \notin Hurt) => Knows(j)

\* What a step makes of the jobs: they go on with what they have and know, or have
\* just found it.
JobFollows(i) ==
  /\ Flying(i)' => (Flying(i) /\ job'[i].addr = job[i].addr) \/ job'[i].addr \in Pool
  /\ \/ ~PastChecks(i)' /\ ~InSecond(i)'
     \/ /\ job[i] # NoJob /\ job'[i].dev = job[i].dev /\ job'[i].id = job[i].id
        /\ PastChecks(i)' => PastChecks(i)
        /\ InSecond(i)' => InSecond(i)
     \/ Knows(i)'
JobsFollow == \A i \in Slots : JobFollows(i)

LEMMA JobStays ==
  ASSUME NEW i, job'[i] = job[i]
  PROVE  JobFollows(i)
BY DEF JobFollows, Flying, PastChecks, InSecond, PreCommit, FirstSteps, NoJob

LEMMA JobPassive ==
  ASSUME NEW i, job'[i] = NoJob \/ job'[i].at = "wait"
  PROVE  JobFollows(i)
BY DEF JobFollows, Flying, PastChecks, InSecond, PreCommit, FirstSteps, NoJob

LEMMA SameJobs ==
  ASSUME UNCHANGED job
  PROVE  JobsFollow
BY JobStays DEF JobsFollow

LEMMA FollowsAll ==
  ASSUME NEW j, NEW x, \A i \in Slots : job'[i] = IF i = j THEN x ELSE job[i],
         j \in Slots => JobFollows(j)
  PROVE  JobsFollow
BY JobStays DEF JobsFollow

\* A job ends, or one takes its place that waits.
LEMMA FollowsSet ==
  ASSUME TypeOK, NEW j, NEW x, job' = [job EXCEPT ![j] = x], x = NoJob \/ x.at = "wait"
  PROVE  JobsFollow
<1>1. \A i \in Slots : job'[i] = IF i = j THEN x ELSE job[i]
  BY DEF TypeOK
<1>2. j \in Slots => JobFollows(j)
  BY <1>1, JobPassive
<1> QED BY <1>1, <1>2, FollowsAll

LEMMA FollowsEnd ==
  ASSUME TypeOK, NEW j \in Slots, End(j)
  PROVE  JobsFollow
BY FollowsSet DEF End

\* A job goes on to a stage at which it knows no more than before, or what is so.
LEMMA FollowsGo ==
  ASSUME TypeOK, NEW j \in Slots, job[j] # NoJob, NEW at, Go(j, at),
         at \in {"chosen", "reserved", "moved"} => Flying(j) \/ job[j].kind \notin FirstSteps \cup {"post"},
         \/ at \notin PreCommit \cup {"facts", "store"} \/ PastChecks(j) \/ InSecond(j)
         \/ job[j].kind \notin FirstSteps \cup {"step2"}
         \/ Knows(j)'
  PROVE  JobsFollow
<1>1. PICK x : /\ \A i \in Slots : job'[i] = IF i = j THEN x ELSE job[i]
               /\ x # NoJob /\ x.at = at /\ x.dev = job[j].dev /\ x.id = job[j].id
               /\ x.kind = job[j].kind /\ x.addr = job[j].addr
  BY GoesOn
<1>2. job'[j] = x
  BY <1>1
<1>3. Flying(j)' => (Flying(j) /\ job'[j].addr = job[j].addr) \/ job'[j].addr \in Pool
  BY <1>1, <1>2 DEF Flying
<1>4. \/ ~PastChecks(j)' /\ ~InSecond(j)'
      \/ (PastChecks(j)' => PastChecks(j)) /\ (InSecond(j)' => InSecond(j))
      \/ Knows(j)'
  BY <1>1, <1>2 DEF PastChecks, InSecond, FirstSteps
<1>5. JobFollows(j)
  BY <1>1, <1>2, <1>3, <1>4 DEF JobFollows
<1> QED BY <1>1, <1>5, FollowsAll

(***************************************************************************)
(* What the table shows of a step.                                         *)
(***************************************************************************)
StateMap == [d \in Devices |-> StateOf(d)]
AddressMap == [d \in Devices |-> AddressOf(d)]
TableChange == [Table!Next]_<<StateMap, AddressMap, Hurt>>
SameRow(d) == row'[d].id = row[d].id /\ (Exists(d) => row'[d].state = row[d].state /\ row'[d].mgmt = row[d].mgmt)
SameHurt == UNCHANGED <<twice, overlap>>
HurtGrows == SameHurt \/ \E d \in Devices : Hurt' = Hurt \cup {d}

LEMMA SameView ==
  ASSUME \A d \in Devices : SameRow(d)
  PROVE  UNCHANGED <<StateMap, AddressMap>>
<1>1. \A d \in Devices : StateOf(d)' = StateOf(d) /\ AddressOf(d)' = AddressOf(d)
  BY DEF SameRow, StateOf, AddressOf, Exists
<1> QED BY <1>1 DEF StateMap, AddressMap

\* What a job knows of a device stays so with the device's state.
LEMMA KnowsStill ==
  ASSUME ShownInv, JobsFollow, Hurt \subseteq Hurt', NEW i \in Slots,
         job'[i] # NoJob, ById(i)', job'[i].dev \notin Hurt', SameRow(job'[i].dev)
  PROVE  Knows(i)'
<1>1. JobFollows(i)
  BY DEF JobsFollow
<1>2. CASE ~PastChecks(i)' /\ ~InSecond(i)'
  BY <1>2 DEF Knows
<1>3. CASE /\ job[i] # NoJob /\ job'[i].dev = job[i].dev /\ job'[i].id = job[i].id
           /\ PastChecks(i)' => PastChecks(i)
           /\ InSecond(i)' => InSecond(i)
  <2>1. ById(i)
    BY <1>3 DEF ById, SameRow, Exists
  <2>2. Knows(i)
    BY <1>3, <2>1 DEF ShownInv
  <2>3. row'[job[i].dev].state = row[job[i].dev].state
    BY <1>3, <2>1 DEF SameRow, ById
  <2> QED BY <1>3, <2>2, <2>3 DEF Knows
<1> QED BY <1>1, <1>2, <1>3 DEF JobFollows

LEMMA StillAddressed ==
  ASSUME ShownInv, JobsFollow
  PROVE  \A j \in Slots : Flying(j)' => job'[j].addr \in Pool
BY DEF ShownInv, JobsFollow, JobFollows

\* A step that shows nothing in the table.
LEMMA QuietStep ==
  ASSUME TypeOK, TypeOK', ShownInv, JobsFollow, HurtGrows, \A d \in Devices : SameRow(d)
  PROVE  ShownInv' /\ TableChange
<1>0. \A i \in Slots : job'[i] # NoJob => job'[i].dev \in Devices
  BY DEF TypeOK, Job
<1>1. Hurt \subseteq Hurt'
  BY DEF HurtGrows, SameHurt, Hurt
<1>2. ShownInv'
  BY <1>0, <1>1, KnowsStill, StillAddressed DEF ShownInv
<1>3. UNCHANGED <<StateMap, AddressMap>>
  BY SameView
<1>4. CASE SameHurt
  BY <1>2, <1>3, <1>4 DEF TableChange, SameHurt, Hurt
<1>5. CASE \E d \in Devices : Hurt' = Hurt \cup {d}
  <2>1. PICK d \in Devices : Hurt' = Hurt \cup {d}
    BY <1>5
  <2>2. UNCHANGED <<StateMap, AddressMap>>
    BY <1>3
  <2>3. Table!Next
    BY <2>1, <2>2 DEF Table!Next, StateMap, AddressMap, Hurt
  <2> QED BY <1>2, <2>3 DEF TableChange
<1> QED BY <1>4, <1>5 DEF HurtGrows

LEMMA EnterShown ==
  ASSUME NEW d \in Devices, \A e \in Devices \ {d} : row'[e] = row[e], NEW s, NEW a,
         StateOf(d)' = s, AddressOf(d)' = a
  PROVE  Table!Enter(d, s, a)
<1>1. \A e \in Devices \ {d} : StateOf(e)' = StateOf(e) /\ AddressOf(e)' = AddressOf(e)
  BY DEF StateOf, AddressOf, Exists
<1>2. StateMap' = [StateMap EXCEPT ![d] = s]
  BY <1>1 DEF StateMap
<1>3. AddressMap' = [AddressMap EXCEPT ![d] = a]
  BY <1>1 DEF AddressMap
<1> QED BY <1>2, <1>3 DEF Table!Enter, StateMap, AddressMap

\* One device takes a step in the table, and its jobs know of it.
LEMMA DeviceStep ==
  ASSUME TypeOK, TypeOK', ShownInv, JobsFollow, SameHurt, NEW d \in Devices,
         \A e \in Devices \ {d} : row'[e] = row[e], Table!Change(d),
         \A i \in Slots : (job'[i] # NoJob /\ job'[i].dev = d /\ ById(i)' /\ d \notin Hurt) => Knows(i)'
  PROVE  ShownInv' /\ TableChange
<1>0. \A i \in Slots : job'[i] # NoJob => job'[i].dev \in Devices
  BY DEF TypeOK, Job
<1>1. Hurt' = Hurt
  BY DEF SameHurt, Hurt
<1>2. \A e \in Devices \ {d} : SameRow(e)
  BY DEF SameRow
<1>3. \A i \in Slots : (job'[i] # NoJob /\ ById(i)' /\ job'[i].dev \notin Hurt') => Knows(i)'
  BY <1>0, <1>1, <1>2, KnowsStill
<1>4. ShownInv'
  BY <1>3, StillAddressed DEF ShownInv
<1>5. CASE UNCHANGED <<StateMap, AddressMap>>
  BY <1>1, <1>4, <1>5 DEF TableChange
<1>6. CASE <<StateMap, AddressMap>>' # <<StateMap, AddressMap>>
  <2>1. Table!Next
    BY <1>1, <1>6 DEF Table!Next, StateMap, AddressMap
  <2> QED BY <1>4, <2>1 DEF TableChange
<1> QED BY <1>5, <1>6

LEMMA RowsSame ==
  ASSUME UNCHANGED row
  PROVE  \A d \in Devices : SameRow(d)
BY DEF SameRow

LEMMA StoredSame ==
  ASSUME TypeOK, NEW d \in Devices, NEW r, Store(d, r),
         r.id = row[d].id, r.state = row[d].state, r.mgmt = row[d].mgmt
  PROVE  \A e \in Devices : SameRow(e)
<1>1. \A e \in Devices : row'[e] = IF e = d THEN r ELSE row[e]
  BY DEF Store, TypeOK
<1> QED BY <1>1 DEF SameRow

\* One row is stored.
LEMMA StoredShown ==
  ASSUME TypeOK, NEW d \in Devices, NEW r, Store(d, r), r.id # 0
  PROVE  /\ \A e \in Devices \ {d} : row'[e] = row[e]
         /\ row'[d] = r
         /\ Table!Enter(d, r.state, r.mgmt)
<1>1. \A e \in Devices : row'[e] = IF e = d THEN r ELSE row[e]
  BY DEF Store, TypeOK
<1>2. \A e \in Devices \ {d} : row'[e] = row[e]
  BY <1>1
<1>3. StateOf(d)' = r.state /\ AddressOf(d)' = r.mgmt
  BY <1>1 DEF StateOf, AddressOf, Exists
<1> QED BY <1>1, <1>2, <1>3, EnterShown

\* One row is deleted, and what jobs know of the device is void.
LEMMA DeletedShown ==
  ASSUME TypeOK, TypeOK', ShownInv, JobsFollow, SameHurt, NEW d \in Devices, Exists(d), Store(d, NoRow)
  PROVE  ShownInv' /\ TableChange
<1>1. \A e \in Devices : row'[e] = IF e = d THEN NoRow ELSE row[e]
  BY DEF Store, TypeOK
<1>2. \A e \in Devices \ {d} : row'[e] = row[e]
  BY <1>1
<1>3. ~Exists(d)' /\ StateOf(d)' = "NONE" /\ AddressOf(d)' = 0
  BY <1>1 DEF StateOf, AddressOf, Exists, NoRow
<1>4. Table!Enter(d, "NONE", 0)
  BY <1>2, <1>3, EnterShown
<1>5. StateOf(d) # "NONE"
  BY RowFacts DEF StateOf, Row, States
<1>6. Table!Change(d)
  BY <1>4, <1>5 DEF Table!Change, Table!Remove
<1>7. \A i \in Slots : (job'[i] # NoJob /\ job'[i].dev = d /\ ById(i)' /\ d \notin Hurt) => Knows(i)'
  BY <1>3 DEF ById
<1> QED BY <1>2, <1>6, <1>7, DeviceStep

(***************************************************************************)
(* The steps.                                                              *)
(***************************************************************************)
\* No job knows of the row that comes next.
LEMMA NewIsUnknown ==
  ASSUME TypeOK, LateInv, NEW d \in Devices, UNCHANGED job \/ \E j \in Slots : End(j),
         row'[d].id = rows[d] + 1
  PROVE  \A i \in Slots : ~(job'[i] # NoJob /\ job'[i].dev = d /\ ById(i)')
<1>1. \A i \in Slots : (job[i] # NoJob /\ job[i].dev = d) => job[i].id <= rows[d] /\ job[i].id \in Nat
  BY DEF LateInv, IdInv, TypeOK, Job
<1>2. rows[d] \in Nat
  BY DEF TypeOK
<1>3. \A i \in Slots : job'[i] # NoJob => job'[i] = job[i]
  BY EndsAll
<1> QED BY <1>1, <1>2, <1>3 DEF ById

\* A device that was in service, or on its way there, stays so: no first step that
\* has passed its checks is about it.
LEMMA ServedKnows ==
  ASSUME ShownInv, NEW d, Exists(d), row'[d].id = row[d].id, row'[d].state \in {"INIT"} \cup InService,
         \A i \in Slots : job'[i] # NoJob => job'[i] = job[i],
         d \notin Hurt => row[d].state \in {"INIT"} \cup InService
  PROVE  \A i \in Slots : (job'[i] # NoJob /\ job'[i].dev = d /\ ById(i)' /\ d \notin Hurt) => Knows(i)'
<1>1. SUFFICES ASSUME NEW i \in Slots, job'[i] # NoJob, job'[i].dev = d, ById(i)', d \notin Hurt
               PROVE  Knows(i)'
  OBVIOUS
<1>2. job'[i] = job[i] /\ ById(i)
  BY <1>1 DEF ById
<1>3. Knows(i)
  BY <1>1, <1>2 DEF ShownInv
<1>4. ~PastChecks(i)
  BY <1>1, <1>2, <1>3 DEF Knows, InService
<1>5. ~PastChecks(i)'
  BY <1>2, <1>4 DEF PastChecks
<1> QED BY <1>1, <1>5 DEF Knows

LEMMA HookShown ==
  ASSUME TypeOK, TypeOK', LateInv, ShownInv, NEW d \in Devices, DhcpHook(d)
  PROVE  ShownInv' /\ TableChange
<1>1. SameHurt
  BY DEF DhcpHook, hist, SameHurt
<1>2. CASE ~Exists(d) /\ Store(d, NewRow(d)) /\ UNCHANGED job
  <2>1. NewRow(d).state = "DHCP_BOOT" /\ NewRow(d).mgmt = 0 /\ NewRow(d).id = rows[d] + 1 /\ rows[d] \in Nat
    BY DEF NewRow, TypeOK
  <2>2. /\ \A e \in Devices \ {d} : row'[e] = row[e]
        /\ row'[d] = NewRow(d)
        /\ Table!Enter(d, "DHCP_BOOT", 0)
    BY <1>2, <2>1, StoredShown
  <2>3. Table!Change(d)
    BY <1>2, <2>2 DEF Table!Change, Table!Boot, StateOf
  <2>4. \A i \in Slots : ~(job'[i] # NoJob /\ job'[i].dev = d /\ ById(i)')
    BY <1>2, <2>1, <2>2, NewIsUnknown
  <2> QED BY <1>1, <1>2, <2>2, <2>3, <2>4, SameJobs, DeviceStep
<1>3. CASE UNCHANGED row /\ \E j \in Free : job' = [job EXCEPT ![j] = New("discover", d, 0, 1, None)]
  <2>1. New("discover", d, 0, 1, None).at = "wait"
    BY DEF New
  <2>2. JobsFollow
    BY <1>3, <2>1, FollowsSet
  <2> QED BY <1>1, <1>3, <2>2, RowsSame, QuietStep DEF HurtGrows
<1> QED BY <1>2, <1>3 DEF DhcpHook

LEMMA DiscoveryShown ==
  ASSUME TypeOK, TypeOK', LateInv, ShownInv, NEW j \in Slots,
         DiscoverStart(j) \/ DiscoverFails(j) \/ DiscoverFacts(j) \/ DiscoverStore(j)
  PROVE  ShownInv' /\ TableChange
<1>0. job[j] # NoJob /\ job[j] \in Job /\ job[j].dev \in Devices /\ job[j].kind \notin FirstSteps \cup {"post", "step2"}
  BY JobFacts DEF DiscoverStart, DiscoverFails, DiscoverFacts, DiscoverStore, At, FirstSteps
<1>1. CASE DiscoverStart(j)
  <2>1. JobsFollow
    BY <1>0, <1>1, FollowsGo, FollowsEnd DEF DiscoverStart
  <2>2. HurtGrows
    <3>1. twice' = twice /\ (overlap' = overlap \/ overlap' = overlap \cup {job[j].dev})
      BY <1>1 DEF DiscoverStart
    <3> QED BY <1>0, <3>1 DEF HurtGrows, SameHurt, Hurt
  <2> QED BY <1>1, <2>1, <2>2, RowsSame, QuietStep DEF DiscoverStart
<1>2. CASE DiscoverFails(j)
  <2>1. New("discover", job[j].dev, 0, job[j].it + 1, None).at = "wait"
    BY DEF New
  <2>2. JobsFollow
    BY <1>2, <2>1, FollowsSet, FollowsEnd DEF DiscoverFails
  <2> QED BY <1>2, <2>2, RowsSame, QuietStep DEF DiscoverFails, hist, HurtGrows, SameHurt
<1>3. CASE DiscoverFacts(j)
  <2>1. JobsFollow
    BY <1>0, <1>3, FollowsGo DEF DiscoverFacts
  <2> QED BY <1>3, <2>1, RowsSame, QuietStep DEF DiscoverFacts, hist, HurtGrows, SameHurt
<1>4. CASE DiscoverStore(j)
  <2> DEFINE d == job[j].dev
             r == [row[d] EXCEPT !.state = "DISCOVERED"]
  <2>1. JobsFollow /\ SameHurt /\ d \in Devices /\ Searching(j)
    BY <1>0, <1>4, FollowsEnd DEF DiscoverStore, hist, SameHurt, Searching, At
  <2>2. CASE ~Exists(d)
    BY <1>4, <2>1, <2>2, RowsSame, QuietStep DEF DiscoverStore, HurtGrows
  <2>3. CASE Exists(d)
    <3>1. row[d] \in Row /\ Store(d, r)
      BY <1>4, <2>1, <2>3, RowFacts DEF DiscoverStore
    <3>2. r.id = row[d].id /\ r.state = "DISCOVERED" /\ r.mgmt = row[d].mgmt /\ row[d].state # "NONE" /\ r.id # 0
      BY <2>3, <3>1 DEF Row, States, Exists
    <3>3. d \notin Hurt => row[d].state = "DHCP_BOOT"
      BY <2>1, <2>3 DEF LateInv, Hurt
    <3>4. \A i \in Slots : (job[i] # NoJob /\ ById(i) /\ job[i].dev = d /\ d \notin Hurt) => ~PastChecks(i) /\ ~InSecond(i)
      BY <3>3 DEF LateInv, Busy, PastChecks, InSecond, PreCommit
    <3>5. \A i \in Slots : job'[i] # NoJob => job'[i] = job[i]
      BY <1>4, EndsAll DEF DiscoverStore
    <3>6. AddressOf(d) = row[d].mgmt /\ StateOf(d) = row[d].state
      BY <2>3 DEF AddressOf, StateOf
    <3> HIDE DEF r, d
    <3>7. /\ \A e \in Devices \ {d} : row'[e] = row[e]
          /\ row'[d] = r
          /\ Table!Enter(d, "DISCOVERED", AddressOf(d))
      BY <2>1, <3>1, <3>2, <3>6, StoredShown
    <3>8. Table!Change(d)
      BY <2>1, <3>2, <3>3, <3>6, <3>7 DEF Table!Change, Table!Discover, Table!From
    <3>9. \A i \in Slots : (job'[i] # NoJob /\ job'[i].dev = d /\ ById(i)' /\ d \notin Hurt) => Knows(i)'
      <4>1. SUFFICES ASSUME NEW i \in Slots, job'[i] # NoJob, job'[i].dev = d, ById(i)', d \notin Hurt
                     PROVE  Knows(i)'
        OBVIOUS
      <4>2. job'[i] = job[i] /\ ById(i)
        BY <2>3, <3>2, <3>5, <3>7, <4>1 DEF ById
      <4>3. ~PastChecks(i)' /\ ~InSecond(i)'
        BY <3>4, <4>1, <4>2 DEF PastChecks, InSecond
      <4> QED BY <4>3 DEF Knows
    <3> QED BY <2>1, <3>7, <3>8, <3>9, DeviceStep
  <2> QED BY <2>2, <2>3
<1> QED BY <1>1, <1>2, <1>3, <1>4

LEMMA ChooseShown ==
  ASSUME TypeOK, TypeOK', ShownInv, NEW j \in Slots, job[j] # NoJob, NEW cleared \in SUBSET Devices,
         \A e \in cleared : Exists(e), Choose(j, cleared),
         PastChecks(j) \/ job[j].kind = "post"
  PROVE  ShownInv' /\ TableChange
<1> DEFINE x(a) == [job[j] EXCEPT !.at = "chosen", !.addr = a]
<1>1. row' = Clean(cleared) /\ SameHurt
  BY DEF Choose, SameHurt
<1>2. \A e \in Devices : SameRow(e)
  <2>1. SUFFICES ASSUME NEW e \in Devices PROVE SameRow(e)
    OBVIOUS
  <2>2. row'[e] = IF e \in cleared THEN [row[e] EXCEPT !.resv = 0] ELSE row[e]
    BY <1>1 DEF Clean
  <2>3. e \in cleared => row[e] \in Row
    BY RowFacts
  <2> QED BY <2>2, <2>3 DEF SameRow, Row
<1>3. CASE End(j)
  BY <1>1, <1>2, <1>3, FollowsEnd, QuietStep DEF HurtGrows
<1>4. ASSUME NEW a \in Pool, job' = [job EXCEPT ![j] = x(a)]
      PROVE  ShownInv' /\ TableChange
  <2>1. job[j] \in Job
    BY DEF TypeOK
  <2>2. /\ x(a).dev = job[j].dev /\ x(a).id = job[j].id /\ x(a).kind = job[j].kind
        /\ x(a).at = "chosen" /\ x(a).addr = a
    BY <2>1 DEF Job
  <2>3. \A i \in Slots : job'[i] = IF i = j THEN x(a) ELSE job[i]
    BY <1>4 DEF TypeOK
  <2> HIDE DEF x
  <2>4. ~InSecond(j)' /\ (PastChecks(j)' => PastChecks(j))
    BY <2>2, <2>3 DEF PastChecks, InSecond, FirstSteps
  <2>5. JobFollows(j)
    BY <2>2, <2>3, <2>4 DEF JobFollows
  <2>6. JobsFollow
    BY <2>3, <2>5, FollowsAll
  <2> QED BY <1>1, <1>2, <2>6, QuietStep DEF HurtGrows
<1>5. End(j) \/ \E a \in Pool : job' = [job EXCEPT ![j] = x(a)]
  BY DEF Choose, FirstFree, FreeAddresses
<1> HIDE DEF x
<1> QED BY <1>3, <1>4, <1>5

LEMMA StepOneShown ==
  ASSUME TypeOK, TypeOK', LateInv, ShownInv, NEW j \in Slots,
         \/ StepOneStart(j) \/ StepOneRefused(j) \/ InitMlagPeerOnly(j) \/ StepOneChoose(j)
         \/ StepOneReserve(j) \/ StepOneSettings(j)
  PROVE  ShownInv' /\ TableChange
<1>0. job[j] # NoJob /\ job[j] \in Job /\ job[j].dev \in Devices /\ job[j].kind \in FirstSteps
  BY JobFacts DEF StepOneStart, StepOneRefused, InitMlagPeerOnly, StepOneChoose, StepOneReserve,
                  StepOneSettings, At, FirstSteps
<1>1. CASE StepOneStart(j)
  <2>1. Go(j, "checked") /\ row[job[j].dev].state = "DISCOVERED" /\ UNCHANGED row
    BY <1>1 DEF StepOneStart, Ready
  <2>2. Knows(j)'
    <3>1. PICK x : /\ \A i \in Slots : job'[i] = IF i = j THEN x ELSE job[i]
                   /\ x.dev = job[j].dev /\ x.kind = job[j].kind
      BY <1>0, <2>1, GoesOn
    <3>2. job'[j].dev = job[j].dev /\ job'[j].kind \in FirstSteps
      BY <1>0, <3>1
    <3> QED BY <2>1, <3>2 DEF Knows, InSecond, FirstSteps
  <2>3. JobsFollow
    BY <1>0, <2>1, <2>2, FollowsGo
  <2>4. HurtGrows
    <3>1. overlap' = overlap /\ (twice' = twice \/ twice' = twice \cup {job[j].dev})
      BY <1>1 DEF StepOneStart
    <3> QED BY <1>0, <3>1 DEF HurtGrows, SameHurt, Hurt
  <2> QED BY <2>1, <2>3, <2>4, RowsSame, QuietStep
<1>2. CASE StepOneRefused(j) \/ StepOneSettings(j)
  <2>1. JobsFollow /\ UNCHANGED row /\ HurtGrows
    BY <1>2, FollowsEnd DEF StepOneRefused, StepOneSettings, hist, HurtGrows, SameHurt
  <2> QED BY <2>1, RowsSame, QuietStep
<1>3. CASE InitMlagPeerOnly(j)
  <2>1. New("ACCESS", job[j].peer, row[job[j].peer].id, 0, None).at = "wait"
    BY DEF New
  <2>2. JobsFollow /\ UNCHANGED row /\ HurtGrows
    BY <1>3, <2>1, FollowsSet DEF InitMlagPeerOnly, hist, HurtGrows, SameHurt
  <2> QED BY <2>2, RowsSame, QuietStep
<1>4. CASE StepOneChoose(j)
  <2>1. PastChecks(j)
    BY <1>4 DEF StepOneChoose, At, PastChecks, PreCommit
  <2> QED BY <1>0, <1>4, <2>1, ChooseShown, ChoicesClear DEF StepOneChoose
<1>5. CASE StepOneReserve(j)
  <2> DEFINE d == job[j].dev
             r == [row[d] EXCEPT !.resv = job[j].addr, !.renamed = TRUE]
  <2>1. PastChecks(j) /\ Flying(j) /\ SameHurt
    BY <1>5 DEF StepOneReserve, At, PastChecks, PreCommit, Flying, hist, SameHurt
  <2>2. CASE ById(j) /\ Store(d, r) /\ Go(j, "reserved")
    <3>1. row[d] \in Row
      BY <1>0, <2>2, RowFacts DEF ById
    <3>2. r.id = row[d].id /\ r.state = row[d].state /\ r.mgmt = row[d].mgmt
      BY <3>1 DEF Row
    <3>3. JobsFollow
      BY <1>0, <2>1, <2>2, FollowsGo
    <3> HIDE DEF r
    <3> QED BY <1>0, <2>1, <2>2, <3>2, <3>3, StoredSame, QuietStep DEF HurtGrows
  <2>3. CASE End(j) /\ UNCHANGED row
    BY <2>1, <2>3, FollowsEnd, RowsSame, QuietStep DEF HurtGrows
  <2> QED BY <1>5, <2>2, <2>3 DEF StepOneReserve
<1> QED BY <1>1, <1>2, <1>3, <1>4, <1>5

LEMMA PushShown ==
  ASSUME TypeOK, TypeOK', FirstOnce, ShownInv, NEW j \in Slots,
         PushBaseManagement(j) \/ StepOneCommit(j) \/ StepOneRollback(j) \/ StepOneNext(j)
  PROVE  ShownInv' /\ TableChange
<1>0. job[j] # NoJob /\ job[j] \in Job /\ job[j].dev \in Devices /\ job[j].kind \in FirstSteps
  BY JobFacts DEF PushBaseManagement, StepOneCommit, StepOneRollback, StepOneNext, At, FirstSteps
<1>1. CASE PushBaseManagement(j)
  <2>1. PastChecks(j) /\ Flying(j) /\ UNCHANGED row /\ HurtGrows
    BY <1>1 DEF PushBaseManagement, At, PastChecks, PreCommit, Flying, hist, HurtGrows, SameHurt
  <2>2. Go(j, "moved") \/ Go(j, "refused")
    BY <1>1 DEF PushBaseManagement, Moved, Refused
  <2>3. JobsFollow
    BY <1>0, <2>1, <2>2, FollowsGo
  <2> QED BY <2>1, <2>3, RowsSame, QuietStep
<1>2. CASE StepOneCommit(j)
  <2> DEFINE d == job[j].dev
             r == Initialised(d, job[j].kind, job[j].addr)
  <2>1. PastChecks(j) /\ Flying(j) /\ InFirst(j) /\ SameHurt /\ job[j].addr \in Pool
    BY <1>2 DEF StepOneCommit, At, PastChecks, PreCommit, Flying, InFirst, SameHurt, ShownInv
  <2>2. CASE End(j) /\ UNCHANGED row
    BY <2>1, <2>2, FollowsEnd, RowsSame, QuietStep DEF HurtGrows
  <2>3. CASE ById(j) /\ Store(d, r) /\ Go(j, "next")
    <3>1. row[d] \in Row
      BY <1>0, <2>3, RowFacts DEF ById
    <3>2. r.id = row[d].id /\ r.state = "INIT" /\ r.mgmt = job[j].addr /\ row[d].state # "NONE" /\ r.id # 0
      BY <2>3, <3>1 DEF Row, States, Initialised, ById, Exists
    <3>3. d \notin Hurt => row[d].state = "DISCOVERED"
      BY <1>0, <2>1, <2>3 DEF ShownInv, Knows
    <3>4. \A i \in Slots : (i # j /\ job[i] # NoJob /\ job[i].dev = d /\ d \notin Hurt) => ~PastChecks(i)
      BY <2>1 DEF FirstOnce, InFirst, PastChecks, Hurt
    <3>5. StateOf(d) = row[d].state
      BY <2>3 DEF StateOf, ById
    <3>6. PICK x : /\ \A i \in Slots : job'[i] = IF i = j THEN x ELSE job[i]
                   /\ x.at = "next"
      BY <1>0, <2>3, GoesOn
    <3>7. JobsFollow
      BY <1>0, <2>3, FollowsGo DEF PreCommit
    <3> HIDE DEF r, d
    <3>8. d \in Devices
      BY <1>0 DEF d
    <3>9. /\ \A e \in Devices \ {d} : row'[e] = row[e]
          /\ row'[d] = r
          /\ Table!Enter(d, "INIT", job[j].addr)
      BY <2>3, <3>2, <3>8, StoredShown
    <3>10. Table!Change(d)
      BY <2>1, <3>2, <3>3, <3>5, <3>8, <3>9 DEF Table!Change, Table!Initialise, Table!From
    <3>11. \A i \in Slots : (job'[i] # NoJob /\ job'[i].dev = d /\ ById(i)' /\ d \notin Hurt) => Knows(i)'
      <4>1. SUFFICES ASSUME NEW i \in Slots, job'[i] # NoJob, job'[i].dev = d, d \notin Hurt
                     PROVE  Knows(i)'
        OBVIOUS
      <4>2. ~PastChecks(i)'
        <5>1. CASE i = j
          BY <3>6, <5>1 DEF PastChecks, PreCommit
        <5>2. CASE i # j
          BY <3>4, <3>6, <4>1, <5>2 DEF PastChecks
        <5> QED BY <5>1, <5>2
      <4>3. row'[job'[i].dev].state = "INIT"
        BY <3>2, <3>9, <4>1
      <4> QED BY <4>2, <4>3 DEF Knows
    <3> QED BY <2>1, <3>7, <3>8, <3>9, <3>10, <3>11, DeviceStep
  <2> QED BY <1>2, <2>2, <2>3 DEF StepOneCommit
<1>3. CASE StepOneRollback(j)
  <2> DEFINE d == job[j].dev
             r == [row[d] EXCEPT !.renamed = FALSE, !.resv = 0]
  <2>1. JobsFollow /\ HurtGrows
    BY <1>3, FollowsEnd DEF StepOneRollback, hist, HurtGrows, SameHurt
  <2>2. CASE ById(j) /\ Store(d, r)
    <3>1. row[d] \in Row
      BY <1>0, <2>2, RowFacts DEF ById
    <3>2. r.id = row[d].id /\ r.state = row[d].state /\ r.mgmt = row[d].mgmt
      BY <3>1 DEF Row
    <3> HIDE DEF r
    <3> QED BY <1>0, <2>1, <2>2, <3>2, StoredSame, QuietStep
  <2>3. CASE UNCHANGED row
    BY <2>1, <2>3, RowsSame, QuietStep
  <2> QED BY <1>3, <2>2, <2>3 DEF StepOneRollback
<1>4. CASE StepOneNext(j)
  <2> DEFINE x == New("step2", job[j].dev, job[j].id, 1, None)
             p == job[j].peer
             y == New("ACCESS", p, row[p].id, 0, None)
  <2>1. x.at = "wait" /\ y.at = "wait" /\ UNCHANGED row /\ HurtGrows
    BY <1>4 DEF New, StepOneNext, hist, HurtGrows, SameHurt
  <2>2. \/ job' = [job EXCEPT ![j] = x]
        \/ \E k \in Free : job' = [job EXCEPT ![j] = x, ![k] = y]
    BY <1>4 DEF StepOneNext
  <2> HIDE DEF x, y
  <2>3. \A i \in Slots : job'[i] \in {x, y, job[i]}
    BY <2>2 DEF TypeOK
  <2>4. JobsFollow
    BY <2>1, <2>3, JobStays, JobPassive DEF JobsFollow
  <2> QED BY <2>1, <2>4, RowsSame, QuietStep
<1> QED BY <1>1, <1>2, <1>3, <1>4

LEMMA StepTwoShown ==
  ASSUME TypeOK, TypeOK', ShownInv, NEW j \in Slots,
         StepTwoStart(j) \/ StepTwoFails(j) \/ StepTwoFacts(j) \/ StepTwoStore(j)
  PROVE  ShownInv' /\ TableChange
<1>0. job[j] # NoJob /\ job[j] \in Job /\ job[j].dev \in Devices /\ job[j].kind = "step2"
  BY JobFacts DEF StepTwoStart, StepTwoFails, StepTwoFacts, StepTwoStore, At
<1>1. CASE StepTwoStart(j)
  <2>1. UNCHANGED row /\ HurtGrows
    BY <1>1 DEF StepTwoStart, hist, HurtGrows, SameHurt
  <2>2. CASE row[job[j].dev].state = "INIT" /\ Go(j, "facts")
    <3>1. PICK x : /\ \A i \in Slots : job'[i] = IF i = j THEN x ELSE job[i]
                   /\ x.dev = job[j].dev /\ x.kind = job[j].kind
      BY <1>0, <2>2, GoesOn
    <3>2. job'[j].dev = job[j].dev /\ job'[j].kind = "step2"
      BY <1>0, <3>1
    <3>3. Knows(j)'
      BY <2>1, <2>2, <3>2 DEF Knows, PastChecks, FirstSteps
    <3>4. JobsFollow
      BY <1>0, <2>2, <3>3, FollowsGo
    <3> QED BY <2>1, <3>4, RowsSame, QuietStep
  <2>3. CASE End(j)
    BY <2>1, <2>3, FollowsEnd, RowsSame, QuietStep
  <2> QED BY <1>1, <2>2, <2>3 DEF StepTwoStart
<1>2. CASE StepTwoFails(j)
  <2>1. New("step2", job[j].dev, job[j].id, job[j].it + 1, None).at = "wait"
    BY DEF New
  <2>2. JobsFollow
    BY <1>2, <2>1, FollowsSet, FollowsEnd DEF StepTwoFails
  <2>3. UNCHANGED row /\ HurtGrows
    BY <1>2 DEF StepTwoFails, HurtGrows, SameHurt
  <2> QED BY <2>2, <2>3, RowsSame, QuietStep
<1>3. CASE StepTwoFacts(j)
  <2>1. InSecond(j) /\ (Go(j, "store") \/ End(j))
    BY <1>3 DEF StepTwoFacts, InSecond, At
  <2>2. JobsFollow
    BY <1>0, <2>1, FollowsGo, FollowsEnd
  <2>3. UNCHANGED row /\ HurtGrows
    BY <1>3 DEF StepTwoFacts, HurtGrows, SameHurt
  <2> QED BY <2>2, <2>3, RowsSame, QuietStep
<1>4. CASE StepTwoStore(j)
  <2> DEFINE d == job[j].dev
             r == [row[d] EXCEPT !.state = "MANAGED"]
  <2>1. InSecond(j) /\ SameHurt /\ JobsFollow
    BY <1>4, FollowsEnd DEF StepTwoStore, At, InSecond, hist, SameHurt
  <2>2. CASE UNCHANGED row
    BY <2>1, <2>2, RowsSame, QuietStep DEF HurtGrows
  <2>3. CASE ById(j) /\ Store(d, r)
    <3>1. row[d] \in Row
      BY <1>0, <2>3, RowFacts DEF ById
    <3>2. r.id = row[d].id /\ r.state = "MANAGED" /\ r.mgmt = row[d].mgmt /\ row[d].state # "NONE" /\ r.id # 0
      BY <2>3, <3>1 DEF Row, States, ById, Exists
    <3>3. d \notin Hurt => row[d].state \in {"INIT"} \cup InService
      BY <1>0, <2>1, <2>3 DEF ShownInv, Knows
    <3>4. AddressOf(d) = row[d].mgmt /\ StateOf(d) = row[d].state
      BY <2>3 DEF AddressOf, StateOf, ById
    <3>5. \A i \in Slots : job'[i] # NoJob => job'[i] = job[i]
      BY <1>4, EndsAll DEF StepTwoStore
    <3> HIDE DEF r, d
    <3>6. d \in Devices
      BY <1>0 DEF d
    <3>7. /\ \A e \in Devices \ {d} : row'[e] = row[e]
          /\ row'[d] = r
          /\ Table!Enter(d, "MANAGED", AddressOf(d))
      BY <2>3, <3>2, <3>4, <3>6, StoredShown
    <3>8. Table!Change(d)
      BY <3>2, <3>3, <3>4, <3>6, <3>7 DEF Table!Change, Table!Manage, Table!From, Table!InService, InService
    <3>9. Exists(d)
      BY <3>2 DEF Exists
    <3>10. \A i \in Slots : (job'[i] # NoJob /\ job'[i].dev = d /\ ById(i)' /\ d \notin Hurt) => Knows(i)'
      <4>1. row'[d].id = row[d].id /\ row'[d].state \in {"INIT"} \cup InService
        BY <3>2, <3>7 DEF InService
      <4> QED BY <3>3, <3>5, <3>9, <4>1, ServedKnows
    <3> QED BY <2>1, <3>6, <3>7, <3>8, <3>10, DeviceStep
  <2> QED BY <1>4, <2>2, <2>3 DEF StepTwoStore
<1> QED BY <1>1, <1>2, <1>3, <1>4

LEMMA EraseShown ==
  ASSUME TypeOK, TypeOK', LateInv, ShownInv, NEW j \in Slots,
         EraseStart(j) \/ EraseTask(j) \/ EraseDelete(j) \/ PostChoose(j) \/ PostStore(j)
  PROVE  ShownInv' /\ TableChange
<1>0. job[j] # NoJob /\ job[j] \in Job /\ job[j].dev \in Devices /\ job[j].kind \in {"erase", "post"}
  BY JobFacts DEF EraseStart, EraseTask, EraseDelete, PostChoose, PostStore, At
<1>1. CASE EraseStart(j) \/ EraseTask(j)
  <2>1. Go(j, "wipe") \/ Go(j, "delete") \/ End(j)
    BY <1>1 DEF EraseStart, EraseTask
  <2>2. JobsFollow
    BY <1>0, <2>1, FollowsGo, FollowsEnd DEF PreCommit
  <2>3. UNCHANGED row /\ HurtGrows
    BY <1>1 DEF EraseStart, EraseTask, hist, HurtGrows, SameHurt
  <2> QED BY <2>2, <2>3, RowsSame, QuietStep
<1>2. CASE EraseDelete(j)
  <2>1. JobsFollow /\ SameHurt
    BY <1>2, FollowsEnd DEF EraseDelete, hist, SameHurt
  <2>2. CASE ById(j) /\ Store(job[j].dev, NoRow)
    BY <1>0, <2>1, <2>2, DeletedShown DEF ById
  <2>3. CASE UNCHANGED row
    BY <2>1, <2>3, RowsSame, QuietStep DEF HurtGrows
  <2> QED BY <1>2, <2>2, <2>3 DEF EraseDelete
<1>3. CASE PostChoose(j)
  <2>1. job[j].kind = "post" /\ Choose(j, {})
    BY <1>3 DEF PostChoose, At
  <2> QED BY <1>0, <2>1, ChooseShown
<1>4. CASE PostStore(j)
  <2> DEFINE d == job[j].dev
             r == [NewRow(d) EXCEPT !.state = "MANAGED", !.type = "FABRIC", !.renamed = TRUE, !.mgmt = job[j].addr]
  <2>1. End(j) /\ JobsFollow /\ SameHurt /\ job[j].addr \in Pool
    BY <1>4, FollowsEnd DEF PostStore, hist, SameHurt, ShownInv, Flying, At
  <2>2. CASE UNCHANGED row
    BY <2>1, <2>2, RowsSame, QuietStep DEF HurtGrows
  <2>3. CASE rows[d] = 0 /\ Store(d, r)
    <3>1. r.id = rows[d] + 1 /\ r.state = "MANAGED" /\ r.mgmt = job[j].addr
      BY DEF NewRow
    <3>2. ~Exists(d)
      <4>1. row[d].id <= 0 /\ row[d].id \in Nat
        BY <1>0, <2>3 DEF LateInv, IdInv, TypeOK, Row, NoRow
      <4> QED BY <4>1 DEF Exists
    <3> HIDE DEF r, d
    <3>3. d \in Devices
      BY <1>0 DEF d
    <3>4. /\ \A e \in Devices \ {d} : row'[e] = row[e]
          /\ row'[d] = r
          /\ Table!Enter(d, "MANAGED", job[j].addr)
      BY <2>3, <3>1, <3>3, StoredShown
    <3>5. Table!Change(d)
      <4>1. StateOf(d) = "NONE"
        BY <3>2 DEF StateOf
      <4>2. Table!Add(d, job[j].addr)
        BY <3>3, <3>4, <4>1 DEF Table!Add
      <4> QED BY <2>1, <4>2 DEF Table!Change
    <3>6. \A i \in Slots : ~(job'[i] # NoJob /\ job'[i].dev = d /\ ById(i)')
      BY <2>1, <3>1, <3>3, <3>4, NewIsUnknown
    <3> QED BY <2>1, <3>3, <3>4, <3>5, <3>6, DeviceStep
  <2> QED BY <1>4, <2>2, <2>3 DEF PostStore
<1> QED BY <1>1, <1>2, <1>3, <1>4

LEMMA OperatorShown ==
  ASSUME TypeOK, TypeOK', ShownInv, NEW d \in Devices, Operator(d)
  PROVE  ShownInv' /\ TableChange
<1>1. ASSUME NEW kind \in FirstSteps, NEW peer \in Devices \cup {None}, DeviceInit(d, kind, peer)
      PROVE  ShownInv' /\ TableChange
  <2>1. \A x \in {New("step2", d, row[d].id, 1, None), New(kind, d, row[d].id, 0, peer)} : x.at = "wait"
    BY DEF New
  <2>2. \E j \in Free, x \in {New("step2", d, row[d].id, 1, None), New(kind, d, row[d].id, 0, peer)} :
          job' = [job EXCEPT ![j] = x]
    BY <1>1 DEF DeviceInit
  <2>3. JobsFollow
    BY <2>1, <2>2, FollowsSet
  <2>4. UNCHANGED row /\ HurtGrows
    BY <1>1 DEF DeviceInit, HurtGrows, SameHurt
  <2> QED BY <2>3, <2>4, RowsSame, QuietStep
<1>2. CASE PutState(d)
  <2>1. JobsFollow /\ SameHurt /\ UNCHANGED job /\ Exists(d)
    BY <1>2, SameJobs DEF PutState, hist, SameHurt
  <2>2. row[d] \in Row /\ StateOf(d) = row[d].state /\ AddressOf(d) = row[d].mgmt
    BY <2>1, RowFacts DEF StateOf, AddressOf
  <2>3. ASSUME NEW s, s \in InService, row[d].state \in InService, Store(d, [row[d] EXCEPT !.state = s]),
               row[d].state = "MANAGED" \/ s = "MANAGED"
        PROVE  ShownInv' /\ TableChange
    <3> DEFINE r == [row[d] EXCEPT !.state = s]
    <3>1. r.id = row[d].id /\ r.state = s /\ r.mgmt = row[d].mgmt /\ r.id # 0
      BY <2>1, <2>2 DEF Row, Exists
    <3>2. Store(d, r)
      BY <2>3
    <3> HIDE DEF r
    <3>3. /\ \A e \in Devices \ {d} : row'[e] = row[e]
          /\ row'[d] = r
          /\ Table!Enter(d, s, AddressOf(d))
      BY <2>2, <3>1, <3>2, StoredShown
    <3>4. Table!Change(d)
      BY <2>2, <2>3, <3>3 DEF Table!Change, Table!Manage, Table!Unmanage, Table!From, Table!InService, InService
    <3>5. \A i \in Slots : (job'[i] # NoJob /\ job'[i].dev = d /\ ById(i)' /\ d \notin Hurt) => Knows(i)'
      BY <2>1, <2>3, <3>1, <3>3, ServedKnows
    <3> QED BY <2>1, <3>3, <3>4, <3>5, DeviceStep
  <2> QED BY <1>2, <2>3 DEF PutState, InService
<1>3. CASE DeleteDevice(d)
  <2>1. JobsFollow /\ SameHurt /\ Exists(d) /\ Store(d, NoRow)
    BY <1>3, SameJobs DEF DeleteDevice, SameHurt
  <2> QED BY <2>1, DeletedShown
<1>4. CASE FactoryDefault(d) \/ AddFabric(d)
  <2>1. New("erase", d, row[d].id, 0, None).at = "wait" /\ New("post", d, 0, 0, None).at = "wait"
    BY DEF New
  <2>2. JobsFollow
    BY <1>4, <2>1, FollowsSet DEF FactoryDefault, AddFabric
  <2>3. UNCHANGED row /\ HurtGrows
    BY <1>4 DEF FactoryDefault, AddFabric, hist, HurtGrows, SameHurt
  <2> QED BY <2>2, <2>3, RowsSame, QuietStep
<1> QED BY <1>1, <1>2, <1>3, <1>4 DEF Operator

LEMMA RestartShown ==
  ASSUME TypeOK, TypeOK', ShownInv, Restart
  PROVE  ShownInv' /\ TableChange
<1>1. PICK gone : job' = [j \in Slots |-> IF j \in gone THEN NoJob ELSE job[j]]
  BY DEF Restart
<1>2. JobsFollow
  BY <1>1, JobStays, JobPassive DEF JobsFollow
<1>3. UNCHANGED row /\ HurtGrows
  BY DEF Restart, HurtGrows, SameHurt
<1> QED BY <1>2, <1>3, RowsSame, QuietStep

(***************************************************************************)
(* The theorems.                                                           *)
(***************************************************************************)
LEMMA ShownInit == Init => ShownInv /\ Table!Init
<1>1. SUFFICES ASSUME Init PROVE ShownInv /\ Table!Init
  OBVIOUS
<1>2. ShownInv
  BY <1>1 DEF Init, ShownInv, Flying
<1>3. \A d \in Devices : StateOf(d) = "NONE" /\ AddressOf(d) = 0
  BY <1>1 DEF Init, StateOf, AddressOf, Exists, NoRow
<1> QED BY <1>1, <1>2, <1>3 DEF Init, Table!Init, Hurt

LEMMA ShownStep ==
  TypeOK /\ TypeOK' /\ LateInv /\ HeldInv /\ ShownInv /\ [Next]_vars => ShownInv' /\ TableChange
<1> SUFFICES ASSUME TypeOK, TypeOK', LateInv, HeldInv, ShownInv, [Next]_vars
             PROVE  ShownInv' /\ TableChange
  OBVIOUS
<1>0. FirstOnce
  BY DEF HeldInv
<1>1. ASSUME NEW d \in Devices, DhcpHook(d) \/ Operator(d)
      PROVE  ShownInv' /\ TableChange
  BY <1>1, HookShown, OperatorShown
<1>2. ASSUME NEW j \in Slots, JobStep(j)
      PROVE  ShownInv' /\ TableChange
  BY <1>0, <1>2, DiscoveryShown, StepOneShown, PushShown, StepTwoShown, EraseShown DEF JobStep
<1>3. CASE Restart
  BY <1>3, RestartShown
<1>4. CASE UNCHANGED vars
  <2>1. JobsFollow /\ UNCHANGED row /\ HurtGrows
    BY <1>4, SameJobs DEF vars, hist, HurtGrows, SameHurt
  <2> QED BY <2>1, RowsSame, QuietStep
<1> QED BY <1>1, <1>2, <1>3, <1>4 DEF Next

LEMMA InvariantsHold == Spec => [](TypeOK /\ ClaimInv /\ LateInv /\ HeldInv)
<1>1. TypeOK /\ LateInv /\ [Next]_vars => LateInv'
  BY LateStep
<1> QED BY <1>1, TypeInit, TypeStep, ClaimInit, ClaimStep, LateInit, HeldInit, HeldStep, PTL DEF Spec

\* What jobs remember of their device is so when they use it (init_device_step2,
\* init_access_device_step1 read the state once and commit much later).
THEOREM JobsKnow == Spec => []ShownInv
BY InvariantsHold, ShownInit, ShownStep, PTL DEF Spec

\* The table shows every device going through its states in the order of
\* DeviceStates, in every interleaving of hooks, jobs, requests and restarts.
THEOREM RowsImplementStates == Spec => StatesKept
<1>1. TypeOK /\ TypeOK' /\ LateInv /\ HeldInv /\ ShownInv /\ [Next]_vars
        => [Table!Next]_<<[d \in Devices |-> StateOf(d)], [d \in Devices |-> AddressOf(d)], Hurt>>
  BY ShownStep DEF TableChange, StateMap, AddressMap
<1> QED BY <1>1, InvariantsHold, JobsKnow, ShownInit, PTL DEF Spec, StatesKept, Table!Spec

(***************************************************************************)
(* What DeviceStates promises holds of the table.                          *)
(***************************************************************************)
LEMMA EnteredAddress ==
  ASSUME Table!AddressedFromInit, Hurt' = Hurt, NEW d \in Devices, NEW s, NEW a, Table!Enter(d, s, a),
         d \notin Hurt => (a # 0 <=> s \in {"INIT"} \cup Table!InService)
  PROVE  Table!AddressedFromInit'
<1>1. \A e \in Devices : /\ StateOf(e)' = IF e = d THEN s ELSE StateOf(e)
                         /\ AddressOf(e)' = IF e = d THEN a ELSE AddressOf(e)
  <2>1. /\ StateMap' = [StateMap EXCEPT ![d] = s]
        /\ AddressMap' = [AddressMap EXCEPT ![d] = a]
    BY DEF Table!Enter, StateMap, AddressMap
  <2>2. \A e \in Devices : /\ StateMap'[e] = IF e = d THEN s ELSE StateMap[e]
                           /\ AddressMap'[e] = IF e = d THEN a ELSE AddressMap[e]
    BY <2>1 DEF StateMap, AddressMap
  <2> QED BY <2>2 DEF StateMap, AddressMap
<1> QED BY <1>1 DEF Table!AddressedFromInit, Table!InService

LEMMA AddressedChange ==
  ASSUME Table!AddressedFromInit, Hurt' = Hurt, NEW d \in Devices, Table!Change(d)
  PROVE  Table!AddressedFromInit'
<1> USE DEF Table!InService
<1>0. /\ \A a \in Pool : a # 0
      /\ d \notin Hurt => (AddressOf(d) # 0 <=> StateOf(d) \in {"INIT"} \cup Table!InService)
  BY PoolAssumption DEF Table!AddressedFromInit
<1>1. CASE Table!Boot(d) \/ Table!Remove(d)
  BY <1>1, EnteredAddress DEF Table!Boot, Table!Remove
<1>2. CASE Table!Discover(d)
  BY <1>0, <1>2, EnteredAddress DEF Table!Discover, Table!From
<1>3. CASE Table!Manage(d)
  BY <1>0, <1>3, EnteredAddress DEF Table!Manage, Table!From
<1>4. CASE Table!Unmanage(d)
  BY <1>0, <1>4, EnteredAddress DEF Table!Unmanage
<1>5. CASE \E a \in Pool : Table!Add(d, a) \/ Table!Initialise(d, a)
  BY <1>0, <1>5, EnteredAddress DEF Table!Add, Table!Initialise
<1> QED BY <1>1, <1>2, <1>3, <1>4, <1>5 DEF Table!Change

LEMMA AddressedStep ==
  ASSUME Table!AddressedFromInit, TableChange
  PROVE  Table!AddressedFromInit'
<1>1. CASE UNCHANGED <<StateMap, AddressMap, Hurt>>
  BY <1>1 DEF Table!AddressedFromInit, StateMap, AddressMap
<1>2. ASSUME NEW d \in Devices, Table!Change(d), Hurt' = Hurt
      PROVE  Table!AddressedFromInit'
  BY <1>2, AddressedChange
<1>3. ASSUME NEW d \in Devices, Hurt' = Hurt \cup {d}, UNCHANGED <<StateMap, AddressMap>>
      PROVE  Table!AddressedFromInit'
  BY <1>3 DEF Table!AddressedFromInit, StateMap, AddressMap
<1>4. CASE Table!Next
  <2>1. CASE Hurt' = Hurt /\ \E d \in Devices : Table!Change(d)
    BY <1>2, <2>1
  <2>2. CASE \E d \in Devices : Hurt' = Hurt \cup {d} /\ UNCHANGED <<StateMap, AddressMap>>
    BY <1>3, <2>2
  <2> QED BY <1>4, <2>1, <2>2 DEF Table!Next, StateMap, AddressMap
<1> QED BY <1>1, <1>4 DEF TableChange

\* A device whose steps were not taken twice has a management address exactly from
\* INIT on: none to be found by before its first step is over, and never none after
\* that until its row goes (init_access_device_step1, Device.management_ip).
THEOREM AddressFromInit == Spec => []Table!AddressedFromInit
<1>1. Table!Init => Table!AddressedFromInit
  BY DEF Table!Init, Table!AddressedFromInit, Table!InService
<1>2. Table!AddressedFromInit /\ [Table!Next]_<<[d \in Devices |-> StateOf(d)], [d \in Devices |-> AddressOf(d)], Hurt>>
        => Table!AddressedFromInit'
  BY AddressedStep DEF TableChange, StateMap, AddressMap
<1> QED BY <1>1, <1>2, RowsImplementStates, PTL DEF StatesKept, Table!Spec
=============================================================================
