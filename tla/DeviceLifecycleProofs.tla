------------------------ MODULE DeviceLifecycleProofs ------------------------
(***************************************************************************)
(* Theorems about DeviceLifecycle, for any switches and addresses, any     *)
(* number of jobs, of rows and of requests.                                *)
(***************************************************************************)
EXTENDS DeviceLifecycle, TLAPS

(***************************************************************************)
(* The variables keep their types.                                         *)
(***************************************************************************)
Ats == {"wait", "facts", "store", "checked", "chosen", "reserved", "moved", "refused", "next", "wipe", "delete"}

LEMMA JobFacts ==
  ASSUME TypeOK, NEW j \in Slots, NEW kinds, NEW at, At(j, kinds, at)
  PROVE  /\ job[j] \in Job /\ job[j].kind \in kinds /\ job[j].at = at
         /\ job[j].dev \in Devices
BY DEF TypeOK, At, Job

LEMMA RowFacts ==
  ASSUME TypeOK, NEW d \in Devices
  PROVE  Exists(d) <=> row[d] \in Row
<1>1. row[d] \in Row \/ row[d] = NoRow
  BY DEF TypeOK
<1>2. \A r \in Row : r.id # 0
  BY DEF Row
<1> QED BY <1>1, <1>2 DEF Exists, NoRow

\* A job that is set to another stage, or ends.
LEMMA JobTyped ==
  ASSUME TypeOK, NEW j, NEW x \in Job \cup {NoJob}, job' = [job EXCEPT ![j] = x]
  PROVE  job' \in [Slots -> Job \cup {NoJob}]
BY DEF TypeOK

LEMMA GoTyped ==
  ASSUME TypeOK, NEW j \in Slots, job[j] # NoJob, NEW at \in Ats, Go(j, at)
  PROVE  job' \in [Slots -> Job \cup {NoJob}]
<1>1. [job[j] EXCEPT !.at = at] \in Job
  BY DEF TypeOK, Job, Ats
<1> QED BY <1>1, JobTyped DEF Go

LEMMA EndTyped ==
  ASSUME TypeOK, NEW j \in Slots, End(j)
  PROVE  job' \in [Slots -> Job \cup {NoJob}]
BY JobTyped DEF End

LEMMA NewTyped ==
  ASSUME NEW kind \in {"discover", "ACCESS", "FABRIC", "step2", "erase", "post"},
         NEW d \in Devices, NEW id \in 0..MaxRows, NEW it \in 0..3, NEW peer \in Devices \cup {None}
  PROVE  /\ New(kind, d, id, it, peer) \in Job /\ New(kind, d, id, it, peer) # NoJob
         /\ New(kind, d, id, it, peer).at = "wait" /\ New(kind, d, id, it, peer).dev = d
         /\ New(kind, d, id, it, peer).kind = kind /\ New(kind, d, id, it, peer).id = id
BY DEF New, Job, Address, NoJob

\* A row that is set to another one.
LEMMA RowTyped ==
  ASSUME TypeOK, NEW d, NEW r \in Row \cup {NoRow}, Store(d, r)
  PROVE  row' \in [Devices -> Row \cup {NoRow}]
BY DEF TypeOK, Store

LEMMA RowFields ==
  ASSUME NEW r \in Row, NEW s \in States, NEW a \in Address, NEW t \in {"UNKNOWN", "ACCESS", "FABRIC"},
         NEW b \in BOOLEAN
  PROVE  /\ [r EXCEPT !.state = s] \in Row
         /\ [r EXCEPT !.resv = a] \in Row
         /\ [r EXCEPT !.resv = a, !.renamed = b] \in Row
         /\ [r EXCEPT !.renamed = b, !.resv = a] \in Row
         /\ [r EXCEPT !.mgmt = a, !.state = s, !.type = t, !.resv = 0] \in Row
         /\ [r EXCEPT !.state = s, !.type = t, !.renamed = b, !.mgmt = a] \in Row
BY DEF Row, Address

LEMMA IdTyped ==
  ASSUME TypeOK, NEW d \in Devices, Exists(d)
  PROVE  row[d].id \in 0..MaxRows
BY RowFacts, BoundsAssumption DEF Row

LEMMA EventsTyped ==
  ASSUME events \in 0..MaxEvents, Request
  PROVE  events' \in 0..MaxEvents
BY BoundsAssumption DEF Request

LEMMA TypeInit == Init => TypeOK
BY BoundsAssumption DEF Init, TypeOK, Address

LEMMA HookTypes ==
  ASSUME TypeOK, NEW d \in Devices, DhcpHook(d)
  PROVE  TypeOK'
<1>1. CASE ~Exists(d) /\ rows[d] < MaxRows /\ rows' = [rows EXCEPT ![d] = @ + 1] /\ Store(d, NewRow(d)) /\ UNCHANGED job
  <2>1. rows[d] \in 0..MaxRows /\ rows[d] + 1 \in 1..MaxRows
    BY <1>1, BoundsAssumption DEF TypeOK
  <2>2. NewRow(d) \in Row /\ rows' \in [Devices -> 0..MaxRows]
    BY <1>1, <2>1 DEF NewRow, Row, States, Address, TypeOK
  <2>3. row' \in [Devices -> Row \cup {NoRow}]
    BY <1>1, <2>2, RowTyped
  <2> QED BY <1>1, <2>2, <2>3 DEF DhcpHook, TypeOK, hist
<1>2. CASE /\ UNCHANGED <<row, rows>>
           /\ \E i \in Free : job' = [job EXCEPT ![i] = New("discover", d, 0, 1, None)]
  <2>1. New("discover", d, 0, 1, None) \in Job
    BY NewTyped, BoundsAssumption
  <2>2. job' \in [Slots -> Job \cup {NoJob}]
    BY <1>2, <2>1, JobTyped
  <2> QED BY <1>2, <2>2 DEF DhcpHook, TypeOK, hist
<1> QED BY <1>1, <1>2 DEF DhcpHook

LEMMA DiscoveryTypes ==
  ASSUME TypeOK, NEW j \in Slots,
         DiscoverStart(j) \/ DiscoverFails(j) \/ DiscoverFacts(j) \/ DiscoverStore(j)
  PROVE  TypeOK'
<1>2. CASE DiscoverStart(j)
  <2>1. At(j, {"discover"}, "wait") /\ job[j].dev \in Devices /\ job[j] # NoJob
    BY <1>2, JobFacts DEF DiscoverStart, At
  <2>2. job' \in [Slots -> Job \cup {NoJob}]
    BY <1>2, <2>1, GoTyped, EndTyped DEF DiscoverStart, Ats
  <2>3. overlap' \subseteq Devices
    BY <1>2, <2>1 DEF DiscoverStart, TypeOK
  <2> QED BY <1>2, <2>2, <2>3 DEF DiscoverStart, TypeOK
<1>3. CASE DiscoverFails(j)
  <2>1. job[j] \in Job
    BY <1>3, JobFacts DEF DiscoverFails
  <2>2. job[j].it < 3 => New("discover", job[j].dev, 0, job[j].it + 1, None) \in Job
    BY <2>1, BoundsAssumption DEF Job, New, Address
  <2>3. job' \in [Slots -> Job \cup {NoJob}]
    BY <1>3, <2>1, <2>2, JobTyped, EndTyped DEF DiscoverFails
  <2> QED BY <1>3, <2>3 DEF DiscoverFails, TypeOK, hist
<1>4. CASE DiscoverFacts(j)
  BY <1>4, GoTyped DEF DiscoverFacts, At, Ats, TypeOK, hist
<1>5. CASE DiscoverStore(j)
  <2>1. job[j].dev \in Devices
    BY <1>5, JobFacts DEF DiscoverStore
  <2>2. row' \in [Devices -> Row \cup {NoRow}]
    BY <1>5, <2>1, RowFacts, RowFields, RowTyped DEF DiscoverStore, TypeOK, States, Address
  <2> QED BY <1>5, <2>2, EndTyped DEF DiscoverStore, TypeOK, hist
<1> QED BY <1>2, <1>3, <1>4, <1>5

\* The reservations of existing rows are cleared.
LEMMA CleanTyped ==
  ASSUME TypeOK, NEW cleared, \A e \in cleared : Exists(e)
  PROVE  Clean(cleared) \in [Devices -> Row \cup {NoRow}]
<1> SUFFICES ASSUME NEW e \in Devices
             PROVE  (IF e \in cleared THEN [row[e] EXCEPT !.resv = 0] ELSE row[e]) \in Row \cup {NoRow}
  BY DEF Clean
<1>1. CASE e \in cleared
  <2>1. row[e] \in Row
    BY <1>1, RowFacts
  <2>2. [row[e] EXCEPT !.resv = 0] \in Row
    BY <2>1 DEF Row, Address
  <2> QED BY <1>1, <2>2
<1>2. CASE e \notin cleared
  BY <1>2 DEF TypeOK
<1> QED BY <1>1, <1>2

LEMMA ChooseTypes ==
  ASSUME TypeOK, NEW j \in Slots, job[j] # NoJob, NEW cleared \in SUBSET Devices,
         \A e \in cleared : Exists(e), Choose(j, cleared)
  PROVE  TypeOK'
<1> DEFINE table == Clean(cleared)
<1>1. row' = table
  BY DEF Choose
<1>2. table \in [Devices -> Row \cup {NoRow}]
  BY CleanTyped
<1>3. \A a \in FirstFree(table) : a \in Pool
  BY DEF FirstFree, FreeAddresses
<1>4. job[j] \in Job
  BY DEF TypeOK
<1> DEFINE x(a) == [job[j] EXCEPT !.at = "chosen", !.addr = a]
<1>5. \A a \in Pool : x(a) \in Job
  BY <1>4 DEF Job, Address
<1>6. \A a : Choosers(j, a) \subseteq Devices
  BY DEF Choosers, Others, TypeOK, Job
<1>7. \/ End(j) /\ UNCHANGED raced
      \/ \E a \in FirstFree(table) : /\ job' = [job EXCEPT ![j] = x(a)]
                                     /\ raced' = raced \cup {{job[j].dev, e} : e \in Choosers(j, a)}
  BY DEF Choose
<1>8. job' \in [Slots -> Job \cup {NoJob}] /\ raced' \subseteq SUBSET Devices
  <2>1. CASE End(j) /\ UNCHANGED raced
    BY <2>1, EndTyped DEF TypeOK
  <2>2. ASSUME NEW a \in FirstFree(table), job' = [job EXCEPT ![j] = x(a)],
               raced' = raced \cup {{job[j].dev, e} : e \in Choosers(j, a)}
        PROVE  job' \in [Slots -> Job \cup {NoJob}] /\ raced' \subseteq SUBSET Devices
    <3>1. x(a) \in Job
      BY <1>3, <1>5
    <3>2. job' \in [Slots -> Job \cup {NoJob}]
      <4> HIDE DEF x, table
      <4> QED BY <2>2, <3>1, JobTyped
    <3>3. job[j].dev \in Devices /\ Choosers(j, a) \subseteq Devices
      BY <1>4, <1>6 DEF Job
    <3>4. raced' \subseteq SUBSET Devices
      <4> HIDE DEF table
      <4> QED BY <2>2, <3>3 DEF TypeOK
    <3> QED BY <3>2, <3>4
  <2> HIDE DEF x, table
  <2> QED BY <1>7, <2>1, <2>2
<1>9. lost' \subseteq Devices
  BY DEF Choose, TypeOK
<1> HIDE DEF table
<1> QED BY <1>1, <1>2, <1>8, <1>9 DEF Choose, TypeOK

LEMMA ChoicesClear ==
  ASSUME TypeOK, NEW j \in Slots, At(j, FirstSteps, "checked"),
         NEW old \in {{}, Expired \ {job[j].dev}}
  PROVE  LET cleared == old \cup (IF ById(j) THEN {job[j].dev} ELSE {}) IN
         cleared \in SUBSET Devices /\ \A e \in cleared : Exists(e)
BY JobFacts DEF ById, Expired

LEMMA StepOneTypes ==
  ASSUME TypeOK, NEW j \in Slots,
         \/ StepOneStart(j) \/ StepOneRefused(j) \/ InitMlagPeerOnly(j) \/ StepOneChoose(j)
         \/ StepOneReserve(j) \/ StepOneSettings(j)
  PROVE  TypeOK'
<1>1. CASE StepOneStart(j)
  <2>1. job[j].dev \in Devices /\ job[j] # NoJob
    BY <1>1, JobFacts DEF StepOneStart, At
  <2>2. job' \in [Slots -> Job \cup {NoJob}]
    BY <1>1, <2>1, GoTyped DEF StepOneStart, Ats
  <2>3. twice' \subseteq Devices
    BY <1>1, <2>1 DEF StepOneStart, TypeOK
  <2> QED BY <1>1, <2>2, <2>3 DEF StepOneStart, TypeOK
<1>2. CASE StepOneRefused(j) \/ StepOneSettings(j)
  BY <1>2, EndTyped DEF StepOneRefused, StepOneSettings, TypeOK, hist
<1>3. CASE InitMlagPeerOnly(j)
  <2>1. job[j].peer \in Devices
    BY <1>3, JobFacts DEF InitMlagPeerOnly, Job
  <2>2. New("ACCESS", job[j].peer, row[job[j].peer].id, 0, None) \in Job
    BY <1>3, <2>1, IdTyped, NewTyped DEF InitMlagPeerOnly, Ready
  <2>3. job' \in [Slots -> Job \cup {NoJob}]
    BY <1>3, <2>2, JobTyped DEF InitMlagPeerOnly
  <2> QED BY <1>3, <2>3 DEF InitMlagPeerOnly, TypeOK, hist
<1>4. CASE StepOneChoose(j)
  BY <1>4, ChooseTypes, ChoicesClear DEF StepOneChoose, At
<1>5. CASE StepOneReserve(j)
  <2>1. job[j] \in Job /\ job[j] # NoJob /\ job[j].dev \in Devices /\ job[j].addr \in Address
    BY <1>5, JobFacts DEF StepOneReserve, At, Job
  <2>2. ById(j) => row[job[j].dev] \in Row
    BY <2>1, RowFacts DEF ById
  <2>3. row' \in [Devices -> Row \cup {NoRow}]
    <3>1. ById(j) => [row[job[j].dev] EXCEPT !.resv = job[j].addr, !.renamed = TRUE] \in Row
      BY <2>1, <2>2 DEF Row
    <3> QED BY <1>5, <3>1, RowTyped DEF StepOneReserve, TypeOK
  <2>4. job' \in [Slots -> Job \cup {NoJob}]
    BY <1>5, <2>1, GoTyped, EndTyped DEF StepOneReserve, Ats
  <2> QED BY <1>5, <2>3, <2>4 DEF StepOneReserve, TypeOK, hist
<1> QED BY <1>1, <1>2, <1>3, <1>4, <1>5

LEMMA PushTypes ==
  ASSUME TypeOK, NEW j \in Slots,
         PushBaseManagement(j) \/ StepOneCommit(j) \/ StepOneRollback(j) \/ StepOneNext(j)
  PROVE  TypeOK'
<1>1. CASE PushBaseManagement(j)
  <2>1. job[j] # NoJob /\ job[j].addr \in Address
    BY <1>1, JobFacts DEF PushBaseManagement, At, Job
  <2>2. job' \in [Slots -> Job \cup {NoJob}]
    BY <1>1, <2>1, GoTyped DEF PushBaseManagement, Moved, Refused, Ats
  <2>3. plant' \in [Devices -> Address]
    BY <1>1, <2>1 DEF PushBaseManagement, TypeOK
  <2> QED BY <1>1, <2>2, <2>3 DEF PushBaseManagement, TypeOK, hist
<1>2. CASE StepOneCommit(j)
  <2>1. /\ job[j] # NoJob /\ job[j].addr \in Address /\ job[j].dev \in Devices
        /\ job[j].kind \in {"ACCESS", "FABRIC"}
    BY <1>2, JobFacts DEF StepOneCommit, At, Job, FirstSteps
  <2>2. ById(j) => row[job[j].dev] \in Row
    BY <2>1, RowFacts DEF ById
  <2>3. ById(j) => Initialised(job[j].dev, job[j].kind, job[j].addr) \in Row
    BY <2>1, <2>2 DEF Initialised, Row, States, Address
  <2>4. row' \in [Devices -> Row \cup {NoRow}]
    BY <1>2, <2>3, RowTyped DEF StepOneCommit, TypeOK
  <2>5. job' \in [Slots -> Job \cup {NoJob}]
    BY <1>2, <2>1, GoTyped, EndTyped DEF StepOneCommit, Ats
  <2>6. stuck' \subseteq Devices
    BY <1>2 DEF StepOneCommit, TypeOK
  <2> QED BY <1>2, <2>4, <2>5, <2>6 DEF StepOneCommit, TypeOK
<1>3. CASE StepOneRollback(j)
  <2>1. job[j].dev \in Devices
    BY <1>3, JobFacts DEF StepOneRollback
  <2>2. ById(j) => [row[job[j].dev] EXCEPT !.renamed = FALSE, !.resv = 0] \in Row
    BY <2>1, RowFacts DEF ById, Row, Address
  <2>3. row' \in [Devices -> Row \cup {NoRow}]
    BY <1>3, <2>2, RowTyped DEF StepOneRollback, TypeOK
  <2> QED BY <1>3, <2>3, EndTyped DEF StepOneRollback, TypeOK, hist
<1>4. CASE StepOneNext(j)
  <2>1. job[j].dev \in Devices /\ job[j].id \in 0..MaxRows /\ job[j].peer \in Devices \cup {None}
    BY <1>4, JobFacts DEF StepOneNext, Job
  <2> DEFINE x == New("step2", job[j].dev, job[j].id, 1, None)
             p == job[j].peer
             y == New("ACCESS", p, row[p].id, 0, None)
  <2>2. x \in Job
    BY <2>1, NewTyped
  <2>3. p # None /\ Exists(p) => y \in Job
    BY <2>1, IdTyped, NewTyped
  <2>4. \/ job' = [job EXCEPT ![j] = x]
        \/ p # None /\ Exists(p) /\ \E k \in Free : job' = [job EXCEPT ![j] = x, ![k] = y]
    BY <1>4 DEF StepOneNext
  <2>5. job' \in [Slots -> Job \cup {NoJob}]
    <3> HIDE DEF x, y
    <3> QED BY <2>2, <2>3, <2>4 DEF TypeOK
  <2> QED BY <1>4, <2>5 DEF StepOneNext, TypeOK, hist
<1> QED BY <1>1, <1>2, <1>3, <1>4

LEMMA StepTwoTypes ==
  ASSUME TypeOK, NEW j \in Slots,
         StepTwoStart(j) \/ StepTwoFails(j) \/ StepTwoFacts(j) \/ StepTwoStore(j)
  PROVE  TypeOK'
<1>1. CASE StepTwoStart(j)
  BY <1>1, GoTyped, EndTyped DEF StepTwoStart, At, Ats, TypeOK, hist
<1>2. CASE StepTwoFails(j)
  <2>1. job[j] \in Job /\ job[j].dev \in Devices
    BY <1>2, JobFacts DEF StepTwoFails
  <2>2. Again(job[j].it) => New("step2", job[j].dev, job[j].id, job[j].it + 1, None) \in Job
    BY <2>1 DEF Job, New, Address, Again
  <2>3. job' \in [Slots -> Job \cup {NoJob}]
    BY <1>2, <2>1, <2>2, JobTyped, EndTyped DEF StepTwoFails
  <2>4. stuck' \subseteq Devices
    BY <1>2, <2>1 DEF StepTwoFails, TypeOK
  <2> QED BY <1>2, <2>3, <2>4 DEF StepTwoFails, TypeOK
<1>3. CASE StepTwoFacts(j)
  <2>1. job[j].dev \in Devices /\ job[j] # NoJob
    BY <1>3, JobFacts DEF StepTwoFacts, At
  <2>2. job' \in [Slots -> Job \cup {NoJob}]
    BY <1>3, <2>1, GoTyped, EndTyped DEF StepTwoFacts, Ats
  <2>3. stuck' \subseteq Devices
    BY <1>3, <2>1 DEF StepTwoFacts, TypeOK
  <2> QED BY <1>3, <2>2, <2>3 DEF StepTwoFacts, TypeOK
<1>4. CASE StepTwoStore(j)
  <2>1. job[j].dev \in Devices
    BY <1>4, JobFacts DEF StepTwoStore
  <2>2. ById(j) => [row[job[j].dev] EXCEPT !.state = "MANAGED"] \in Row
    BY <2>1, RowFacts DEF ById, Row, States
  <2>3. row' \in [Devices -> Row \cup {NoRow}]
    BY <1>4, <2>2, RowTyped DEF StepTwoStore, TypeOK
  <2> QED BY <1>4, <2>3, EndTyped DEF StepTwoStore, TypeOK, hist
<1> QED BY <1>1, <1>2, <1>3, <1>4

LEMMA EraseTypes ==
  ASSUME TypeOK, NEW j \in Slots,
         EraseStart(j) \/ EraseTask(j) \/ EraseDelete(j) \/ PostChoose(j) \/ PostStore(j)
  PROVE  TypeOK'
<1>1. CASE EraseStart(j)
  BY <1>1, GoTyped, EndTyped DEF EraseStart, At, Ats, TypeOK, hist
<1>2. CASE EraseTask(j)
  <2>1. job[j].dev \in Devices /\ job[j] # NoJob
    BY <1>2, JobFacts DEF EraseTask, At
  <2>2. job' \in [Slots -> Job \cup {NoJob}]
    BY <1>2, <2>1, GoTyped, EndTyped DEF EraseTask, Ats
  <2>3. plant' \in [Devices -> Address] /\ lost' \subseteq Devices
    BY <1>2, <2>1 DEF EraseTask, TypeOK, Address
  <2> QED BY <1>2, <2>2, <2>3 DEF EraseTask, TypeOK
<1>3. CASE EraseDelete(j)
  <2>1. row' \in [Devices -> Row \cup {NoRow}]
    BY <1>3, RowTyped DEF EraseDelete, TypeOK
  <2> QED BY <1>3, <2>1, EndTyped DEF EraseDelete, TypeOK, hist
<1>4. CASE PostChoose(j)
  BY <1>4, ChooseTypes DEF PostChoose, At
<1>5. CASE PostStore(j)
  <2>1. job[j].dev \in Devices /\ job[j].addr \in Address
    BY <1>5, JobFacts DEF PostStore, Job
  <2> DEFINE d == job[j].dev
             r == [NewRow(d) EXCEPT !.state = "MANAGED", !.type = "FABRIC", !.renamed = TRUE, !.mgmt = job[j].addr]
  <2>2. rows[d] = 0 => r \in Row
    <3> SUFFICES ASSUME rows[d] = 0 PROVE r \in Row
      OBVIOUS
    <3>1. rows[d] + 1 \in 1..MaxRows
      BY BoundsAssumption
    <3>2. NewRow(d) \in Row
      BY <3>1 DEF NewRow, Row, States, Address
    <3>3. \A n \in Row : [n EXCEPT !.state = "MANAGED", !.type = "FABRIC", !.renamed = TRUE, !.mgmt = job[j].addr] \in Row
      BY <2>1 DEF Row, States
    <3> QED BY <3>2, <3>3
  <2>3. \/ UNCHANGED <<row, rows, plant>>
        \/ /\ rows[d] = 0 /\ rows' = [rows EXCEPT ![d] = 1] /\ Store(d, r)
           /\ plant' = [plant EXCEPT ![d] = job[j].addr]
    BY <1>5 DEF PostStore
  <2>4. row' \in [Devices -> Row \cup {NoRow}]
    <3> HIDE DEF r, d
    <3> QED BY <2>2, <2>3, RowTyped DEF TypeOK
  <2>5. rows' \in [Devices -> 0..MaxRows] /\ plant' \in [Devices -> Address]
    <3> HIDE DEF r
    <3> QED BY <2>1, <2>3, BoundsAssumption DEF TypeOK
  <2> QED BY <1>5, <2>4, <2>5, EndTyped DEF PostStore, TypeOK, hist
<1> QED BY <1>1, <1>2, <1>3, <1>4, <1>5

LEMMA OperatorTypes ==
  ASSUME TypeOK, NEW d \in Devices, Operator(d)
  PROVE  TypeOK'
<1>1. ASSUME Exists(d) PROVE row[d] \in Row /\ row[d].id \in 0..MaxRows
  BY <1>1, RowFacts, IdTyped
<1>2. ASSUME NEW kind \in FirstSteps, NEW peer \in Devices \cup {None}, DeviceInit(d, kind, peer)
      PROVE  TypeOK'
  <2>1. \A x \in {New("step2", d, row[d].id, 1, None), New(kind, d, row[d].id, 0, peer)} : x \in Job
    BY <1>1, <1>2, NewTyped DEF DeviceInit, FirstSteps
  <2>2. \E j \in Free, x \in {New("step2", d, row[d].id, 1, None), New(kind, d, row[d].id, 0, peer)} :
          job' = [job EXCEPT ![j] = x]
    BY <1>2 DEF DeviceInit
  <2>3. job' \in [Slots -> Job \cup {NoJob}]
    BY <2>1, <2>2, JobTyped
  <2>4. stuck' \subseteq Devices
    BY <1>2 DEF DeviceInit, TypeOK
  <2>5. events' \in 0..MaxEvents
    BY <1>2, EventsTyped DEF DeviceInit, TypeOK
  <2> QED BY <1>2, <2>3, <2>4, <2>5 DEF DeviceInit, TypeOK
<1>3. CASE PutState(d)
  <2>1. row[d] \in Row
    BY <1>1, <1>3 DEF PutState
  <2>2. [row[d] EXCEPT !.state = "UNMANAGED"] \in Row /\ [row[d] EXCEPT !.state = "MANAGED"] \in Row
    BY <2>1 DEF Row, States
  <2>3. row' \in [Devices -> Row \cup {NoRow}]
    BY <1>3, <2>2, RowTyped DEF PutState
  <2>4. events' \in 0..MaxEvents
    BY <1>3, EventsTyped DEF PutState, TypeOK
  <2> QED BY <1>3, <2>3, <2>4 DEF PutState, TypeOK, hist
<1>4. CASE DeleteDevice(d)
  <2>1. row' \in [Devices -> Row \cup {NoRow}]
    BY <1>4, RowTyped DEF DeleteDevice
  <2>2. events' \in 0..MaxEvents /\ lost' \subseteq Devices
    BY <1>4, EventsTyped DEF DeleteDevice, TypeOK
  <2> QED BY <1>4, <2>1, <2>2 DEF DeleteDevice, TypeOK
<1>5. CASE FactoryDefault(d)
  <2>1. New("erase", d, row[d].id, 0, None) \in Job
    BY <1>1, <1>5, NewTyped DEF FactoryDefault
  <2>2. job' \in [Slots -> Job \cup {NoJob}] /\ events' \in 0..MaxEvents
    BY <1>5, <2>1, JobTyped, EventsTyped DEF FactoryDefault, TypeOK
  <2> QED BY <1>5, <2>2 DEF FactoryDefault, TypeOK, hist
<1>6. CASE AddFabric(d)
  <2>1. New("post", d, 0, 0, None) \in Job
    BY NewTyped, BoundsAssumption
  <2>2. job' \in [Slots -> Job \cup {NoJob}] /\ events' \in 0..MaxEvents
    BY <1>6, <2>1, JobTyped, EventsTyped DEF AddFabric, TypeOK
  <2> QED BY <1>6, <2>2 DEF AddFabric, TypeOK, hist
<1> QED BY <1>2, <1>3, <1>4, <1>5, <1>6 DEF Operator

LEMMA RestartTypes ==
  ASSUME TypeOK, Restart
  PROVE  TypeOK'
<1>1. PICK gone \in SUBSET (Slots \ Free) :
        /\ job' = [j \in Slots |-> IF j \in gone THEN NoJob ELSE job[j]]
        /\ stuck' = stuck \cup {job[j].dev : j \in gone}
        /\ lost' = lost \cup {job[j].dev : j \in {k \in gone : At(k, {"erase"}, "delete")}}
  BY DEF Restart
<1>2. \A j \in gone : job[j].dev \in Devices
  BY DEF Free, TypeOK, Job
<1>3. job' \in [Slots -> Job \cup {NoJob}]
  BY <1>1 DEF TypeOK
<1>4. stuck' \subseteq Devices /\ lost' \subseteq Devices
  BY <1>1, <1>2 DEF TypeOK
<1>5. events' \in 0..MaxEvents
  BY EventsTyped DEF Restart, TypeOK
<1> QED BY <1>3, <1>4, <1>5 DEF Restart, TypeOK

LEMMA TypeStep == TypeOK /\ [Next]_vars => TypeOK'
<1> SUFFICES ASSUME TypeOK, [Next]_vars PROVE TypeOK'
  OBVIOUS
<1>1. ASSUME NEW d \in Devices, DhcpHook(d) PROVE TypeOK'
  BY <1>1, HookTypes
<1>2. ASSUME NEW j \in Slots, JobStep(j) PROVE TypeOK'
  BY <1>2, DiscoveryTypes, StepOneTypes, PushTypes, StepTwoTypes, EraseTypes DEF JobStep
<1>3. CASE UNCHANGED vars
  BY <1>3 DEF vars, hist, TypeOK
<1> QED BY <1>1, <1>2, <1>3, OperatorTypes, RestartTypes DEF Next

\* Every variable keeps its type (all handlers).
THEOREM TypeCorrect == Spec => []TypeOK
<1> QED BY TypeInit, TypeStep, PTL DEF Spec

(***************************************************************************)
(* Who shares an address.                                                  *)
(***************************************************************************)
\* A job that has chosen an address and goes on with it.
Flying(j) ==
  job[j] # NoJob /\ job[j].kind \in FirstSteps \cup {"post"} /\ job[j].at \in {"chosen", "reserved", "moved"}
Claims(d, a) == Holds(d, a) \/ \E j \in Slots : Flying(j) /\ job[j].dev = d /\ job[j].addr = a

\* The claims of two switches to one address arose while neither row held it.
ClaimInv ==
  \A d, e \in Devices, a \in Pool : (d # e /\ Claims(d, a) /\ Claims(e, a)) => {d, e} \in raced

LEMMA NoNewClaims ==
  ASSUME ClaimInv, raced \subseteq raced',
         \A d \in Devices, a \in Pool : Holds(d, a)' => Claims(d, a),
         \A i \in Slots : Flying(i)' => Flying(i) /\ job'[i].dev = job[i].dev /\ job'[i].addr = job[i].addr
  PROVE  ClaimInv'
<1>1. \A d \in Devices, a \in Pool : Claims(d, a)' => Claims(d, a)
  BY DEF Claims
<1> QED BY <1>1 DEF ClaimInv

\* Rows stay; one job changes, and takes up no address.
LEMMA JobsClaimNothing ==
  ASSUME TypeOK, ClaimInv, UNCHANGED <<row, raced>>, NEW j, NEW x, job' = [job EXCEPT ![j] = x],
         x = NoJob \/ x.kind \notin FirstSteps \cup {"post"} \/ x.at \notin {"chosen", "reserved", "moved"}
  PROVE  ClaimInv'
<1>1. \A i \in Slots : job'[i] = IF i = j THEN x ELSE job[i]
  BY DEF TypeOK
<1>2. \A i \in Slots : Flying(i)' => Flying(i) /\ job'[i].dev = job[i].dev /\ job'[i].addr = job[i].addr
  BY <1>1 DEF Flying
<1>3. \A d \in Devices, a \in Pool : Holds(d, a)' => Claims(d, a)
  BY DEF Holds, Exists, Claims
<1> QED BY <1>2, <1>3, NoNewClaims

LEMMA ChooseClaims ==
  ASSUME TypeOK, ClaimInv, NEW j \in Slots, job[j] # NoJob, NEW cleared \in SUBSET Devices,
         \A e \in cleared : Exists(e), Choose(j, cleared)
  PROVE  ClaimInv'
<1> DEFINE table == Clean(cleared)
           x(a) == [job[j] EXCEPT !.at = "chosen", !.addr = a]
           d == job[j].dev
<1>1. row' = table /\ raced \subseteq raced'
  BY DEF Choose
<1>2. \A e \in Devices : table[e] = IF e \in cleared THEN [row[e] EXCEPT !.resv = 0] ELSE row[e]
  BY DEF Clean
<1>3. \A e \in Devices, a \in Pool : Holds(e, a)' => Holds(e, a)
  <2> SUFFICES ASSUME NEW e \in Devices, NEW a \in Pool, Holds(e, a)' PROVE Holds(e, a)
    OBVIOUS
  <2>1. CASE e \notin cleared
    BY <2>1, <1>1, <1>2 DEF Holds, Exists
  <2>2. CASE e \in cleared
    <3>1. row[e] \in Row /\ row'[e] = [row[e] EXCEPT !.resv = 0]
      BY <2>2, <1>1, <1>2, RowFacts
    <3>2. row'[e].resv = 0 /\ row'[e].mgmt = row[e].mgmt /\ a # 0
      BY <3>1, PoolAssumption DEF Row
    <3> QED BY <2>2, <3>2 DEF Holds
  <2> QED BY <2>1, <2>2
<1>4. \/ End(j)
      \/ \E a \in FirstFree(table) : /\ job' = [job EXCEPT ![j] = x(a)]
                                     /\ raced' = raced \cup {{d, e} : e \in Choosers(j, a)}
  BY DEF Choose
<1>5. CASE End(j)
  <2>1. \A i \in Slots : Flying(i)' => Flying(i) /\ job'[i].dev = job[i].dev /\ job'[i].addr = job[i].addr
    BY <1>5 DEF End, TypeOK, Flying
  <2> QED BY <1>1, <1>3, <2>1, NoNewClaims DEF Claims
<1>6. ASSUME NEW a \in FirstFree(table), job' = [job EXCEPT ![j] = x(a)],
             raced' = raced \cup {{d, e} : e \in Choosers(j, a)}
      PROVE  ClaimInv'
  <2>1. a \in Pool /\ a \notin Taken(table)
    BY DEF FirstFree, FreeAddresses
  <2>2. \A e \in Devices : ~Holds(e, a)'
    <3> SUFFICES ASSUME NEW e \in Devices, Holds(e, a)' PROVE FALSE
      OBVIOUS
    <3>1. table[e] # NoRow
      BY <1>1 DEF Holds, Exists, NoRow
    <3> HIDE DEF table
    <3> QED BY <1>1, <2>1, <3>1 DEF Holds, Taken
  <2>3. job[j] \in Job /\ d \in Devices
    BY DEF TypeOK, Job
  <2>4. x(a).dev = d /\ x(a).addr = a
    BY <2>3 DEF Job
  <2>5. \A i \in Slots : job'[i] = IF i = j THEN x(a) ELSE job[i]
    BY <1>6 DEF TypeOK
  <2> HIDE DEF x, table, d
  <2>6. \A e \in Devices : (e # d /\ Claims(e, a)') => {d, e} \in raced'
    <3> SUFFICES ASSUME NEW e \in Devices, e # d, Claims(e, a)' PROVE {d, e} \in raced'
      OBVIOUS
    <3>1. PICK i \in Slots : Flying(i)' /\ job'[i].dev = e /\ job'[i].addr = a
      BY <2>2 DEF Claims
    <3>2. i # j /\ job'[i] = job[i]
      BY <2>4, <2>5, <3>1
    <3>3. e \in Choosers(j, a)
      BY <3>1, <3>2 DEF Choosers, Others, Flying
    <3> QED BY <1>6, <3>3
  <2>7. \A e \in Devices, b \in Pool : Claims(e, b)' => Claims(e, b) \/ (e = d /\ b = a)
    <3> SUFFICES ASSUME NEW e \in Devices, NEW b \in Pool, Claims(e, b)', e # d \/ b # a PROVE Claims(e, b)
      OBVIOUS
    <3>1. CASE Holds(e, b)'
      BY <3>1, <1>3 DEF Claims
    <3>2. ASSUME NEW i \in Slots, Flying(i)', job'[i].dev = e, job'[i].addr = b PROVE Claims(e, b)
      BY <2>4, <2>5, <3>2 DEF Claims, Flying
    <3> QED BY <3>1, <3>2 DEF Claims
  <2> QED BY <1>1, <2>6, <2>7 DEF ClaimInv
<1> HIDE DEF table, x, d
<1> QED BY <1>4, <1>5, <1>6

\* What goes on with an address has been going on with it.
Calm == \A i \in Slots : Flying(i)' => Flying(i) /\ job'[i].dev = job[i].dev /\ job'[i].addr = job[i].addr

LEMMA CalmSet ==
  ASSUME TypeOK, NEW j, NEW x, job' = [job EXCEPT ![j] = x],
         x = NoJob \/ x.kind \notin FirstSteps \cup {"post"} \/ x.at \notin {"chosen", "reserved", "moved"}
  PROVE  Calm
<1>1. \A i \in Slots : job'[i] = IF i = j THEN x ELSE job[i]
  BY DEF TypeOK
<1> QED BY <1>1 DEF Calm, Flying

LEMMA CalmGo ==
  ASSUME TypeOK, NEW j \in Slots, job[j] # NoJob, NEW at, Go(j, at), Flying(j) \/ at \notin {"chosen", "reserved", "moved"}
  PROVE  Calm
<1> DEFINE x == [job[j] EXCEPT !.at = at]
<1>1. job[j] \in Job
  BY DEF TypeOK
<1>2. x.at = at /\ x.dev = job[j].dev /\ x.addr = job[j].addr
  BY <1>1 DEF Job
<1>3. \A i \in Slots : job'[i] = IF i = j THEN x ELSE job[i]
  BY DEF TypeOK, Go
<1> HIDE DEF x
<1> QED BY <1>2, <1>3 DEF Calm, Flying

LEMMA CalmEnd ==
  ASSUME TypeOK, NEW j \in Slots, End(j)
  PROVE  Calm
BY CalmSet DEF End

\* The row that is stored holds nothing that its device did not claim.
LEMMA StoreClaims ==
  ASSUME TypeOK, ClaimInv, UNCHANGED raced, Calm, NEW d \in Devices, NEW r, Store(d, r),
         r = NoRow \/ \A a \in Pool : (r.mgmt = a \/ r.resv = a) => Claims(d, a)
  PROVE  ClaimInv'
<1>1. \A e \in Devices : row'[e] = IF e = d THEN r ELSE row[e]
  BY DEF Store, TypeOK
<1>2. \A e \in Devices, a \in Pool : Holds(e, a)' => Claims(e, a)
  <2> SUFFICES ASSUME NEW e \in Devices, NEW a \in Pool, Holds(e, a)' PROVE Claims(e, a)
    OBVIOUS
  <2>1. CASE e # d
    BY <2>1, <1>1 DEF Holds, Exists, Claims
  <2>2. CASE e = d
    BY <2>2, <1>1 DEF Holds, Exists, NoRow
  <2> QED BY <2>1, <2>2
<1> QED BY <1>2, NoNewClaims DEF Calm

LEMMA CalmClaims ==
  ASSUME TypeOK, ClaimInv, UNCHANGED <<row, raced>>, Calm
  PROVE  ClaimInv'
<1>1. \A e \in Devices, a \in Pool : Holds(e, a)' => Claims(e, a)
  BY DEF Holds, Exists, Claims
<1> QED BY <1>1, NoNewClaims DEF Calm

\* What a row holds is claimed.
LEMMA RowClaims ==
  ASSUME NEW d, Exists(d), NEW a, row[d].mgmt = a \/ row[d].resv = a
  PROVE  Claims(d, a)
BY DEF Claims, Holds

LEMMA HookClaims ==
  ASSUME TypeOK, ClaimInv, NEW d \in Devices, DhcpHook(d)
  PROVE  ClaimInv'
<1>1. CASE Store(d, NewRow(d)) /\ UNCHANGED job
  <2>1. Calm
    BY <1>1 DEF Calm, Flying
  <2>2. NewRow(d).mgmt = 0 /\ NewRow(d).resv = 0 /\ \A a \in Pool : a # 0
    BY PoolAssumption DEF NewRow
  <2>3. UNCHANGED raced
    BY DEF DhcpHook, hist
  <2> QED BY <1>1, <2>1, <2>2, <2>3, StoreClaims
<1>2. CASE /\ UNCHANGED row
           /\ \E i \in Free : job' = [job EXCEPT ![i] = New("discover", d, 0, 1, None)]
  <2>1. New("discover", d, 0, 1, None).at = "wait"
    BY DEF New
  <2>2. Calm
    BY <1>2, <2>1, CalmSet
  <2> QED BY <1>2, <2>2, CalmClaims DEF DhcpHook, hist
<1> QED BY <1>1, <1>2 DEF DhcpHook

LEMMA DiscoveryClaims ==
  ASSUME TypeOK, ClaimInv, NEW j \in Slots,
         DiscoverStart(j) \/ DiscoverFails(j) \/ DiscoverFacts(j) \/ DiscoverStore(j)
  PROVE  ClaimInv'
<1>1. CASE DiscoverStart(j) \/ DiscoverFacts(j)
  <2>1. Calm
    BY <1>1, CalmGo, CalmEnd DEF DiscoverStart, DiscoverFacts, At
  <2> QED BY <1>1, <2>1, CalmClaims DEF DiscoverStart, DiscoverFacts, hist
<1>2. CASE DiscoverFails(j)
  <2>1. New("discover", job[j].dev, 0, job[j].it + 1, None).at = "wait"
    BY DEF New
  <2>2. Calm
    BY <1>2, <2>1, CalmSet, CalmEnd DEF DiscoverFails
  <2> QED BY <1>2, <2>2, CalmClaims DEF DiscoverFails, hist
<1>3. CASE DiscoverStore(j)
  <2>1. Calm /\ UNCHANGED raced
    BY <1>3, CalmEnd DEF DiscoverStore, hist
  <2> DEFINE d == job[j].dev
             r == [row[d] EXCEPT !.state = "DISCOVERED"]
  <2>2. d \in Devices
    BY <1>3, JobFacts DEF DiscoverStore
  <2>3. CASE Exists(d)
    <3>1. Store(d, r)
      BY <1>3, <2>3 DEF DiscoverStore
    <3>2. row[d] \in Row
      BY <2>2, <2>3, RowFacts
    <3>3. r.mgmt = row[d].mgmt /\ r.resv = row[d].resv
      BY <3>2 DEF Row
    <3> HIDE DEF r, d
    <3> QED BY <2>1, <2>2, <2>3, <3>1, <3>3, StoreClaims, RowClaims
  <2>4. CASE ~Exists(d)
    BY <1>3, <2>1, <2>4, CalmClaims DEF DiscoverStore
  <2> QED BY <2>3, <2>4
<1> QED BY <1>1, <1>2, <1>3

LEMMA StepOneClaims ==
  ASSUME TypeOK, ClaimInv, NEW j \in Slots,
         \/ StepOneStart(j) \/ StepOneRefused(j) \/ InitMlagPeerOnly(j) \/ StepOneChoose(j)
         \/ StepOneReserve(j) \/ StepOneSettings(j)
  PROVE  ClaimInv'
<1>1. CASE StepOneStart(j)
  <2>1. Calm
    BY <1>1, CalmGo DEF StepOneStart, At
  <2> QED BY <1>1, <2>1, CalmClaims DEF StepOneStart
<1>2. CASE StepOneRefused(j) \/ StepOneSettings(j)
  <2>1. Calm
    BY <1>2, CalmEnd DEF StepOneRefused, StepOneSettings
  <2> QED BY <1>2, <2>1, CalmClaims DEF StepOneRefused, StepOneSettings, hist
<1>3. CASE InitMlagPeerOnly(j)
  <2>1. New("ACCESS", job[j].peer, row[job[j].peer].id, 0, None).at = "wait"
    BY DEF New
  <2>2. Calm
    BY <1>3, <2>1, CalmSet DEF InitMlagPeerOnly
  <2> QED BY <1>3, <2>2, CalmClaims DEF InitMlagPeerOnly, hist
<1>4. CASE StepOneChoose(j)
  BY <1>4, ChooseClaims, ChoicesClear DEF StepOneChoose, At
<1>5. CASE StepOneReserve(j)
  <2> DEFINE d == job[j].dev
             r == [row[d] EXCEPT !.resv = job[j].addr, !.renamed = TRUE]
  <2>1. d \in Devices /\ job[j] # NoJob /\ Flying(j)
    BY <1>5, JobFacts DEF StepOneReserve, At, Flying
  <2>2. Calm /\ UNCHANGED raced
    BY <1>5, <2>1, CalmGo, CalmEnd DEF StepOneReserve, hist
  <2>3. CASE ById(j) /\ Store(d, r)
    <3>1. row[d] \in Row
      BY <2>1, <2>3, RowFacts DEF ById
    <3>2. r.mgmt = row[d].mgmt /\ r.resv = job[j].addr
      BY <3>1 DEF Row
    <3>3. Claims(d, job[j].addr)
      BY <2>1 DEF Claims
    <3>4. \A a \in Pool : (r.mgmt = a \/ r.resv = a) => Claims(d, a)
      BY <2>3, <3>2, <3>3, RowClaims DEF ById
    <3> HIDE DEF r, d
    <3> QED BY <2>1, <2>2, <2>3, <3>4, StoreClaims
  <2>4. CASE UNCHANGED row
    BY <2>2, <2>4, CalmClaims
  <2> QED BY <1>5, <2>3, <2>4 DEF StepOneReserve
<1> QED BY <1>1, <1>2, <1>3, <1>4, <1>5

LEMMA PushClaims ==
  ASSUME TypeOK, ClaimInv, NEW j \in Slots,
         PushBaseManagement(j) \/ StepOneCommit(j) \/ StepOneRollback(j) \/ StepOneNext(j)
  PROVE  ClaimInv'
<1>1. CASE PushBaseManagement(j)
  <2>1. job[j] # NoJob /\ Flying(j)
    BY <1>1 DEF PushBaseManagement, At, Flying
  <2>2. Calm
    BY <1>1, <2>1, CalmGo DEF PushBaseManagement, Moved, Refused
  <2> QED BY <1>1, <2>2, CalmClaims DEF PushBaseManagement, hist
<1>2. CASE StepOneCommit(j)
  <2> DEFINE d == job[j].dev
             r == Initialised(d, job[j].kind, job[j].addr)
  <2>1. d \in Devices /\ job[j] # NoJob /\ Flying(j)
    BY <1>2, JobFacts DEF StepOneCommit, At, Flying
  <2>2. Calm /\ UNCHANGED raced
    BY <1>2, <2>1, CalmGo, CalmEnd DEF StepOneCommit
  <2>3. CASE ById(j) /\ Store(d, r)
    <3>1. row[d] \in Row
      BY <2>1, <2>3, RowFacts DEF ById
    <3>2. r.mgmt = job[j].addr /\ r.resv = 0
      BY <3>1 DEF Row, Initialised
    <3>3. Claims(d, job[j].addr)
      BY <2>1 DEF Claims
    <3>4. \A a \in Pool : (r.mgmt = a \/ r.resv = a) => Claims(d, a)
      BY <3>2, <3>3, PoolAssumption
    <3> HIDE DEF r, d
    <3> QED BY <2>1, <2>2, <2>3, <3>4, StoreClaims
  <2>4. CASE UNCHANGED row
    BY <2>2, <2>4, CalmClaims
  <2> QED BY <1>2, <2>3, <2>4 DEF StepOneCommit
<1>3. CASE StepOneRollback(j)
  <2> DEFINE d == job[j].dev
             r == [row[d] EXCEPT !.renamed = FALSE, !.resv = 0]
  <2>1. d \in Devices
    BY <1>3, JobFacts DEF StepOneRollback
  <2>2. Calm /\ UNCHANGED raced
    BY <1>3, CalmEnd DEF StepOneRollback, hist
  <2>3. CASE ById(j) /\ Store(d, r)
    <3>1. row[d] \in Row
      BY <2>1, <2>3, RowFacts DEF ById
    <3>2. r.mgmt = row[d].mgmt /\ r.resv = 0
      BY <3>1 DEF Row
    <3>3. \A a \in Pool : (r.mgmt = a \/ r.resv = a) => Claims(d, a)
      BY <2>3, <3>2, RowClaims, PoolAssumption DEF ById
    <3> HIDE DEF r, d
    <3> QED BY <2>1, <2>2, <2>3, <3>3, StoreClaims
  <2>4. CASE UNCHANGED row
    BY <2>2, <2>4, CalmClaims
  <2> QED BY <1>3, <2>3, <2>4 DEF StepOneRollback
<1>4. CASE StepOneNext(j)
  <2> DEFINE x == New("step2", job[j].dev, job[j].id, 1, None)
             p == job[j].peer
             y == New("ACCESS", p, row[p].id, 0, None)
  <2>1. x.at = "wait" /\ y.at = "wait"
    BY DEF New
  <2>2. \/ job' = [job EXCEPT ![j] = x]
        \/ \E k \in Free : job' = [job EXCEPT ![j] = x, ![k] = y]
    BY <1>4 DEF StepOneNext
  <2>3. \A i \in Slots : job'[i] \in {x, y, job[i]}
    <3> HIDE DEF x, y
    <3> QED BY <2>2 DEF TypeOK
  <2>4. Calm
    <3> HIDE DEF x, y
    <3> QED BY <2>1, <2>3 DEF Calm, Flying
  <2> QED BY <1>4, <2>4, CalmClaims DEF StepOneNext, hist
<1> QED BY <1>1, <1>2, <1>3, <1>4

LEMMA StepTwoClaims ==
  ASSUME TypeOK, ClaimInv, NEW j \in Slots,
         StepTwoStart(j) \/ StepTwoFails(j) \/ StepTwoFacts(j) \/ StepTwoStore(j)
  PROVE  ClaimInv'
<1>1. CASE StepTwoStart(j)
  <2>1. Calm
    BY <1>1, CalmGo, CalmEnd DEF StepTwoStart, At
  <2> QED BY <1>1, <2>1, CalmClaims DEF StepTwoStart, hist
<1>2. CASE StepTwoFails(j)
  <2>1. New("step2", job[j].dev, job[j].id, job[j].it + 1, None).at = "wait"
    BY DEF New
  <2>2. Calm
    BY <1>2, <2>1, CalmSet, CalmEnd DEF StepTwoFails
  <2> QED BY <1>2, <2>2, CalmClaims DEF StepTwoFails
<1>3. CASE StepTwoFacts(j)
  <2>1. Calm
    BY <1>3, CalmGo, CalmEnd DEF StepTwoFacts, At
  <2> QED BY <1>3, <2>1, CalmClaims DEF StepTwoFacts
<1>4. CASE StepTwoStore(j)
  <2> DEFINE d == job[j].dev
             r == [row[d] EXCEPT !.state = "MANAGED"]
  <2>1. d \in Devices
    BY <1>4, JobFacts DEF StepTwoStore
  <2>2. Calm /\ UNCHANGED raced
    BY <1>4, CalmEnd DEF StepTwoStore, hist
  <2>3. CASE ById(j) /\ Store(d, r)
    <3>1. row[d] \in Row
      BY <2>1, <2>3, RowFacts DEF ById
    <3>2. r.mgmt = row[d].mgmt /\ r.resv = row[d].resv
      BY <3>1 DEF Row
    <3>3. \A a \in Pool : (r.mgmt = a \/ r.resv = a) => Claims(d, a)
      BY <2>3, <3>2, RowClaims DEF ById
    <3> HIDE DEF r, d
    <3> QED BY <2>1, <2>2, <2>3, <3>3, StoreClaims
  <2>4. CASE UNCHANGED row
    BY <2>2, <2>4, CalmClaims
  <2> QED BY <1>4, <2>3, <2>4 DEF StepTwoStore
<1> QED BY <1>1, <1>2, <1>3, <1>4

LEMMA EraseClaims ==
  ASSUME TypeOK, ClaimInv, NEW j \in Slots,
         EraseStart(j) \/ EraseTask(j) \/ EraseDelete(j) \/ PostChoose(j) \/ PostStore(j)
  PROVE  ClaimInv'
<1>1. CASE EraseStart(j)
  <2>1. Calm
    BY <1>1, CalmGo, CalmEnd DEF EraseStart, At
  <2> QED BY <1>1, <2>1, CalmClaims DEF EraseStart, hist
<1>2. CASE EraseTask(j)
  <2>1. Calm
    BY <1>2, CalmGo, CalmEnd DEF EraseTask, At
  <2> QED BY <1>2, <2>1, CalmClaims DEF EraseTask
<1>3. CASE EraseDelete(j)
  <2>1. Calm /\ job[j].dev \in Devices /\ UNCHANGED raced
    BY <1>3, CalmEnd, JobFacts DEF EraseDelete, hist
  <2> QED BY <1>3, <2>1, StoreClaims, CalmClaims DEF EraseDelete
<1>4. CASE PostChoose(j)
  BY <1>4, ChooseClaims DEF PostChoose, At
<1>5. CASE PostStore(j)
  <2> DEFINE d == job[j].dev
             r == [NewRow(d) EXCEPT !.state = "MANAGED", !.type = "FABRIC", !.renamed = TRUE, !.mgmt = job[j].addr]
  <2>1. d \in Devices /\ Flying(j)
    BY <1>5, JobFacts DEF PostStore, At, Flying
  <2>2. Calm /\ UNCHANGED raced
    BY <1>5, CalmEnd DEF PostStore, hist
  <2>3. r.mgmt = job[j].addr /\ r.resv = 0
    BY DEF NewRow
  <2>4. Claims(d, job[j].addr)
    BY <2>1 DEF Claims
  <2>5. \A a \in Pool : (r.mgmt = a \/ r.resv = a) => Claims(d, a)
    BY <2>3, <2>4, PoolAssumption
  <2>6. Store(d, r) \/ UNCHANGED row
    BY <1>5 DEF PostStore
  <2> HIDE DEF r, d
  <2> QED BY <2>1, <2>2, <2>5, <2>6, StoreClaims, CalmClaims
<1> QED BY <1>1, <1>2, <1>3, <1>4, <1>5

LEMMA OperatorClaims ==
  ASSUME TypeOK, ClaimInv, NEW d \in Devices, Operator(d)
  PROVE  ClaimInv'
<1>1. ASSUME NEW kind \in FirstSteps, NEW peer \in Devices \cup {None}, DeviceInit(d, kind, peer)
      PROVE  ClaimInv'
  <2>1. \A x \in {New("step2", d, row[d].id, 1, None), New(kind, d, row[d].id, 0, peer)} : x.at = "wait"
    BY DEF New
  <2>2. \E j \in Free, x \in {New("step2", d, row[d].id, 1, None), New(kind, d, row[d].id, 0, peer)} :
          job' = [job EXCEPT ![j] = x]
    BY <1>1 DEF DeviceInit
  <2>3. Calm
    BY <2>1, <2>2, CalmSet
  <2> QED BY <1>1, <2>3, CalmClaims DEF DeviceInit
<1>2. CASE PutState(d)
  <2>1. Calm /\ UNCHANGED raced /\ Exists(d)
    BY <1>2 DEF PutState, hist, Calm, Flying
  <2>2. row[d] \in Row
    BY <2>1, RowFacts
  <2>3. PICK s : Store(d, [row[d] EXCEPT !.state = s])
    BY <1>2 DEF PutState
  <2> DEFINE r == [row[d] EXCEPT !.state = s]
  <2>4. r.mgmt = row[d].mgmt /\ r.resv = row[d].resv
    BY <2>2 DEF Row
  <2> HIDE DEF r
  <2>5. \A a \in Pool : (r.mgmt = a \/ r.resv = a) => Claims(d, a)
    BY <2>1, <2>4, RowClaims
  <2>6. Store(d, r)
    BY <2>3 DEF r
  <2> QED BY <2>1, <2>5, <2>6, StoreClaims
<1>3. CASE DeleteDevice(d)
  <2>1. Calm /\ UNCHANGED raced
    BY <1>3 DEF DeleteDevice, Calm, Flying
  <2> QED BY <1>3, <2>1, StoreClaims DEF DeleteDevice
<1>4. CASE FactoryDefault(d)
  <2>1. New("erase", d, row[d].id, 0, None).at = "wait"
    BY DEF New
  <2>2. Calm
    BY <1>4, <2>1, CalmSet DEF FactoryDefault
  <2> QED BY <1>4, <2>2, CalmClaims DEF FactoryDefault, hist
<1>5. CASE AddFabric(d)
  <2>1. New("post", d, 0, 0, None).at = "wait"
    BY DEF New
  <2>2. Calm
    BY <1>5, <2>1, CalmSet DEF AddFabric
  <2> QED BY <1>5, <2>2, CalmClaims DEF AddFabric, hist
<1> QED BY <1>1, <1>2, <1>3, <1>4, <1>5 DEF Operator

LEMMA RestartClaims ==
  ASSUME TypeOK, ClaimInv, Restart
  PROVE  ClaimInv'
<1>1. PICK gone : job' = [j \in Slots |-> IF j \in gone THEN NoJob ELSE job[j]]
  BY DEF Restart
<1>2. Calm
  BY <1>1 DEF Calm, Flying
<1> QED BY <1>2, CalmClaims DEF Restart

LEMMA ClaimInit == Init => ClaimInv
BY DEF Init, ClaimInv, Claims, Holds, Exists, NoRow, Flying

LEMMA ClaimStep == TypeOK /\ ClaimInv /\ [Next]_vars => ClaimInv'
<1> SUFFICES ASSUME TypeOK, ClaimInv, [Next]_vars PROVE ClaimInv'
  OBVIOUS
<1>1. ASSUME NEW d \in Devices, DhcpHook(d) PROVE ClaimInv'
  BY <1>1, HookClaims
<1>2. ASSUME NEW j \in Slots, JobStep(j) PROVE ClaimInv'
  BY <1>2, DiscoveryClaims, StepOneClaims, PushClaims, StepTwoClaims, EraseClaims DEF JobStep
<1>3. CASE UNCHANGED vars
  BY <1>3, CalmClaims DEF vars, hist, Calm, Flying
<1> QED BY <1>1, <1>2, <1>3, OperatorClaims, RestartClaims DEF Next

\* Two rows hold the same address only after it was chosen for one device while a job
\* went on with it for the other and no row held it (find_free_mgmt_ip).
THEOREM AddressesByRace == Spec => []SharedOnlyByRace
<1>1. ClaimInv => SharedOnlyByRace
  BY DEF ClaimInv, SharedOnlyByRace, Claims
<1> QED BY <1>1, TypeInit, TypeStep, ClaimInit, ClaimStep, PTL DEF Spec

(***************************************************************************)
(* Who goes on with a device in INIT.                                      *)
(***************************************************************************)
\* A job that is, or will schedule, a second step.
Leads(j) == job[j] # NoJob /\ (job[j].kind = "step2" \/ job[j].at = "next")
InInit(d) == Exists(d) /\ row[d].state = "INIT"

\* The attempts of a second step are counted from one.
Counted == \A j \in Slots : (job[j] # NoJob /\ job[j].kind = "step2") => job[j].it >= 1
FollowInv == Counted /\ InitIsFollowed

LEMMA Followed ==
  InitIsFollowed <=> \A d \in Devices : (InInit(d) /\ d \notin stuck)
                       => \E j \in Slots : Leads(j) /\ job[j].dev = d /\ job[j].id = row[d].id
BY DEF InitIsFollowed, InInit, Leads

\* No device gets into INIT, and no job leaves one that is.
LEMMA FollowKept ==
  ASSUME FollowInv, Counted', stuck \subseteq stuck',
         \A d \in Devices : InInit(d)' => InInit(d) /\ row'[d].id = row[d].id,
         \A i \in Slots : (Leads(i) /\ ById(i) /\ job[i].dev \notin stuck')
                            => Leads(i)' /\ job'[i].dev = job[i].dev /\ job'[i].id = job[i].id
  PROVE  FollowInv'
<1> SUFFICES ASSUME NEW d \in Devices, InInit(d)', d \notin stuck'
             PROVE  \E j \in Slots : Leads(j)' /\ job'[j].dev = d /\ job'[j].id = row'[d].id
  BY DEF FollowInv, InitIsFollowed, InInit, Leads, Exists
<1>1. InInit(d) /\ row'[d].id = row[d].id /\ d \notin stuck
  OBVIOUS
<1>2. PICK j \in Slots : Leads(j) /\ job[j].dev = d /\ job[j].id = row[d].id
  BY <1>1, Followed DEF FollowInv
<1>3. ById(j)
  BY <1>1, <1>2 DEF ById, InInit
<1> QED BY <1>1, <1>2, <1>3

\* One job is set to another one, that leads if it did and its row is still there.
LEMMA FollowSet ==
  ASSUME TypeOK, FollowInv, NEW j \in Slots, NEW x, job' = [job EXCEPT ![j] = x], stuck \subseteq stuck',
         \A d \in Devices : InInit(d)' => InInit(d) /\ row'[d].id = row[d].id,
         x # NoJob /\ x.kind = "step2" => x.it >= 1,
         (Leads(j) /\ ById(j) /\ job[j].dev \notin stuck')
           => x # NoJob /\ (x.kind = "step2" \/ x.at = "next") /\ x.dev = job[j].dev /\ x.id = job[j].id
  PROVE  FollowInv'
<1>1. \A i \in Slots : job'[i] = IF i = j THEN x ELSE job[i]
  BY DEF TypeOK
<1>2. Counted'
  BY <1>1 DEF FollowInv, Counted
<1>3. \A i \in Slots : (Leads(i) /\ ById(i) /\ job[i].dev \notin stuck')
                         => Leads(i)' /\ job'[i].dev = job[i].dev /\ job'[i].id = job[i].id
  BY <1>1 DEF Leads
<1> QED BY <1>2, <1>3, FollowKept

LEMMA FollowGo ==
  ASSUME TypeOK, FollowInv, NEW j \in Slots, job[j] # NoJob, NEW at, Go(j, at),
         job[j].kind = "step2" \/ job[j].at # "next" \/ at = "next", stuck \subseteq stuck',
         \A d \in Devices : InInit(d)' => InInit(d) /\ row'[d].id = row[d].id
  PROVE  FollowInv'
<1> DEFINE x == [job[j] EXCEPT !.at = at]
<1>1. job[j] \in Job
  BY DEF TypeOK
<1>2. x.at = at /\ x.dev = job[j].dev /\ x.id = job[j].id /\ x.kind = job[j].kind /\ x.it = job[j].it /\ x # NoJob
  BY <1>1 DEF Job, NoJob
<1>3. job' = [job EXCEPT ![j] = x]
  BY DEF Go
<1>4. x.kind = "step2" => x.it >= 1
  BY <1>2 DEF FollowInv, Counted
<1> HIDE DEF x
<1> QED BY <1>2, <1>3, <1>4, FollowSet DEF Leads

LEMMA FollowEnd ==
  ASSUME TypeOK, FollowInv, NEW j \in Slots, End(j), stuck \subseteq stuck',
         ~Leads(j) \/ ~ById(j) \/ job[j].dev \in stuck',
         \A d \in Devices : InInit(d)' => InInit(d) /\ row'[d].id = row[d].id
  PROVE  FollowInv'
<1>1. job' = [job EXCEPT ![j] = NoJob]
  BY DEF End
<1> QED BY <1>1, FollowSet

\* Rows that stay, and a row that is stored.
LEMMA InitKept ==
  ASSUME UNCHANGED row
  PROVE  \A d \in Devices : InInit(d)' => InInit(d) /\ row'[d].id = row[d].id
BY DEF InInit, Exists

LEMMA InitStored ==
  ASSUME TypeOK, NEW d \in Devices, NEW r, Store(d, r),
         r = NoRow \/ r.state # "INIT" \/ (InInit(d) /\ r.id = row[d].id)
  PROVE  \A e \in Devices : InInit(e)' => InInit(e) /\ row'[e].id = row[e].id
<1>1. \A e \in Devices : row'[e] = IF e = d THEN r ELSE row[e]
  BY DEF Store, TypeOK
<1> QED BY <1>1 DEF InInit, Exists, NoRow

\* A job is added.
LEMMA FollowAdd ==
  ASSUME TypeOK, FollowInv, NEW j \in Free, NEW x, job' = [job EXCEPT ![j] = x], stuck \subseteq stuck',
         x.kind = "step2" => x.it >= 1, UNCHANGED row
  PROVE  FollowInv'
<1>1. j \in Slots /\ ~Leads(j)
  BY DEF Free, Leads
<1> QED BY <1>1, InitKept, FollowSet

LEMMA HookFollows ==
  ASSUME TypeOK, FollowInv, NEW d \in Devices, DhcpHook(d)
  PROVE  FollowInv'
<1>1. CASE Store(d, NewRow(d)) /\ UNCHANGED job
  <2>1. NewRow(d).state = "DHCP_BOOT"
    BY DEF NewRow
  <2>2. \A e \in Devices : InInit(e)' => InInit(e) /\ row'[e].id = row[e].id
    BY <1>1, <2>1, InitStored
  <2>3. Counted' /\ UNCHANGED stuck
    BY <1>1 DEF DhcpHook, FollowInv, Counted, hist
  <2> QED BY <1>1, <2>2, <2>3, FollowKept DEF Leads
<1>2. CASE /\ UNCHANGED row
           /\ \E i \in Free : job' = [job EXCEPT ![i] = New("discover", d, 0, 1, None)]
  <2>1. New("discover", d, 0, 1, None).kind = "discover"
    BY DEF New
  <2> QED BY <1>2, <2>1, FollowAdd DEF DhcpHook, hist
<1> QED BY <1>1, <1>2 DEF DhcpHook

LEMMA DiscoveryFollows ==
  ASSUME TypeOK, FollowInv, NEW j \in Slots,
         DiscoverStart(j) \/ DiscoverFails(j) \/ DiscoverFacts(j) \/ DiscoverStore(j)
  PROVE  FollowInv'
<1>1. job[j] # NoJob /\ ~Leads(j) /\ job[j].at # "next" /\ job[j].dev \in Devices
  BY JobFacts DEF DiscoverStart, DiscoverFails, DiscoverFacts, DiscoverStore, At, Leads
<1>2. CASE DiscoverStart(j) \/ DiscoverFacts(j)
  BY <1>1, <1>2, InitKept, FollowGo, FollowEnd DEF DiscoverStart, DiscoverFacts, hist
<1>3. CASE DiscoverFails(j)
  <2> DEFINE x == New("discover", job[j].dev, 0, job[j].it + 1, None)
  <2>1. x.kind = "discover"
    BY DEF New
  <2>2. job' = [job EXCEPT ![j] = x] \/ End(j)
    BY <1>3 DEF DiscoverFails
  <2>3. UNCHANGED <<row, stuck>>
    BY <1>3 DEF DiscoverFails, hist
  <2> HIDE DEF x
  <2> QED BY <1>1, <2>1, <2>2, <2>3, InitKept, FollowSet, FollowEnd
<1>4. CASE DiscoverStore(j)
  <2> DEFINE d == job[j].dev
             r == [row[d] EXCEPT !.state = "DISCOVERED"]
  <2>1. Exists(d) => r.state = "DISCOVERED"
    BY <1>1, RowFacts DEF Row
  <2>2. (Exists(d) /\ Store(d, r)) \/ UNCHANGED row
    BY <1>4 DEF DiscoverStore
  <2>3. End(j) /\ UNCHANGED stuck
    BY <1>4 DEF DiscoverStore, hist
  <2> HIDE DEF r
  <2> QED BY <1>1, <2>1, <2>2, <2>3, InitKept, InitStored, FollowEnd
<1> QED BY <1>2, <1>3, <1>4

LEMMA ChooseFollows ==
  ASSUME TypeOK, FollowInv, NEW j \in Slots, job[j] # NoJob, ~Leads(j), NEW cleared \in SUBSET Devices,
         \A e \in cleared : Exists(e), Choose(j, cleared), job[j].at # "next", job[j].kind # "step2"
  PROVE  FollowInv'
<1>1. row' = Clean(cleared) /\ UNCHANGED stuck
  BY DEF Choose
<1>2. \A e \in Devices : row'[e] = IF e \in cleared THEN [row[e] EXCEPT !.resv = 0] ELSE row[e]
  BY <1>1 DEF Clean
<1>3. \A e \in cleared : [row[e] EXCEPT !.resv = 0].id = row[e].id /\ [row[e] EXCEPT !.resv = 0].state = row[e].state
  BY RowFacts DEF Row
<1>4. \A e \in Devices : InInit(e)' => InInit(e) /\ row'[e].id = row[e].id
  BY <1>2, <1>3 DEF InInit, Exists
<1>5. CASE End(j)
  BY <1>1, <1>4, <1>5, FollowEnd
<1>6. ASSUME NEW a, job' = [job EXCEPT ![j].at = "chosen", ![j].addr = a]
      PROVE  FollowInv'
  <2> DEFINE x == [job[j] EXCEPT !.at = "chosen", !.addr = a]
  <2>1. job[j] \in Job
    BY DEF TypeOK
  <2>2. x.kind # "step2"
    BY <2>1 DEF Job
  <2>3. job' = [job EXCEPT ![j] = x]
    BY <1>6
  <2> HIDE DEF x
  <2> QED BY <1>1, <1>4, <2>2, <2>3, FollowSet
<1> QED BY <1>5, <1>6 DEF Choose

LEMMA StepOneFollows ==
  ASSUME TypeOK, FollowInv, NEW j \in Slots,
         \/ StepOneStart(j) \/ StepOneRefused(j) \/ InitMlagPeerOnly(j) \/ StepOneChoose(j)
         \/ StepOneReserve(j) \/ StepOneSettings(j) \/ PushBaseManagement(j) \/ StepOneRollback(j)
  PROVE  FollowInv'
<1>1. job[j] # NoJob /\ ~Leads(j) /\ job[j].at # "next" /\ job[j].dev \in Devices /\ job[j].kind # "step2"
  BY JobFacts DEF StepOneStart, StepOneRefused, InitMlagPeerOnly, StepOneChoose, StepOneReserve,
                  StepOneSettings, PushBaseManagement, StepOneRollback, At, Leads, FirstSteps
<1>2. CASE StepOneStart(j) \/ PushBaseManagement(j)
  BY <1>1, <1>2, InitKept, FollowGo DEF StepOneStart, PushBaseManagement, Moved, Refused, hist
<1>3. CASE StepOneRefused(j) \/ StepOneSettings(j)
  BY <1>1, <1>3, InitKept, FollowEnd DEF StepOneRefused, StepOneSettings, hist
<1>4. CASE InitMlagPeerOnly(j)
  <2> DEFINE x == New("ACCESS", job[j].peer, row[job[j].peer].id, 0, None)
  <2>1. x.kind = "ACCESS" /\ job' = [job EXCEPT ![j] = x]
    BY <1>4 DEF New, InitMlagPeerOnly
  <2>2. UNCHANGED <<row, stuck>>
    BY <1>4 DEF InitMlagPeerOnly, hist
  <2> HIDE DEF x
  <2> QED BY <1>1, <2>1, <2>2, InitKept, FollowSet
<1>5. CASE StepOneChoose(j)
  BY <1>1, <1>5, ChooseFollows, ChoicesClear DEF StepOneChoose
<1>6. CASE StepOneReserve(j)
  <2> DEFINE d == job[j].dev
             r == [row[d] EXCEPT !.resv = job[j].addr, !.renamed = TRUE]
  <2>1. ById(j) => r.state = row[d].state /\ r.id = row[d].id
    BY <1>1, RowFacts DEF Row, ById
  <2>2. (ById(j) /\ Store(d, r)) \/ UNCHANGED row
    BY <1>6 DEF StepOneReserve
  <2>3. \A e \in Devices : InInit(e)' => InInit(e) /\ row'[e].id = row[e].id
    <3> HIDE DEF r
    <3> QED BY <1>1, <2>1, <2>2, InitKept, InitStored DEF InInit, ById
  <2>4. (Go(j, "reserved") \/ End(j)) /\ UNCHANGED stuck
    BY <1>6 DEF StepOneReserve, hist
  <2> QED BY <1>1, <2>3, <2>4, FollowGo, FollowEnd
<1>7. CASE StepOneRollback(j)
  <2> DEFINE d == job[j].dev
             r == [row[d] EXCEPT !.renamed = FALSE, !.resv = 0]
  <2>1. ById(j) => r.state = row[d].state /\ r.id = row[d].id
    BY <1>1, RowFacts DEF Row, ById
  <2>2. (ById(j) /\ Store(d, r)) \/ UNCHANGED row
    BY <1>7 DEF StepOneRollback
  <2>3. \A e \in Devices : InInit(e)' => InInit(e) /\ row'[e].id = row[e].id
    <3> HIDE DEF r
    <3> QED BY <1>1, <2>1, <2>2, InitKept, InitStored DEF InInit, ById
  <2> QED BY <1>1, <1>7, <2>3, FollowEnd DEF StepOneRollback, hist
<1> QED BY <1>2, <1>3, <1>4, <1>5, <1>6, <1>7

\* A device gets into INIT, and the job that put it there leads on.
LEMMA CommitFollows ==
  ASSUME TypeOK, FollowInv, NEW j \in Slots, StepOneCommit(j)
  PROVE  FollowInv'
<1> DEFINE d == job[j].dev
           r == Initialised(d, job[j].kind, job[j].addr)
           x == [job[j] EXCEPT !.at = "next"]
<1>1. /\ job[j] \in Job /\ d \in Devices /\ job[j] # NoJob /\ ~Leads(j)
      /\ job[j].at # "next" /\ job[j].kind # "step2"
  BY JobFacts DEF StepOneCommit, At, Leads, FirstSteps
<1>2. CASE ById(j) /\ Store(d, r) /\ Go(j, "next") /\ stuck' = stuck \ {d}
  <2>1. row[d] \in Row
    BY <1>1, <1>2, RowFacts DEF ById
  <2>2. r.id = job[j].id
    BY <1>2, <2>1 DEF Row, Initialised, ById
  <2>3. x.at = "next" /\ x.dev = d /\ x.id = job[j].id /\ x.kind = job[j].kind /\ x # NoJob
    BY <1>1 DEF Job, NoJob
  <2>4. \A i \in Slots : job'[i] = IF i = j THEN x ELSE job[i]
    BY <1>2 DEF Go, TypeOK
  <2>5. \A e \in Devices : row'[e] = IF e = d THEN r ELSE row[e]
    BY <1>2 DEF Store, TypeOK
  <2> HIDE DEF r, x, d
  <2>6. Counted'
    BY <1>1, <2>3, <2>4 DEF FollowInv, Counted
  <2>7. ASSUME NEW e \in Devices, InInit(e)', e \notin stuck'
        PROVE  \E i \in Slots : Leads(i)' /\ job'[i].dev = e /\ job'[i].id = row'[e].id
    <3>1. CASE e = d
      BY <3>1, <2>2, <2>3, <2>4, <2>5 DEF Leads
    <3>2. CASE e # d
      <4>1. InInit(e) /\ e \notin stuck /\ row'[e] = row[e]
        BY <1>2, <2>5, <2>7, <3>2 DEF InInit, Exists
      <4>2. PICK i \in Slots : Leads(i) /\ job[i].dev = e /\ job[i].id = row[e].id
        BY <4>1, Followed DEF FollowInv
      <4>3. i # j
        BY <1>1, <4>2
      <4> QED BY <2>4, <4>1, <4>2, <4>3 DEF Leads
    <3> QED BY <3>1, <3>2
  <2> QED BY <2>6, <2>7 DEF FollowInv, InitIsFollowed, InInit, Leads, Exists
<1>3. CASE End(j) /\ UNCHANGED <<row, stuck>>
  BY <1>1, <1>3, InitKept, FollowEnd
<1> QED BY <1>2, <1>3 DEF StepOneCommit

LEMMA NextFollows ==
  ASSUME TypeOK, FollowInv, NEW j \in Slots, StepOneNext(j)
  PROVE  FollowInv'
<1> DEFINE x == New("step2", job[j].dev, job[j].id, 1, None)
           p == job[j].peer
           y == New("ACCESS", p, row[p].id, 0, None)
<1>1. /\ x.kind = "step2" /\ x.it = 1 /\ x.dev = job[j].dev /\ x.id = job[j].id /\ x # NoJob
      /\ y.kind = "ACCESS"
  BY DEF New, NoJob
<1>2. UNCHANGED <<row, stuck>>
  BY DEF StepOneNext, hist
<1>3. \/ job' = [job EXCEPT ![j] = x]
      \/ \E k \in Free : job' = [job EXCEPT ![j] = x, ![k] = y]
  BY DEF StepOneNext
<1>4. job[j] # NoJob
  BY DEF StepOneNext, At
<1> HIDE DEF x, y
<1>5. CASE job' = [job EXCEPT ![j] = x]
  <2>1. \A d \in Devices : InInit(d)' => InInit(d) /\ row'[d].id = row[d].id
    BY <1>2, InitKept
  <2>2. x.it >= 1 /\ stuck \subseteq stuck'
    BY <1>1, <1>2
  <2> QED BY <1>1, <1>5, <2>1, <2>2, FollowSet
<1>6. ASSUME NEW k \in Free, job' = [job EXCEPT ![j] = x, ![k] = y]
      PROVE  FollowInv'
  <2>1. k # j /\ k \in Slots /\ ~Leads(k)
    BY <1>4 DEF Free, Leads
  <2>2. \A i \in Slots : job'[i] = IF i = j THEN x ELSE IF i = k THEN y ELSE job[i]
    BY <1>6, <2>1 DEF TypeOK
  <2>3. Counted'
    BY <1>1, <2>2 DEF FollowInv, Counted
  <2>4. \A i \in Slots : Leads(i) => Leads(i)' /\ job'[i].dev = job[i].dev /\ job'[i].id = job[i].id
    BY <1>1, <2>1, <2>2 DEF Leads
  <2> QED BY <1>2, <2>3, <2>4, InitKept, FollowKept
<1> QED BY <1>3, <1>5, <1>6

LEMMA StepTwoFollows ==
  ASSUME TypeOK, FollowInv, NEW j \in Slots,
         StepTwoStart(j) \/ StepTwoFails(j) \/ StepTwoFacts(j) \/ StepTwoStore(j)
  PROVE  FollowInv'
<1>1. job[j] \in Job /\ job[j] # NoJob /\ job[j].kind = "step2" /\ job[j].dev \in Devices /\ job[j].it >= 1
  BY JobFacts DEF StepTwoStart, StepTwoFails, StepTwoFacts, StepTwoStore, At, FollowInv, Counted
<1>2. CASE StepTwoStart(j)
  <2>1. UNCHANGED <<row, stuck>>
    BY <1>2 DEF StepTwoStart, hist
  <2>2. CASE Go(j, "facts")
    BY <1>1, <2>1, <2>2, InitKept, FollowGo
  <2>3. CASE End(j) /\ ~(ById(j) /\ row[job[j].dev].state = "INIT")
    <3>1. CASE ~ById(j)
      BY <2>1, <2>3, <3>1, InitKept, FollowEnd
    <3>2. CASE row[job[j].dev].state # "INIT"
      <4>1. \A i \in Slots : job'[i] = IF i = j THEN NoJob ELSE job[i]
        BY <2>3 DEF End, TypeOK
      <4>2. Counted'
        BY <4>1 DEF FollowInv, Counted
      <4>3. ASSUME NEW e \in Devices, InInit(e)', e \notin stuck'
            PROVE  \E i \in Slots : Leads(i)' /\ job'[i].dev = e /\ job'[i].id = row'[e].id
        <5>1. InInit(e) /\ e \notin stuck
          BY <2>1, <4>3 DEF InInit, Exists
        <5>2. PICK i \in Slots : Leads(i) /\ job[i].dev = e /\ job[i].id = row[e].id
          BY <5>1, Followed DEF FollowInv
        <5>3. i # j
          BY <3>2, <5>1, <5>2 DEF InInit
        <5> QED BY <2>1, <4>1, <5>2, <5>3 DEF Leads
      <4> QED BY <4>2, <4>3 DEF FollowInv, InitIsFollowed, InInit, Leads, Exists
    <3> QED BY <2>3, <3>1, <3>2
  <2> QED BY <1>2, <2>2, <2>3 DEF StepTwoStart
<1>3. CASE StepTwoFails(j)
  <2> DEFINE x == New("step2", job[j].dev, job[j].id, job[j].it + 1, None)
  <2>1. x.kind = "step2" /\ x.it = job[j].it + 1 /\ x.dev = job[j].dev /\ x.id = job[j].id /\ x # NoJob
    BY DEF New, NoJob
  <2>2. UNCHANGED row /\ stuck \subseteq stuck'
    BY <1>3 DEF StepTwoFails
  <2>3. job[j].it \in 0..3
    BY <1>1 DEF Job
  <2>4. CASE Again(job[j].it)
    <3>1. job' = [job EXCEPT ![j] = x] /\ x.it >= 1
      BY <1>1, <1>3, <2>1, <2>3, <2>4 DEF StepTwoFails
    <3> HIDE DEF x
    <3> QED BY <2>1, <2>2, <3>1, InitKept, FollowSet
  <2>5. CASE ~Again(job[j].it)
    <3>1. job[j].it >= 2
      BY <1>1, <2>3, <2>5 DEF Again
    <3>2. End(j) /\ job[j].dev \in stuck'
      BY <1>3, <2>5, <3>1 DEF StepTwoFails
    <3>3. job' = [job EXCEPT ![j] = NoJob]
      BY <3>2 DEF End
    <3> QED BY <2>2, <3>2, <3>3, InitKept, FollowSet
  <2> QED BY <2>4, <2>5
<1>4. CASE StepTwoFacts(j)
  <2>1. UNCHANGED row /\ stuck \subseteq stuck'
    BY <1>4 DEF StepTwoFacts
  <2>2. CASE Go(j, "store")
    BY <1>1, <2>1, <2>2, InitKept, FollowGo
  <2>3. CASE End(j) /\ stuck' = stuck \cup {job[j].dev}
    BY <2>1, <2>3, InitKept, FollowSet DEF End
  <2> QED BY <1>4, <2>2, <2>3 DEF StepTwoFacts
<1>5. CASE StepTwoStore(j)
  <2> DEFINE d == job[j].dev
             r == [row[d] EXCEPT !.state = "MANAGED"]
  <2>1. End(j) /\ UNCHANGED stuck
    BY <1>5 DEF StepTwoStore, hist
  <2>2. CASE ~ById(j)
    BY <1>5, <2>1, <2>2, InitKept, FollowEnd DEF StepTwoStore
  <2>3. CASE ById(j) /\ Store(d, r)
    <3>1. r.state = "MANAGED" /\ r.id = row[d].id
      BY <1>1, <2>3, RowFacts DEF Row, ById
    <3>2. \A i \in Slots : job'[i] = IF i = j THEN NoJob ELSE job[i]
      BY <2>1 DEF End, TypeOK
    <3>3. \A e \in Devices : row'[e] = IF e = d THEN r ELSE row[e]
      BY <2>3 DEF Store, TypeOK
    <3> HIDE DEF r, d
    <3>4. Counted'
      BY <3>2 DEF FollowInv, Counted
    <3>5. ASSUME NEW e \in Devices, InInit(e)', e \notin stuck'
          PROVE  \E i \in Slots : Leads(i)' /\ job'[i].dev = e /\ job'[i].id = row'[e].id
      <4>1. e # d /\ row'[e] = row[e] /\ InInit(e) /\ e \notin stuck
        BY <2>1, <3>1, <3>3, <3>5 DEF InInit, Exists
      <4>2. PICK i \in Slots : Leads(i) /\ job[i].dev = e /\ job[i].id = row[e].id
        BY <4>1, Followed DEF FollowInv
      <4>3. i # j
        BY <4>1, <4>2 DEF d
      <4> QED BY <3>2, <4>1, <4>2, <4>3 DEF Leads
    <3> QED BY <3>4, <3>5 DEF FollowInv, InitIsFollowed, InInit, Leads, Exists
  <2> QED BY <1>5, <2>2, <2>3 DEF StepTwoStore
<1> QED BY <1>2, <1>3, <1>4, <1>5

LEMMA EraseFollows ==
  ASSUME TypeOK, FollowInv, NEW j \in Slots,
         EraseStart(j) \/ EraseTask(j) \/ EraseDelete(j) \/ PostChoose(j) \/ PostStore(j)
  PROVE  FollowInv'
<1>1. job[j] # NoJob /\ ~Leads(j) /\ job[j].at # "next" /\ job[j].dev \in Devices /\ job[j].kind # "step2"
  BY JobFacts DEF EraseStart, EraseTask, EraseDelete, PostChoose, PostStore, At, Leads
<1>2. CASE EraseStart(j) \/ EraseTask(j)
  BY <1>1, <1>2, InitKept, FollowGo, FollowEnd DEF EraseStart, EraseTask, hist
<1>3. CASE EraseDelete(j)
  <2>1. \A e \in Devices : InInit(e)' => InInit(e) /\ row'[e].id = row[e].id
    BY <1>1, <1>3, InitKept, InitStored DEF EraseDelete
  <2> QED BY <1>1, <1>3, <2>1, FollowEnd DEF EraseDelete, hist
<1>4. CASE PostChoose(j)
  BY <1>1, <1>4, ChooseFollows DEF PostChoose
<1>5. CASE PostStore(j)
  <2> DEFINE d == job[j].dev
             r == [NewRow(d) EXCEPT !.state = "MANAGED", !.type = "FABRIC", !.renamed = TRUE, !.mgmt = job[j].addr]
  <2>1. r.state = "MANAGED"
    BY DEF NewRow
  <2>2. Store(d, r) \/ UNCHANGED row
    BY <1>5 DEF PostStore
  <2>3. \A e \in Devices : InInit(e)' => InInit(e) /\ row'[e].id = row[e].id
    <3> HIDE DEF r
    <3> QED BY <1>1, <2>1, <2>2, InitKept, InitStored
  <2> QED BY <1>1, <1>5, <2>3, FollowEnd DEF PostStore, hist
<1> QED BY <1>2, <1>3, <1>4, <1>5

LEMMA OperatorFollows ==
  ASSUME TypeOK, FollowInv, NEW d \in Devices, Operator(d)
  PROVE  FollowInv'
<1>1. ASSUME NEW kind \in FirstSteps, NEW peer \in Devices \cup {None}, DeviceInit(d, kind, peer)
      PROVE  FollowInv'
  <2> DEFINE going == row[d].state = "INIT" /\ row[d].mgmt # 0
             x == New("step2", d, row[d].id, 1, None)
             y == New(kind, d, row[d].id, 0, peer)
  <2>1. /\ x.kind = "step2" /\ x.it = 1 /\ x.dev = d /\ x.id = row[d].id /\ x # NoJob
        /\ y.kind # "step2"
    BY DEF New, NoJob, FirstSteps
  <2>2. \/ stuck' = stuck \ {d} /\ \E j \in Free : job' = [job EXCEPT ![j] = x]
        \/ stuck' = stuck /\ \E j \in Free : job' = [job EXCEPT ![j] = y]
    BY <1>1 DEF DeviceInit
  <2>3. UNCHANGED row
    BY <1>1 DEF DeviceInit
  <2> HIDE DEF x, y
  <2>4. ASSUME NEW j \in Free, job' = [job EXCEPT ![j] = x], stuck' = stuck \ {d}
        PROVE  FollowInv'
    <3>1. j \in Slots /\ ~Leads(j)
      BY DEF Free, Leads
    <3>2. \A i \in Slots : job'[i] = IF i = j THEN x ELSE job[i]
      BY <2>4 DEF TypeOK
    <3>3. Counted'
      BY <2>1, <3>2 DEF FollowInv, Counted
    <3>4. ASSUME NEW e \in Devices, InInit(e)', e \notin stuck'
          PROVE  \E i \in Slots : Leads(i)' /\ job'[i].dev = e /\ job'[i].id = row'[e].id
      <4>1. CASE e = d
        BY <2>1, <2>3, <3>1, <3>2, <4>1 DEF Leads
      <4>2. CASE e # d
        <5>1. InInit(e) /\ e \notin stuck
          BY <2>3, <2>4, <3>4, <4>2 DEF InInit, Exists
        <5>2. PICK i \in Slots : Leads(i) /\ job[i].dev = e /\ job[i].id = row[e].id
          BY <5>1, Followed DEF FollowInv
        <5> QED BY <2>3, <3>1, <3>2, <5>2 DEF Leads
      <4> QED BY <4>1, <4>2
    <3> QED BY <3>3, <3>4 DEF FollowInv, InitIsFollowed, InInit, Leads, Exists
  <2>5. ASSUME NEW j \in Free, job' = [job EXCEPT ![j] = y], stuck' = stuck
        PROVE  FollowInv'
    BY <2>1, <2>3, <2>5, FollowAdd
  <2> QED BY <2>2, <2>4, <2>5
<1>2. CASE PutState(d) \/ DeleteDevice(d)
  <2>1. PICK r : Store(d, r) /\ (r = NoRow \/ r.state # "INIT")
    <3>1. row[d] \in Row => \A s \in States : [row[d] EXCEPT !.state = s].state = s
      BY DEF Row
    <3> QED BY <1>2, <3>1, RowFacts DEF PutState, DeleteDevice, States
  <2>2. \A e \in Devices : InInit(e)' => InInit(e) /\ row'[e].id = row[e].id
    BY <2>1, InitStored
  <2>3. Counted' /\ UNCHANGED <<job, stuck>>
    BY <1>2 DEF PutState, DeleteDevice, FollowInv, Counted, hist
  <2> QED BY <2>2, <2>3, FollowKept DEF Leads
<1>3. CASE FactoryDefault(d)
  <2>1. New("erase", d, row[d].id, 0, None).kind = "erase"
    BY DEF New
  <2> QED BY <1>3, <2>1, FollowAdd DEF FactoryDefault, hist
<1>4. CASE AddFabric(d)
  <2>1. New("post", d, 0, 0, None).kind = "post"
    BY DEF New
  <2> QED BY <1>4, <2>1, FollowAdd DEF AddFabric, hist
<1> QED BY <1>1, <1>2, <1>3, <1>4 DEF Operator

LEMMA RestartFollows ==
  ASSUME TypeOK, FollowInv, Restart
  PROVE  FollowInv'
<1>1. PICK gone : /\ job' = [j \in Slots |-> IF j \in gone THEN NoJob ELSE job[j]]
                  /\ stuck' = stuck \cup {job[j].dev : j \in gone}
  BY DEF Restart
<1>2. Counted'
  BY <1>1 DEF FollowInv, Counted
<1>3. \A i \in Slots : (Leads(i) /\ ById(i) /\ job[i].dev \notin stuck')
                         => Leads(i)' /\ job'[i].dev = job[i].dev /\ job'[i].id = job[i].id
  BY <1>1 DEF Leads
<1> QED BY <1>1, <1>2, <1>3, InitKept, FollowKept DEF Restart

LEMMA FollowInit == Init => FollowInv
BY DEF Init, FollowInv, Counted, InitIsFollowed, Exists, NoRow

LEMMA FollowStep == TypeOK /\ FollowInv /\ [Next]_vars => FollowInv'
<1> SUFFICES ASSUME TypeOK, FollowInv, [Next]_vars PROVE FollowInv'
  OBVIOUS
<1>1. ASSUME NEW d \in Devices, DhcpHook(d) PROVE FollowInv'
  BY <1>1, HookFollows
<1>2. ASSUME NEW j \in Slots, JobStep(j) PROVE FollowInv'
  BY <1>2, DiscoveryFollows, StepOneFollows, CommitFollows, NextFollows, StepTwoFollows,
     EraseFollows DEF JobStep
<1>3. CASE UNCHANGED vars
  BY <1>3, InitKept, FollowKept DEF vars, hist, Leads, FollowInv, Counted
<1> QED BY <1>1, <1>2, <1>3, OperatorFollows, RestartFollows DEF Next

\* A device in INIT has a job that will go on with it, or was given up
\* (schedule_init_device_step2, DeviceInitApi.post).
THEOREM InitAlwaysFollowed == Spec => []InitIsFollowed
<1>1. FollowInv => InitIsFollowed
  BY DEF FollowInv
<1> QED BY <1>1, TypeInit, TypeStep, FollowInit, FollowStep, PTL DEF Spec

(***************************************************************************)
(* Late discoveries.                                                       *)
(***************************************************************************)
\* A discovery that has found its device waiting for it, and a step of
\* initialisation that has passed its checks.
Searching(j) == job[j] # NoJob /\ job[j].kind = "discover" /\ job[j].at \in {"facts", "store"}
Busy(j) == job[j] # NoJob /\ job[j].kind \in FirstSteps \cup {"step2"} /\ job[j].at # "wait"

\* No row or job has an identity that was not given out yet.
IdInv ==
  /\ \A d \in Devices : row[d].id <= rows[d]
  /\ \A j \in Slots : job[j] # NoJob => job[j].id <= rows[job[j].dev]
LateInv ==
  /\ IdInv
  /\ \A i, j \in Slots : (i # j /\ Searching(i) /\ Searching(j) /\ job[i].dev = job[j].dev) => job[i].dev \in overlap
  /\ \A j \in Slots : Searching(j) => /\ rows[job[j].dev] >= 1
                                      /\ (Exists(job[j].dev) /\ job[j].dev \notin overlap)
                                           => row[job[j].dev].state = "DHCP_BOOT"
  /\ \A j \in Slots : (Busy(j) /\ ById(j)) => row[job[j].dev].state # "DHCP_BOOT"

\* What a step may do to a device that has been discovered.
FallsLate ==
  \A d \in Devices :
    (/\ Exists(d) /\ row[d].state \in {"INIT", "MANAGED", "UNMANAGED"}
     /\ row'[d] # NoRow /\ row'[d].state = "DISCOVERED") => d \in overlap

JobsKept ==
  \A i \in Slots :
    /\ job'[i] # NoJob => job'[i].id <= rows[job'[i].dev]
    /\ Searching(i)' => Searching(i) /\ job'[i].dev = job[i].dev
    /\ Busy(i)' => Busy(i) /\ job'[i].dev = job[i].dev /\ job'[i].id = job[i].id
RowsKept ==
  /\ UNCHANGED rows
  /\ \A d \in Devices :
       \/ row'[d] = NoRow
       \/ /\ Exists(d) /\ row'[d].id = row[d].id
          /\ \/ row'[d].state = row[d].state
             \/ /\ row'[d].state # "DHCP_BOOT"
                /\ row'[d].state = "DISCOVERED" => row[d].state = "DHCP_BOOT" \/ d \in overlap
                /\ \A i \in Slots : (Searching(i)' /\ job'[i].dev = d) => d \in overlap'

LEMMA LateKept ==
  ASSUME TypeOK, LateInv, JobsKept, RowsKept, overlap \subseteq overlap'
  PROVE  LateInv' /\ FallsLate
<1>1. IdInv'
  <2>1. \A d \in Devices : row'[d].id <= rows'[d]
    BY DEF RowsKept, LateInv, IdInv, TypeOK, NoRow
  <2>2. \A j \in Slots : job'[j] # NoJob => job'[j].id <= rows'[job'[j].dev]
    BY DEF JobsKept, RowsKept
  <2> QED BY <2>1, <2>2 DEF IdInv
<1>2. \A i, j \in Slots : (i # j /\ Searching(i)' /\ Searching(j)' /\ job'[i].dev = job'[j].dev)
        => job'[i].dev \in overlap'
  BY DEF JobsKept, LateInv
<1>3. ASSUME NEW j \in Slots, Searching(j)'
      PROVE  /\ rows'[job'[j].dev] >= 1
             /\ (row'[job'[j].dev].id # 0 /\ job'[j].dev \notin overlap') => row'[job'[j].dev].state = "DHCP_BOOT"
  <2> DEFINE d == job[j].dev
  <2>1. Searching(j) /\ job'[j].dev = d /\ d \in Devices
    BY <1>3 DEF JobsKept, Searching, TypeOK, Job
  <2>2. rows[d] >= 1 /\ ((Exists(d) /\ d \notin overlap) => row[d].state = "DHCP_BOOT")
    BY <2>1 DEF LateInv
  <2>3. row'[d].id # 0 => row'[d] # NoRow
    BY DEF NoRow
  <2> HIDE DEF d
  <2> QED BY <1>3, <2>1, <2>2, <2>3 DEF RowsKept, Exists
<1>4. ASSUME NEW j \in Slots, Busy(j)', ById(j)'
      PROVE  row'[job'[j].dev].state # "DHCP_BOOT"
  <2> DEFINE d == job[j].dev
  <2>1. Busy(j) /\ job'[j].dev = d /\ job'[j].id = job[j].id /\ d \in Devices
    BY <1>4 DEF JobsKept, Busy, TypeOK, Job
  <2>2. row'[d] # NoRow /\ row'[d].id = job[j].id
    BY <1>4, <2>1 DEF ById, Exists, NoRow
  <2>3. ById(j)
    BY <2>1, <2>2 DEF RowsKept, ById
  <2>4. row[d].state # "DHCP_BOOT"
    BY <2>1, <2>3 DEF LateInv
  <2> HIDE DEF d
  <2> QED BY <2>1, <2>2, <2>4 DEF RowsKept
<1>5. FallsLate
  BY DEF FallsLate, RowsKept
<1> QED BY <1>1, <1>2, <1>3, <1>4, <1>5 DEF LateInv, Exists

\* A job ends, or one takes its place that waits.
LEMMA LateSet ==
  ASSUME TypeOK, LateInv, NEW j, NEW x, job' = [job EXCEPT ![j] = x],
         x = NoJob \/ (x.at = "wait" /\ x.id <= rows[x.dev])
  PROVE  JobsKept
<1>1. \A i \in Slots : job'[i] = IF i = j THEN x ELSE job[i]
  BY DEF TypeOK
<1> QED BY <1>1 DEF JobsKept, Searching, Busy, LateInv, IdInv

LEMMA LateEnd ==
  ASSUME TypeOK, LateInv, NEW j \in Slots, End(j)
  PROVE  JobsKept
BY LateSet DEF End

\* A job that has begun goes on.
LEMMA LateOn ==
  ASSUME TypeOK, LateInv, NEW j \in Slots, job[j] # NoJob, NEW x, job' = [job EXCEPT ![j] = x],
         x.dev = job[j].dev, x.id = job[j].id, x.kind = job[j].kind,
         job[j].kind = "discover" => Searching(j),
         job[j].kind \in FirstSteps \cup {"step2"} => Busy(j)
  PROVE  JobsKept
<1>1. \A i \in Slots : job'[i] = IF i = j THEN x ELSE job[i]
  BY DEF TypeOK
<1>2. job[j].id <= rows[job[j].dev]
  BY DEF LateInv, IdInv
<1> QED BY <1>1, <1>2 DEF JobsKept, Searching, Busy, LateInv, IdInv, FirstSteps

LEMMA GoSets ==
  ASSUME TypeOK, NEW j \in Slots, job[j] # NoJob, NEW at, Go(j, at)
  PROVE  \E x : /\ job' = [job EXCEPT ![j] = x]
                /\ x.at = at /\ x.dev = job[j].dev /\ x.id = job[j].id /\ x.kind = job[j].kind
<1> DEFINE x == [job[j] EXCEPT !.at = at]
<1>1. job[j] \in Job
  BY DEF TypeOK
<1>2. x.at = at /\ x.dev = job[j].dev /\ x.id = job[j].id /\ x.kind = job[j].kind
  BY <1>1 DEF Job
<1>3. job' = [job EXCEPT ![j] = x]
  BY DEF Go
<1> HIDE DEF x
<1> QED BY <1>2, <1>3

LEMMA LateGo ==
  ASSUME TypeOK, LateInv, NEW j \in Slots, job[j] # NoJob, NEW at, Go(j, at),
         job[j].kind = "discover" => Searching(j),
         job[j].kind \in FirstSteps \cup {"step2"} => Busy(j)
  PROVE  JobsKept
BY GoSets, LateOn

LEMMA NoRowsChange ==
  ASSUME TypeOK, UNCHANGED <<row, rows>>
  PROVE  RowsKept
BY DEF RowsKept, TypeOK, Exists, Row, NoRow

\* One row is stored.
LEMMA RowStored ==
  ASSUME TypeOK, UNCHANGED rows, NEW d \in Devices, NEW r, Store(d, r),
         \/ r = NoRow
         \/ /\ Exists(d) /\ r.id = row[d].id
            /\ \/ r.state = row[d].state
               \/ /\ r.state # "DHCP_BOOT"
                  /\ r.state = "DISCOVERED" => row[d].state = "DHCP_BOOT" \/ d \in overlap
                  /\ \A i \in Slots : (Searching(i)' /\ job'[i].dev = d) => d \in overlap'
  PROVE  RowsKept
<1>1. \A e \in Devices : row'[e] = IF e = d THEN r ELSE row[e]
  BY DEF Store, TypeOK
<1>2. \A e \in Devices : row[e] = NoRow \/ Exists(e)
  BY RowFacts DEF TypeOK
<1> QED BY <1>1, <1>2 DEF RowsKept

\* A device beyond its discovery is not searched for, but by a late discovery.
LEMMA NotSearched ==
  ASSUME LateInv, JobsKept, NEW d, Exists(d), row[d].state # "DHCP_BOOT", overlap \subseteq overlap'
  PROVE  \A i \in Slots : (Searching(i)' /\ job'[i].dev = d) => d \in overlap'
BY DEF LateInv, JobsKept

LEMMA HookLate ==
  ASSUME TypeOK, LateInv, NEW d \in Devices, DhcpHook(d)
  PROVE  LateInv' /\ FallsLate
<1>1. CASE ~Exists(d) /\ rows' = [rows EXCEPT ![d] = @ + 1] /\ Store(d, NewRow(d)) /\ UNCHANGED job
  <2>1. NewRow(d).state = "DHCP_BOOT" /\ NewRow(d).id = rows[d] + 1
    BY DEF NewRow
  <2>2. \A e \in Devices : row'[e] = IF e = d THEN NewRow(d) ELSE row[e]
    BY <1>1 DEF Store, TypeOK
  <2>3. /\ \A e \in Devices : rows[e] \in Nat /\ rows'[e] = IF e = d THEN rows[e] + 1 ELSE rows[e]
        /\ \A j \in Slots : job[j] # NoJob => job[j].dev \in Devices /\ job[j].id \in Nat
    BY <1>1 DEF TypeOK, Job
  <2>4. \A e \in Devices : row[e].id \in Nat
    BY DEF TypeOK, Row, NoRow
  <2>5. UNCHANGED <<job, overlap>>
    BY <1>1 DEF DhcpHook, hist
  <2>6. IdInv'
    BY <2>1, <2>2, <2>3, <2>4, <2>5 DEF LateInv, IdInv
  <2>7. ASSUME NEW j \in Slots, Searching(j)'
        PROVE  /\ rows'[job'[j].dev] >= 1
               /\ (row'[job'[j].dev].id # 0 /\ job'[j].dev \notin overlap') => row'[job'[j].dev].state = "DHCP_BOOT"
    <3>1. Searching(j) /\ job'[j] = job[j] /\ job[j].dev \in Devices /\ rows[job[j].dev] >= 1
      BY <2>3, <2>5, <2>7 DEF Searching, LateInv
    <3>2. job[j].dev # d => row'[job[j].dev] = row[job[j].dev]
      BY <2>2, <3>1
    <3> QED BY <2>1, <2>2, <2>3, <2>5, <3>1, <3>2 DEF LateInv, Exists
  <2>8. ASSUME NEW j \in Slots, Busy(j)', ById(j)'
        PROVE  row'[job'[j].dev].state # "DHCP_BOOT"
    <3>1. Busy(j) /\ job'[j] = job[j] /\ job[j].dev \in Devices /\ job[j].id \in Nat /\ job[j].id <= rows[job[j].dev]
      BY <2>3, <2>5, <2>8 DEF Busy, LateInv, IdInv
    <3>2. job[j].dev # d
      BY <2>1, <2>2, <2>3, <2>8, <3>1 DEF ById
    <3>3. row'[job[j].dev] = row[job[j].dev] /\ ById(j)
      BY <2>2, <2>8, <3>1, <3>2 DEF ById, Exists
    <3> QED BY <3>1, <3>3 DEF LateInv
  <2>9. \A i, j \in Slots : (i # j /\ Searching(i)' /\ Searching(j)' /\ job'[i].dev = job'[j].dev)
          => job'[i].dev \in overlap'
    BY <2>5 DEF LateInv, Searching
  <2>10. FallsLate
    BY <1>1, <2>1, <2>2 DEF FallsLate
  <2> QED BY <2>6, <2>7, <2>8, <2>9, <2>10 DEF LateInv, Exists
<1>2. CASE /\ UNCHANGED <<row, rows>>
           /\ \E i \in Free : job' = [job EXCEPT ![i] = New("discover", d, 0, 1, None)]
  <2> DEFINE x == New("discover", d, 0, 1, None)
  <2>1. x.at = "wait" /\ x.id = 0 /\ x.dev = d /\ rows[d] \in Nat
    BY DEF New, TypeOK
  <2>2. JobsKept
    <3> HIDE DEF x
    <3>1. x = NoJob \/ (x.at = "wait" /\ x.id <= rows[x.dev])
      BY <2>1
    <3>2. \E i \in Free : job' = [job EXCEPT ![i] = x]
      BY <1>2 DEF x
    <3> QED BY <3>1, <3>2, LateSet
  <2> QED BY <1>2, <2>2, NoRowsChange, LateKept DEF DhcpHook, hist
<1> QED BY <1>1, <1>2 DEF DhcpHook

LEMMA DiscoveryLate ==
  ASSUME TypeOK, LateInv, NEW j \in Slots,
         DiscoverStart(j) \/ DiscoverFails(j) \/ DiscoverFacts(j) \/ DiscoverStore(j)
  PROVE  LateInv' /\ FallsLate
<1> DEFINE d == job[j].dev
<1>1. job[j] # NoJob /\ job[j] \in Job /\ d \in Devices /\ job[j].kind = "discover" /\ rows[d] \in Nat
  BY JobFacts DEF DiscoverStart, DiscoverFails, DiscoverFacts, DiscoverStore, At, TypeOK
<1>2. CASE DiscoverStart(j)
  <2>1. CASE End(j) /\ UNCHANGED overlap
    BY <1>2, <2>1, LateEnd, NoRowsChange, LateKept DEF DiscoverStart
  <2>2. CASE /\ MayDiscover(d) /\ Go(j, "facts")
             /\ overlap' = IF \E k \in Others(j, {"discover"}, {"facts", "store"}) : job[k].dev = d
                           THEN overlap \cup {d} ELSE overlap
    <3>1. PICK x : /\ job' = [job EXCEPT ![j] = x]
                   /\ x.dev = d /\ x.id = job[j].id /\ x.kind = job[j].kind
      BY <1>1, <2>2, GoSets
    <3>2. \A i \in Slots : job'[i] = IF i = j THEN x ELSE job[i]
      BY <3>1 DEF TypeOK
    <3>3. UNCHANGED <<row, rows>> /\ overlap \subseteq overlap'
      BY <1>2, <2>2 DEF DiscoverStart
    <3>4. Exists(d) /\ row[d].state = "DHCP_BOOT" /\ rows[d] >= 1
      <4>1. Exists(d) /\ row[d].state = "DHCP_BOOT"
        BY <2>2 DEF MayDiscover
      <4>2. row[d].id \in Nat \ {0} /\ row[d].id <= rows[d]
        BY <1>1, <4>1, RowFacts DEF Row, LateInv, IdInv
      <4> QED BY <1>1, <4>1, <4>2
    <3> HIDE DEF d
    <3>5. IdInv'
      BY <1>1, <3>1, <3>2, <3>3 DEF LateInv, IdInv, d
    <3>6. ASSUME NEW i \in Slots, NEW k \in Slots, i # k, Searching(i)', Searching(k)', job'[i].dev = job'[k].dev
          PROVE  job'[i].dev \in overlap'
      <4>1. CASE i # j /\ k # j
        BY <3>2, <3>3, <3>6, <4>1 DEF LateInv, Searching
      <4>2. ASSUME NEW l \in Slots, l # j, Searching(l)', job'[l].dev = d PROVE d \in overlap'
        <5>1. Searching(l) /\ job[l].dev = d
          BY <3>2, <4>2 DEF Searching
        <5>2. l \in Others(j, {"discover"}, {"facts", "store"})
          BY <4>2, <5>1 DEF Others, Searching
        <5> QED BY <2>2, <5>1, <5>2
      <4> QED BY <3>1, <3>2, <3>6, <4>1, <4>2
    <3>7. ASSUME NEW i \in Slots, Searching(i)'
          PROVE  /\ rows'[job'[i].dev] >= 1
                 /\ (row'[job'[i].dev].id # 0 /\ job'[i].dev \notin overlap') => row'[job'[i].dev].state = "DHCP_BOOT"
      BY <3>1, <3>2, <3>3, <3>4, <3>7 DEF LateInv, Searching, Exists
    <3>8. ASSUME NEW i \in Slots, Busy(i)', ById(i)'
          PROVE  row'[job'[i].dev].state # "DHCP_BOOT"
      <4>1. i # j
        BY <1>1, <3>1, <3>2, <3>8 DEF Busy, FirstSteps
      <4> QED BY <3>2, <3>3, <3>8, <4>1 DEF LateInv, Busy, ById, Exists
    <3>9. FallsLate
      BY <3>3 DEF FallsLate
    <3> QED BY <3>5, <3>6, <3>7, <3>8, <3>9 DEF LateInv, Exists
  <2> QED BY <1>2, <2>1, <2>2 DEF DiscoverStart
<1>3. CASE DiscoverFails(j)
  <2> DEFINE x == New("discover", d, 0, job[j].it + 1, None)
  <2>1. x.at = "wait" /\ x.id = 0 /\ x.dev = d
    BY DEF New
  <2>2. job' = [job EXCEPT ![j] = x] \/ End(j)
    BY <1>3 DEF DiscoverFails
  <2>3. JobsKept
    <3> HIDE DEF x
    <3> QED BY <1>1, <2>1, <2>2, LateSet, LateEnd
  <2> QED BY <1>3, <2>3, NoRowsChange, LateKept DEF DiscoverFails, hist
<1>4. CASE DiscoverFacts(j)
  <2>1. Searching(j)
    BY <1>4 DEF DiscoverFacts, At, Searching
  <2>2. JobsKept
    BY <1>1, <1>4, <2>1, LateGo DEF DiscoverFacts, FirstSteps
  <2> QED BY <1>4, <2>2, NoRowsChange, LateKept DEF DiscoverFacts, hist
<1>5. CASE DiscoverStore(j)
  <2>1. Searching(j) /\ End(j) /\ UNCHANGED <<rows, overlap>>
    BY <1>5 DEF DiscoverStore, At, Searching, hist
  <2>2. JobsKept
    BY <2>1, LateEnd
  <2>3. CASE ~Exists(d)
    BY <1>5, <2>1, <2>2, <2>3, NoRowsChange, LateKept DEF DiscoverStore
  <2>4. CASE Exists(d)
    <3> DEFINE r == [row[d] EXCEPT !.state = "DISCOVERED"]
    <3>1. Store(d, r)
      BY <1>5, <2>4 DEF DiscoverStore
    <3>2. r.state = "DISCOVERED" /\ r.id = row[d].id
      BY <1>1, <2>4, RowFacts DEF Row
    <3>3. row[d].state = "DHCP_BOOT" \/ d \in overlap
      BY <2>1, <2>4 DEF LateInv
    <3>4. \A i \in Slots : (Searching(i)' /\ job'[i].dev = d) => d \in overlap'
      <4>1. \A i \in Slots : Searching(i)' => i # j /\ job'[i] = job[i] /\ Searching(i)
        BY <2>1 DEF End, TypeOK, Searching
      <4> QED BY <2>1, <4>1 DEF LateInv
    <3> HIDE DEF r, d
    <3>5. RowsKept
      BY <1>1, <2>1, <2>4, <3>1, <3>2, <3>3, <3>4, RowStored
    <3> QED BY <2>1, <2>2, <3>5, LateKept
  <2> QED BY <2>3, <2>4
<1> QED BY <1>2, <1>3, <1>4, <1>5

\* Rows keep identity and state; one job that is none of a discovery goes on or ends.
LEMMA ChooseLate ==
  ASSUME TypeOK, LateInv, NEW j \in Slots, job[j] # NoJob, job[j].kind # "discover", NEW cleared \in SUBSET Devices,
         \A e \in cleared : Exists(e), Choose(j, cleared), job[j].kind = "post" \/ Busy(j)
  PROVE  LateInv' /\ FallsLate
<1>1. row' = Clean(cleared) /\ UNCHANGED <<rows, overlap>>
  BY DEF Choose
<1>2. RowsKept
  <2>1. \A e \in Devices : row'[e] = IF e \in cleared THEN [row[e] EXCEPT !.resv = 0] ELSE row[e]
    BY <1>1 DEF Clean
  <2>2. \A e \in cleared : [row[e] EXCEPT !.resv = 0].id = row[e].id /\ [row[e] EXCEPT !.resv = 0].state = row[e].state
    BY RowFacts DEF Row
  <2>3. \A e \in Devices : row[e] = NoRow \/ Exists(e)
    BY RowFacts DEF TypeOK
  <2> QED BY <1>1, <2>1, <2>2, <2>3 DEF RowsKept
<1>3. ASSUME NEW a, job' = [job EXCEPT ![j].at = "chosen", ![j].addr = a]
      PROVE  JobsKept
  <2> DEFINE x == [job[j] EXCEPT !.at = "chosen", !.addr = a]
  <2>1. job[j] \in Job
    BY DEF TypeOK
  <2>2. x.dev = job[j].dev /\ x.id = job[j].id /\ x.kind = job[j].kind
    BY <2>1 DEF Job
  <2>3. job' = [job EXCEPT ![j] = x]
    BY <1>3
  <2> HIDE DEF x
  <2> QED BY <2>2, <2>3, LateOn DEF FirstSteps
<1>4. JobsKept
  BY <1>3, LateEnd DEF Choose
<1> QED BY <1>1, <1>2, <1>4, LateKept

LEMMA StepOneLate ==
  ASSUME TypeOK, LateInv, NEW j \in Slots,
         \/ StepOneStart(j) \/ StepOneRefused(j) \/ InitMlagPeerOnly(j) \/ StepOneChoose(j)
         \/ StepOneReserve(j) \/ StepOneSettings(j)
  PROVE  LateInv' /\ FallsLate
<1> DEFINE d == job[j].dev
<1>1. job[j] # NoJob /\ job[j] \in Job /\ d \in Devices /\ job[j].kind \in FirstSteps /\ job[j].kind # "discover"
  BY JobFacts DEF StepOneStart, StepOneRefused, InitMlagPeerOnly, StepOneChoose, StepOneReserve,
                  StepOneSettings, At, FirstSteps
<1>2. CASE StepOneStart(j)
  <2>1. PICK x : /\ job' = [job EXCEPT ![j] = x]
                 /\ x.dev = d /\ x.id = job[j].id /\ x.kind = job[j].kind
    BY <1>1, <1>2, GoSets DEF StepOneStart
  <2>2. \A i \in Slots : job'[i] = IF i = j THEN x ELSE job[i]
    BY <2>1 DEF TypeOK
  <2>3. UNCHANGED <<row, rows, overlap>> /\ row[d].state = "DISCOVERED"
    BY <1>2 DEF StepOneStart, Ready
  <2> HIDE DEF d
  <2>4. IdInv'
    BY <1>1, <2>1, <2>2, <2>3 DEF LateInv, IdInv, d
  <2>5. \A i \in Slots : Searching(i)' => i # j /\ Searching(i) /\ job'[i] = job[i]
    BY <1>1, <2>1, <2>2 DEF Searching
  <2>6. ASSUME NEW i \in Slots, Busy(i)', ById(i)'
        PROVE  row'[job'[i].dev].state # "DHCP_BOOT"
    <3>1. CASE i = j
      BY <2>1, <2>2, <2>3, <3>1
    <3>2. CASE i # j
      BY <2>2, <2>3, <2>6, <3>2 DEF LateInv, Busy, ById, Exists
    <3> QED BY <3>1, <3>2
  <2>7. FallsLate
    BY <2>3 DEF FallsLate
  <2> QED BY <2>3, <2>4, <2>5, <2>6, <2>7 DEF LateInv, Exists
<1>3. CASE StepOneRefused(j) \/ StepOneSettings(j)
  BY <1>3, LateEnd, NoRowsChange, LateKept DEF StepOneRefused, StepOneSettings, hist
<1>4. CASE InitMlagPeerOnly(j)
  <2> DEFINE p == job[j].peer
             x == New("ACCESS", p, row[p].id, 0, None)
  <2>1. p \in Devices /\ job' = [job EXCEPT ![j] = x]
    BY <1>1, <1>4 DEF InitMlagPeerOnly, Job
  <2>2. x.at = "wait" /\ x.id = row[p].id /\ x.dev = p /\ row[p].id <= rows[p]
    BY <2>1 DEF New, LateInv, IdInv
  <2>3. JobsKept
    <3> HIDE DEF x
    <3> QED BY <2>1, <2>2, LateSet
  <2> QED BY <1>4, <2>3, NoRowsChange, LateKept DEF InitMlagPeerOnly, hist
<1>5. CASE StepOneChoose(j)
  <2>1. Busy(j)
    BY <1>1, <1>5 DEF StepOneChoose, At, Busy
  <2> QED BY <1>1, <1>5, <2>1, ChooseLate, ChoicesClear DEF StepOneChoose
<1>6. CASE StepOneReserve(j)
  <2> DEFINE r == [row[d] EXCEPT !.resv = job[j].addr, !.renamed = TRUE]
  <2>1. Busy(j) /\ UNCHANGED <<rows, overlap>>
    BY <1>1, <1>6 DEF StepOneReserve, At, Busy, hist
  <2>2. JobsKept
    BY <1>1, <1>6, <2>1, LateGo, LateEnd DEF StepOneReserve
  <2>3. ById(j) => Exists(d) /\ r.state = row[d].state /\ r.id = row[d].id
    BY <1>1, RowFacts DEF Row, ById
  <2>4. (ById(j) /\ Store(d, r)) \/ UNCHANGED row
    BY <1>6 DEF StepOneReserve
  <2>5. RowsKept
    <3> HIDE DEF r, d
    <3> QED BY <1>1, <2>1, <2>3, <2>4, RowStored, NoRowsChange
  <2> QED BY <2>1, <2>2, <2>5, LateKept
<1> QED BY <1>2, <1>3, <1>4, <1>5, <1>6

LEMMA PushLate ==
  ASSUME TypeOK, LateInv, NEW j \in Slots,
         PushBaseManagement(j) \/ StepOneCommit(j) \/ StepOneRollback(j) \/ StepOneNext(j)
  PROVE  LateInv' /\ FallsLate
<1> DEFINE d == job[j].dev
<1>1. job[j] # NoJob /\ job[j] \in Job /\ d \in Devices /\ job[j].kind # "discover" /\ Busy(j)
  BY JobFacts DEF PushBaseManagement, StepOneCommit, StepOneRollback, StepOneNext, At, FirstSteps, Busy
<1>2. CASE PushBaseManagement(j)
  <2>1. JobsKept
    BY <1>1, <1>2, LateGo DEF PushBaseManagement, Moved, Refused
  <2> QED BY <1>2, <2>1, NoRowsChange, LateKept DEF PushBaseManagement, hist
<1>3. CASE StepOneCommit(j)
  <2> DEFINE r == Initialised(d, job[j].kind, job[j].addr)
  <2>1. UNCHANGED <<rows, overlap>>
    BY <1>3 DEF StepOneCommit
  <2>2. JobsKept
    BY <1>1, <1>3, LateGo, LateEnd DEF StepOneCommit
  <2>3. CASE ~ById(j)
    BY <1>3, <2>1, <2>2, <2>3, NoRowsChange, LateKept DEF StepOneCommit
  <2>4. CASE ById(j)
    <3>1. Exists(d) /\ Store(d, r) /\ row[d].state # "DHCP_BOOT"
      BY <1>1, <1>3, <2>4 DEF StepOneCommit, ById, LateInv
    <3>2. r.state = "INIT" /\ r.id = row[d].id
      BY <1>1, <3>1, RowFacts DEF Initialised, Row
    <3>3. \A i \in Slots : (Searching(i)' /\ job'[i].dev = d) => d \in overlap'
      BY <2>1, <2>2, <3>1, NotSearched
    <3> HIDE DEF r, d
    <3>4. RowsKept
      BY <1>1, <2>1, <3>1, <3>2, <3>3, RowStored
    <3> QED BY <2>1, <2>2, <3>4, LateKept
  <2> QED BY <2>3, <2>4
<1>4. CASE StepOneRollback(j)
  <2> DEFINE r == [row[d] EXCEPT !.renamed = FALSE, !.resv = 0]
  <2>1. UNCHANGED <<rows, overlap>>
    BY <1>4 DEF StepOneRollback, hist
  <2>2. JobsKept
    BY <1>4, LateEnd DEF StepOneRollback
  <2>3. ById(j) => Exists(d) /\ r.state = row[d].state /\ r.id = row[d].id
    BY <1>1, RowFacts DEF Row, ById
  <2>4. (ById(j) /\ Store(d, r)) \/ UNCHANGED row
    BY <1>4 DEF StepOneRollback
  <2>5. RowsKept
    <3> HIDE DEF r, d
    <3> QED BY <1>1, <2>1, <2>3, <2>4, RowStored, NoRowsChange
  <2> QED BY <2>1, <2>2, <2>5, LateKept
<1>5. CASE StepOneNext(j)
  <2> DEFINE x == New("step2", d, job[j].id, 1, None)
             p == job[j].peer
             y == New("ACCESS", p, row[p].id, 0, None)
  <2>1. /\ x.at = "wait" /\ x.id = job[j].id /\ x.dev = d /\ job[j].id <= rows[d]
        /\ y.at = "wait" /\ y.id = row[p].id /\ y.dev = p
    BY <1>1 DEF New, LateInv, IdInv
  <2>2. p \in Devices => row[p].id <= rows[p]
    BY DEF LateInv, IdInv
  <2>3. UNCHANGED <<row, rows, overlap>>
    BY <1>5 DEF StepOneNext, hist
  <2>4. \/ job' = [job EXCEPT ![j] = x]
        \/ p \in Devices /\ \E k \in Free : job' = [job EXCEPT ![j] = x, ![k] = y]
    BY <1>1, <1>5 DEF StepOneNext, Job
  <2> HIDE DEF x, y, p
  <2>5. \A i \in Slots : job'[i] \in {x, job[i]} \/ (job'[i] = y /\ p \in Devices)
    BY <2>4 DEF TypeOK
  <2>6. JobsKept
    BY <2>1, <2>2, <2>5 DEF JobsKept, Searching, Busy, LateInv, IdInv
  <2> QED BY <2>3, <2>6, NoRowsChange, LateKept
<1> QED BY <1>2, <1>3, <1>4, <1>5

LEMMA StepTwoLate ==
  ASSUME TypeOK, LateInv, NEW j \in Slots,
         StepTwoStart(j) \/ StepTwoFails(j) \/ StepTwoFacts(j) \/ StepTwoStore(j)
  PROVE  LateInv' /\ FallsLate
<1> DEFINE d == job[j].dev
<1>1. job[j] # NoJob /\ job[j] \in Job /\ d \in Devices /\ job[j].kind = "step2"
  BY JobFacts DEF StepTwoStart, StepTwoFails, StepTwoFacts, StepTwoStore, At
<1>2. CASE StepTwoStart(j)
  <2>1. UNCHANGED <<row, rows, overlap>>
    BY <1>2 DEF StepTwoStart, hist
  <2>2. CASE End(j)
    BY <2>1, <2>2, LateEnd, NoRowsChange, LateKept
  <2>3. CASE Go(j, "facts") /\ row[d].state = "INIT"
    <3>1. PICK x : /\ job' = [job EXCEPT ![j] = x]
                   /\ x.dev = d /\ x.id = job[j].id /\ x.kind = job[j].kind
      BY <1>1, <2>3, GoSets
    <3>2. \A i \in Slots : job'[i] = IF i = j THEN x ELSE job[i]
      BY <3>1 DEF TypeOK
    <3> HIDE DEF d
    <3>3. IdInv'
      BY <1>1, <2>1, <3>1, <3>2 DEF LateInv, IdInv, d
    <3>4. \A i \in Slots : Searching(i)' => i # j /\ Searching(i) /\ job'[i] = job[i]
      BY <1>1, <3>1, <3>2 DEF Searching
    <3>5. ASSUME NEW i \in Slots, Busy(i)', ById(i)'
          PROVE  row'[job'[i].dev].state # "DHCP_BOOT"
      <4>1. CASE i = j
        BY <2>1, <2>3, <3>1, <3>2, <4>1
      <4>2. CASE i # j
        BY <2>1, <3>2, <3>5, <4>2 DEF LateInv, Busy, ById, Exists
      <4> QED BY <4>1, <4>2
    <3>6. FallsLate
      BY <2>1 DEF FallsLate
    <3> QED BY <2>1, <3>3, <3>4, <3>5, <3>6 DEF LateInv, Exists
  <2> QED BY <1>2, <2>2, <2>3 DEF StepTwoStart
<1>3. CASE StepTwoFails(j)
  <2> DEFINE x == New("step2", d, job[j].id, job[j].it + 1, None)
  <2>1. x.at = "wait" /\ x.id = job[j].id /\ x.dev = d /\ job[j].id <= rows[d]
    BY <1>1 DEF New, LateInv, IdInv
  <2>2. job' = [job EXCEPT ![j] = x] \/ End(j)
    BY <1>3 DEF StepTwoFails
  <2>3. JobsKept
    <3> HIDE DEF x
    <3> QED BY <2>1, <2>2, LateSet, LateEnd
  <2> QED BY <1>3, <2>3, NoRowsChange, LateKept DEF StepTwoFails
<1>4. CASE StepTwoFacts(j)
  <2>1. Busy(j)
    BY <1>1, <1>4 DEF StepTwoFacts, At, Busy
  <2>2. JobsKept
    BY <1>1, <1>4, <2>1, LateGo, LateEnd DEF StepTwoFacts
  <2> QED BY <1>4, <2>2, NoRowsChange, LateKept DEF StepTwoFacts
<1>5. CASE StepTwoStore(j)
  <2> DEFINE r == [row[d] EXCEPT !.state = "MANAGED"]
  <2>1. UNCHANGED <<rows, overlap>> /\ Busy(j)
    BY <1>1, <1>5 DEF StepTwoStore, hist, At, Busy
  <2>2. JobsKept
    BY <1>5, LateEnd DEF StepTwoStore
  <2>3. CASE ~ById(j)
    BY <1>5, <2>1, <2>2, <2>3, NoRowsChange, LateKept DEF StepTwoStore
  <2>4. CASE ById(j)
    <3>1. Exists(d) /\ Store(d, r) /\ row[d].state # "DHCP_BOOT"
      BY <1>5, <2>1, <2>4 DEF StepTwoStore, ById, LateInv
    <3>2. r.state = "MANAGED" /\ r.id = row[d].id
      BY <1>1, <3>1, RowFacts DEF Row
    <3>3. \A i \in Slots : (Searching(i)' /\ job'[i].dev = d) => d \in overlap'
      BY <2>1, <2>2, <3>1, NotSearched
    <3> HIDE DEF r, d
    <3>4. RowsKept
      BY <1>1, <2>1, <3>1, <3>2, <3>3, RowStored
    <3> QED BY <2>1, <2>2, <3>4, LateKept
  <2> QED BY <2>3, <2>4
<1> QED BY <1>2, <1>3, <1>4, <1>5

LEMMA EraseLate ==
  ASSUME TypeOK, LateInv, NEW j \in Slots,
         EraseStart(j) \/ EraseTask(j) \/ EraseDelete(j) \/ PostChoose(j) \/ PostStore(j)
  PROVE  LateInv' /\ FallsLate
<1> DEFINE d == job[j].dev
<1>1. job[j] # NoJob /\ job[j] \in Job /\ d \in Devices /\ job[j].kind \in {"erase", "post"}
  BY JobFacts DEF EraseStart, EraseTask, EraseDelete, PostChoose, PostStore, At
<1>2. CASE EraseStart(j) \/ EraseTask(j)
  <2>1. JobsKept
    BY <1>1, <1>2, LateGo, LateEnd DEF EraseStart, EraseTask, FirstSteps
  <2> QED BY <1>2, <2>1, NoRowsChange, LateKept DEF EraseStart, EraseTask, hist
<1>3. CASE EraseDelete(j)
  <2>1. JobsKept /\ UNCHANGED <<rows, overlap>>
    BY <1>3, LateEnd DEF EraseDelete, hist
  <2>2. RowsKept
    BY <1>1, <1>3, <2>1, RowStored, NoRowsChange DEF EraseDelete
  <2> QED BY <2>1, <2>2, LateKept
<1>4. CASE PostChoose(j)
  BY <1>1, <1>4, ChooseLate DEF PostChoose, At
<1>5. CASE PostStore(j)
  <2> DEFINE r == [NewRow(d) EXCEPT !.state = "MANAGED", !.type = "FABRIC", !.renamed = TRUE, !.mgmt = job[j].addr]
  <2>1. End(j) /\ UNCHANGED overlap
    BY <1>5 DEF PostStore, hist
  <2>2. CASE UNCHANGED <<row, rows>>
    BY <2>1, <2>2, LateEnd, NoRowsChange, LateKept
  <2>3. CASE rows[d] = 0 /\ rows' = [rows EXCEPT ![d] = 1] /\ Store(d, r)
    <3>1. r.state = "MANAGED" /\ r.id = rows[d] + 1
      BY DEF NewRow
    <3>2. \A e \in Devices : row'[e] = IF e = d THEN r ELSE row[e]
      BY <2>3 DEF Store, TypeOK
    <3>3. \A e \in Devices : rows[e] \in Nat /\ rows'[e] = IF e = d THEN 1 ELSE rows[e]
      BY <2>3 DEF TypeOK
    <3>4. \A i \in Slots : job'[i] = NoJob \/ (job'[i] = job[i] /\ job[i] \in Job)
      BY <2>1 DEF End, TypeOK
    <3>5. row[d] = NoRow
      <4>1. row[d] \in Row => row[d].id >= 1
        BY DEF Row
      <4>2. row[d].id <= 0
        BY <1>1, <2>3 DEF LateInv, IdInv
      <4>3. row[d] \in Row => row[d].id \in Nat
        BY DEF Row
      <4> QED BY <1>1, <4>1, <4>2, <4>3 DEF TypeOK
    <3> HIDE DEF r, d
    <3>6. IdInv'
      <4>1. \A e \in Devices : row'[e].id <= rows'[e]
        BY <2>3, <3>1, <3>2, <3>3 DEF LateInv, IdInv
      <4>2. ASSUME NEW i \in Slots, job'[i] # NoJob PROVE job'[i].id <= rows'[job'[i].dev]
        <5>1. /\ job'[i] = job[i] /\ job[i].dev \in Devices /\ job[i].id \in Nat
              /\ job[i].id <= rows[job[i].dev]
          BY <3>4, <4>2 DEF Job, LateInv, IdInv
        <5> QED BY <2>3, <3>3, <5>1
      <4> QED BY <4>1, <4>2 DEF IdInv
    <3>7. \A i \in Slots : Searching(i)' => Searching(i) /\ job'[i] = job[i] /\ job[i].dev \in Devices
      BY <3>4 DEF Searching, Job
    <3>8. \A i \in Slots : Searching(i)' => job[i].dev # d
      BY <2>3, <3>7 DEF LateInv
    <3>9. ASSUME NEW i \in Slots, Busy(i)', ById(i)'
          PROVE  row'[job'[i].dev].state # "DHCP_BOOT"
      <4>1. Busy(i) /\ job'[i] = job[i] /\ job[i].dev \in Devices
        BY <3>4, <3>9 DEF Busy, Job
      <4>2. CASE job[i].dev = d
        BY <3>1, <3>2, <4>1, <4>2
      <4>3. CASE job[i].dev # d
        BY <3>2, <3>9, <4>1, <4>3 DEF LateInv, ById, Exists
      <4> QED BY <4>2, <4>3
    <3>10. FallsLate
      BY <3>1, <3>2 DEF FallsLate
    <3> QED BY <2>1, <3>2, <3>3, <3>6, <3>7, <3>8, <3>9, <3>10 DEF LateInv, Exists
  <2> QED BY <1>5, <2>2, <2>3 DEF PostStore
<1> QED BY <1>2, <1>3, <1>4, <1>5

LEMMA OperatorLate ==
  ASSUME TypeOK, LateInv, NEW d \in Devices, Operator(d)
  PROVE  LateInv' /\ FallsLate
<1>0. row[d].id <= rows[d] /\ rows[d] \in Nat
  BY DEF LateInv, IdInv, TypeOK
<1>1. ASSUME NEW kind \in FirstSteps, NEW peer \in Devices \cup {None}, DeviceInit(d, kind, peer)
      PROVE  LateInv' /\ FallsLate
  <2>1. \A x \in {New("step2", d, row[d].id, 1, None), New(kind, d, row[d].id, 0, peer)} :
          x.at = "wait" /\ x.id = row[d].id /\ x.dev = d
    BY DEF New
  <2>2. \E j \in Free, x \in {New("step2", d, row[d].id, 1, None), New(kind, d, row[d].id, 0, peer)} :
          job' = [job EXCEPT ![j] = x]
    BY <1>1 DEF DeviceInit
  <2>3. JobsKept
    BY <1>0, <2>1, <2>2, LateSet
  <2> QED BY <1>1, <2>3, NoRowsChange, LateKept DEF DeviceInit
<1>2. CASE PutState(d)
  <2>1. UNCHANGED <<job, rows, overlap>> /\ Exists(d) /\ row[d].state # "DHCP_BOOT" /\ row[d] \in Row
    BY <1>2, RowFacts DEF PutState, hist
  <2>2. JobsKept
    BY <2>1 DEF JobsKept, Searching, Busy, LateInv, IdInv
  <2>3. PICK s \in {"MANAGED", "UNMANAGED"} : Store(d, [row[d] EXCEPT !.state = s])
    BY <1>2 DEF PutState
  <2> DEFINE r == [row[d] EXCEPT !.state = s]
  <2>4. r.state = s /\ r.id = row[d].id /\ Store(d, r)
    BY <2>1, <2>3 DEF Row
  <2>5. \A i \in Slots : (Searching(i)' /\ job'[i].dev = d) => d \in overlap'
    BY <2>1, <2>2, NotSearched
  <2> HIDE DEF r
  <2>6. RowsKept
    BY <2>1, <2>4, <2>5, RowStored
  <2> QED BY <2>1, <2>2, <2>6, LateKept
<1>3. CASE DeleteDevice(d)
  <2>1. UNCHANGED <<job, rows, overlap>>
    BY <1>3 DEF DeleteDevice
  <2>2. JobsKept
    BY <2>1 DEF JobsKept, Searching, Busy, LateInv, IdInv
  <2>3. RowsKept
    BY <1>3, <2>1, RowStored DEF DeleteDevice
  <2> QED BY <2>1, <2>2, <2>3, LateKept
<1>4. CASE FactoryDefault(d) \/ AddFabric(d)
  <2>1. \A x \in {New("erase", d, row[d].id, 0, None), New("post", d, 0, 0, None)} :
          x.at = "wait" /\ x.dev = d /\ x.id <= rows[d]
    BY <1>0 DEF New
  <2>2. \E j \in Free, x \in {New("erase", d, row[d].id, 0, None), New("post", d, 0, 0, None)} :
          job' = [job EXCEPT ![j] = x]
    BY <1>4 DEF FactoryDefault, AddFabric
  <2>3. JobsKept
    BY <2>1, <2>2, LateSet
  <2> QED BY <1>4, <2>3, NoRowsChange, LateKept DEF FactoryDefault, AddFabric, hist
<1> QED BY <1>1, <1>2, <1>3, <1>4 DEF Operator

LEMMA RestartLate ==
  ASSUME TypeOK, LateInv, Restart
  PROVE  LateInv' /\ FallsLate
<1>1. PICK gone : job' = [j \in Slots |-> IF j \in gone THEN NoJob ELSE job[j]]
  BY DEF Restart
<1>2. JobsKept
  BY <1>1 DEF JobsKept, Searching, Busy, LateInv, IdInv
<1> QED BY <1>2, NoRowsChange, LateKept DEF Restart

LEMMA LateInit == Init => LateInv
BY DEF Init, LateInv, IdInv, Searching, Busy, NoRow

LEMMA LateStep == TypeOK /\ LateInv /\ [Next]_vars => LateInv' /\ FallsLate
<1> SUFFICES ASSUME TypeOK, LateInv, [Next]_vars PROVE LateInv' /\ FallsLate
  OBVIOUS
<1>1. ASSUME NEW d \in Devices, DhcpHook(d) PROVE LateInv' /\ FallsLate
  BY <1>1, HookLate
<1>2. ASSUME NEW j \in Slots, JobStep(j) PROVE LateInv' /\ FallsLate
  BY <1>2, DiscoveryLate, StepOneLate, PushLate, StepTwoLate, EraseLate DEF JobStep
<1>3. CASE UNCHANGED vars
  <2>1. JobsKept
    BY <1>3 DEF vars, hist, JobsKept, Searching, Busy, LateInv, IdInv
  <2> QED BY <1>3, <2>1, NoRowsChange, LateKept DEF vars, hist
<1> QED BY <1>1, <1>2, <1>3, OperatorLate, RestartLate DEF Next

\* A device falls back to DISCOVERED only by a discovery that ran beside another
\* one of the same device (discover_device).
THEOREM FallsBackLate == Spec => FallsBackOnlyLate
<1>1. TypeOK /\ LateInv /\ [Next]_vars =>
        [\A d \in Devices :
           (/\ Exists(d) /\ row[d].state \in {"INIT", "MANAGED", "UNMANAGED"}
            /\ row'[d] # NoRow /\ row'[d].state = "DISCOVERED") => d \in overlap]_vars
  BY LateStep DEF FallsLate
<1>2. TypeOK /\ LateInv /\ [Next]_vars => LateInv'
  BY LateStep
<1> QED BY <1>1, <1>2, TypeInit, TypeStep, LateInit, PTL DEF Spec, FallsBackOnlyLate

(***************************************************************************)
(* Who holds the address that a device answers on.                         *)
(***************************************************************************)
\* The stages of a first step that has passed its checks, up to its commit.
PreCommit == {"checked", "chosen", "reserved", "moved", "refused"}
InFirst(j) == job[j] # NoJob /\ job[j].kind \in FirstSteps /\ job[j].at \in PreCommit \cup {"next"}
InService == {"MANAGED", "UNMANAGED"}

\* A job that knows something of its device.
Engaged(x) ==
  \/ x.kind \in FirstSteps /\ x.at \in PreCommit
  \/ x.kind = "step2" /\ x.at \in {"facts", "store"}
  \/ x.kind = "erase" /\ x.at \in {"wipe", "delete"}

\* The job that has wiped a device has not deleted its row yet.
Wiped(d) == \E j \in Slots : At(j, {"erase"}, "delete") /\ job[j].dev = d /\ ById(j)
There(d) == plant[d] = row[d].mgmt \/ Wiped(d)

\* What a job knows of its device at each stage.
StageOK(j) ==
  LET d == job[j].dev IN
  /\ (job[j].kind \in FirstSteps /\ job[j].at \in PreCommit) => row[d].state = "DISCOVERED"
  /\ At(j, FirstSteps, "chosen") => row[d].resv = 0 /\ plant[d] = 0
  /\ At(j, FirstSteps, "reserved") => row[d].resv = job[j].addr /\ plant[d] = 0
  /\ At(j, FirstSteps, "moved") => plant[d] \in {0, job[j].addr}
  /\ At(j, FirstSteps, "refused") => plant[d] = 0
  /\ (job[j].kind = "step2" /\ job[j].at \in {"facts", "store"}) => row[d].state \in InService \cup {"INIT"}
  /\ At(j, {"step2"}, "store") => There(d)
  /\ (job[j].kind = "erase" /\ job[j].at \in {"wipe", "delete"}) => row[d].state \in InService
  /\ At(j, {"erase"}, "delete") => plant[d] = 0

DeviceOK(d) ==
  /\ plant[d] # 0 => Holds(d, plant[d])
  /\ (Exists(d) /\ row[d].state \in {"DHCP_BOOT", "DISCOVERED"}) => row[d].mgmt = 0
  /\ (Exists(d) /\ row[d].state \in InService) => There(d)
  /\ \A j \in Slots : (job[j] # NoJob /\ job[j].dev = d /\ ById(j)) => StageOK(j)

FirstOnce == \A i, j \in Slots : (i # j /\ InFirst(i) /\ InFirst(j) /\ job[i].dev = job[j].dev) => job[i].dev \in twice
HeldInv == FirstOnce /\ \A d \in Devices : d \notin Spoiled => DeviceOK(d)

LEMMA SpoiledGrows ==
  ASSUME twice \subseteq twice', overlap \subseteq overlap', lost \subseteq lost', raced \subseteq raced'
  PROVE  Spoiled \subseteq Spoiled'
BY DEF Spoiled

LEMMA SpoiledStays == UNCHANGED hist => Spoiled \subseteq Spoiled'
BY SpoiledGrows DEF hist

LEMMA PassiveOK ==
  ASSUME NEW j, ~Engaged(job'[j])
  PROVE  StageOK(j)'
BY DEF StageOK, At, Engaged, PreCommit

\* A device of which nothing changes but its jobs, each of which is as it was or
\* where it may be.
LEMMA DeviceKept ==
  ASSUME HeldInv, Spoiled \subseteq Spoiled', NEW d \in Devices, d \notin Spoiled',
         row'[d] = row[d], plant'[d] = plant[d],
         \A i \in Slots : (At(i, {"erase"}, "delete") /\ job[i].dev = d /\ ById(i)) => job'[i] = job[i],
         \A i \in Slots : (job'[i] # NoJob /\ job'[i].dev = d /\ ById(i)') => job'[i] = job[i] \/ StageOK(i)'
  PROVE  DeviceOK(d)'
<1>1. DeviceOK(d)
  BY DEF HeldInv
<1>2. Wiped(d) => Wiped(d)'
  BY DEF Wiped, At, ById, Exists
<1>3. There(d) => There(d)'
  BY <1>2 DEF There
<1>4. ASSUME NEW i \in Slots, job'[i] # NoJob, job'[i].dev = d, ById(i)'
      PROVE  StageOK(i)'
  <2>1. CASE job'[i] = job[i]
    <3>1. ById(i)
      BY <1>4, <2>1 DEF ById, Exists
    <3>2. StageOK(i)
      BY <1>1, <1>4, <2>1, <3>1 DEF DeviceOK
    <3> QED BY <1>3, <1>4, <2>1, <3>2 DEF StageOK, At
  <2> QED BY <1>4, <2>1
<1> QED BY <1>1, <1>3, <1>4 DEF DeviceOK, Holds, Exists

\* The same for a step of one job.
LEMMA OneJob ==
  ASSUME HeldInv, Spoiled \subseteq Spoiled', NEW j \in Slots, NEW x,
         \A i \in Slots : job'[i] = IF i = j THEN x ELSE job[i],
         NEW d \in Devices, d \notin Spoiled', row'[d] = row[d], plant'[d] = plant[d],
         (At(j, {"erase"}, "delete") /\ ById(j)) => job[j].dev # d,
         x = NoJob \/ ~Engaged(x) \/ x.dev # d \/ StageOK(j)'
  PROVE  DeviceOK(d)'
<1>1. \A i \in Slots : (At(i, {"erase"}, "delete") /\ job[i].dev = d /\ ById(i)) => job'[i] = job[i]
  OBVIOUS
<1>2. \A i \in Slots : (job'[i] # NoJob /\ job'[i].dev = d /\ ById(i)') => job'[i] = job[i] \/ StageOK(i)'
  BY PassiveOK
<1> QED BY <1>1, <1>2, DeviceKept

\* Who has passed the checks.
FirstsKept == \A i \in Slots : InFirst(i)' => InFirst(i) /\ job'[i].dev = job[i].dev

LEMMA OnceKept ==
  ASSUME FirstOnce, twice \subseteq twice', FirstsKept
  PROVE  FirstOnce'
BY DEF FirstOnce, FirstsKept

LEMMA FirstsSet ==
  ASSUME NEW j \in Slots, NEW x, \A i \in Slots : job'[i] = IF i = j THEN x ELSE job[i],
         \/ x = NoJob \/ x.at = "wait" \/ x.kind \notin FirstSteps
         \/ InFirst(j) /\ x.dev = job[j].dev
  PROVE  FirstsKept
BY DEF FirstsKept, InFirst, PreCommit

LEMMA OneJobSet ==
  ASSUME TypeOK, NEW j, NEW x, job' = [job EXCEPT ![j] = x]
  PROVE  \A i \in Slots : job'[i] = IF i = j THEN x ELSE job[i]
BY DEF TypeOK

\* A job that goes on to another stage.
LEMMA GoesOn ==
  ASSUME TypeOK, NEW j \in Slots, job[j] # NoJob, NEW at, Go(j, at)
  PROVE  \E x : /\ \A i \in Slots : job'[i] = IF i = j THEN x ELSE job[i]
                /\ x # NoJob /\ x.at = at /\ x.dev = job[j].dev /\ x.id = job[j].id
                /\ x.kind = job[j].kind /\ x.addr = job[j].addr
<1> DEFINE x == [job[j] EXCEPT !.at = at]
<1>1. job[j] \in Job
  BY DEF TypeOK
<1>2. /\ x # NoJob /\ x.at = at /\ x.dev = job[j].dev /\ x.id = job[j].id
      /\ x.kind = job[j].kind /\ x.addr = job[j].addr
  BY <1>1 DEF Job, NoJob
<1>3. \A i \in Slots : job'[i] = IF i = j THEN x ELSE job[i]
  BY DEF Go, TypeOK
<1> HIDE DEF x
<1> QED BY <1>2, <1>3

LEMMA EndsAll ==
  ASSUME TypeOK, NEW j \in Slots, End(j)
  PROVE  \A i \in Slots : job'[i] = IF i = j THEN NoJob ELSE job[i]
BY DEF End, TypeOK

\* Beside a first step that has passed its checks no other job is about its device.
LEMMA FirstAlone ==
  ASSUME TypeOK, HeldInv, NEW j \in Slots, InFirst(j), job[j].at \in PreCommit, ById(j), job[j].dev \notin Spoiled,
         NEW i \in Slots, i # j, job[i] # NoJob, job[i].dev = job[j].dev, ById(i)
  PROVE  ~Engaged(job[i])
<1> DEFINE d == job[j].dev
<1>1. d \in Devices /\ d \notin twice
  BY DEF InFirst, TypeOK, Job, Spoiled
<1>2. ~InFirst(i)
  BY <1>1 DEF HeldInv, FirstOnce
<1>3. StageOK(j) /\ StageOK(i)
  BY <1>1 DEF HeldInv, DeviceOK, InFirst
<1>4. row[d].state = "DISCOVERED"
  BY <1>3 DEF StageOK, InFirst
<1> QED BY <1>2, <1>3, <1>4 DEF StageOK, InService, InFirst, Engaged

LEMMA HookHeld ==
  ASSUME TypeOK, LateInv, HeldInv, NEW d \in Devices, DhcpHook(d)
  PROVE  HeldInv'
<1>1. Spoiled \subseteq Spoiled' /\ UNCHANGED <<plant, twice>> /\ plant[d] = 0
  BY SpoiledStays DEF DhcpHook, hist
<1>2. CASE ~Exists(d) /\ Store(d, NewRow(d)) /\ UNCHANGED job
  <2>1. \A e \in Devices : row'[e] = IF e = d THEN NewRow(d) ELSE row[e]
    BY <1>2 DEF Store, TypeOK
  <2>2. FirstOnce'
    BY <1>1, <1>2, OnceKept DEF HeldInv, FirstsKept, InFirst
  <2>3. ASSUME NEW e \in Devices, e \notin Spoiled', e # d
        PROVE  DeviceOK(e)'
    <3>1. row'[e] = row[e] /\ plant'[e] = plant[e]
      BY <1>1, <2>1, <2>3
    <3> QED BY <1>1, <1>2, <2>3, <3>1, DeviceKept
  <2>4. DeviceOK(d)'
    <3>1. NewRow(d).state = "DHCP_BOOT" /\ NewRow(d).mgmt = 0 /\ NewRow(d).id = rows[d] + 1
      BY DEF NewRow
    <3>2. \A i \in Slots : (job[i] # NoJob /\ job[i].dev = d) => job[i].id # rows[d] + 1
      <4>1. \A i \in Slots : (job[i] # NoJob /\ job[i].dev = d) => job[i].id <= rows[d] /\ job[i].id \in Nat
        BY DEF LateInv, IdInv, TypeOK, Job
      <4>2. rows[d] \in Nat
        BY DEF TypeOK
      <4> QED BY <4>1, <4>2
    <3>3. \A i \in Slots : ~(job'[i] # NoJob /\ job'[i].dev = d /\ ById(i)')
      BY <1>2, <2>1, <3>1, <3>2 DEF ById
    <3> QED BY <1>1, <2>1, <3>1, <3>3 DEF DeviceOK, InService
  <2> QED BY <2>2, <2>3, <2>4 DEF HeldInv
<1>3. CASE UNCHANGED row /\ \E j \in Free : job' = [job EXCEPT ![j] = New("discover", d, 0, 1, None)]
  <2> DEFINE x == New("discover", d, 0, 1, None)
  <2>1. x.kind = "discover"
    BY DEF New
  <2>2. PICK j \in Free : \A i \in Slots : job'[i] = IF i = j THEN x ELSE job[i]
    BY <1>3, OneJobSet
  <2>3. j \in Slots /\ job[j] = NoJob /\ ~Engaged(x) /\ x.kind \notin FirstSteps
    BY <2>1 DEF Free, Engaged, FirstSteps
  <2> HIDE DEF x
  <2>4. FirstOnce'
    BY <1>1, <2>2, <2>3, FirstsSet, OnceKept DEF HeldInv
  <2>5. \A e \in Devices : e \notin Spoiled' => DeviceOK(e)'
    BY <1>1, <1>3, <2>2, <2>3, OneJob DEF At
  <2> QED BY <2>4, <2>5 DEF HeldInv
<1> QED BY <1>2, <1>3 DEF DhcpHook

\* One job changes, and nothing of a device: what the job knows next is so.
LEMMA JobHeld ==
  ASSUME TypeOK, HeldInv, Spoiled \subseteq Spoiled', twice \subseteq twice', UNCHANGED <<row, plant>>,
         NEW j \in Slots, NEW x, \A i \in Slots : job'[i] = IF i = j THEN x ELSE job[i],
         \/ x = NoJob \/ x.at = "wait" \/ x.kind \notin FirstSteps
         \/ InFirst(j) /\ x.dev = job[j].dev,
         (At(j, {"erase"}, "delete") /\ ById(j)) => job[j].dev \in Spoiled',
         x = NoJob \/ ~Engaged(x) \/ x.dev \in Spoiled' \/ StageOK(j)'
  PROVE  HeldInv'
<1>1. FirstOnce'
  BY FirstsSet, OnceKept DEF HeldInv
<1>2. \A d \in Devices : d \notin Spoiled' => DeviceOK(d)'
  BY OneJob
<1> QED BY <1>1, <1>2 DEF HeldInv

LEMMA JobEndHeld ==
  ASSUME TypeOK, HeldInv, Spoiled \subseteq Spoiled', twice \subseteq twice', UNCHANGED <<row, plant>>,
         NEW j \in Slots, End(j), ~(At(j, {"erase"}, "delete") /\ ById(j))
  PROVE  HeldInv'
BY EndsAll, JobHeld

LEMMA JobNewHeld ==
  ASSUME TypeOK, HeldInv, Spoiled \subseteq Spoiled', twice \subseteq twice', UNCHANGED <<row, plant>>,
         NEW j \in Slots, NEW x, job' = [job EXCEPT ![j] = x], x.at = "wait",
         ~(At(j, {"erase"}, "delete") /\ ById(j))
  PROVE  HeldInv'
<1>1. ~Engaged(x)
  BY DEF Engaged, PreCommit
<1>2. \A i \in Slots : job'[i] = IF i = j THEN x ELSE job[i]
  BY OneJobSet
<1> QED BY <1>1, <1>2, JobHeld

LEMMA DiscoveryHeld ==
  ASSUME TypeOK, LateInv, HeldInv, NEW j \in Slots,
         DiscoverStart(j) \/ DiscoverFails(j) \/ DiscoverFacts(j) \/ DiscoverStore(j)
  PROVE  HeldInv'
<1>0. job[j] # NoJob /\ job[j] \in Job /\ job[j].kind = "discover" /\ ~At(j, {"erase"}, "delete")
  BY JobFacts DEF DiscoverStart, DiscoverFails, DiscoverFacts, DiscoverStore, At
<1> PICK d \in Devices : d = job[j].dev
  BY <1>0 DEF Job
<1>1. job[j] # NoJob /\ job[j] \in Job /\ d = job[j].dev /\ job[j].kind = "discover" /\ ~At(j, {"erase"}, "delete")
  BY <1>0
<1>2. Spoiled \subseteq Spoiled' /\ UNCHANGED <<plant, twice>>
  BY SpoiledGrows DEF DiscoverStart, DiscoverFails, DiscoverFacts, DiscoverStore, hist
<1>3. ASSUME NEW at, Go(j, at), UNCHANGED row
      PROVE  HeldInv'
  <2>1. PICK x : (\A i \in Slots : job'[i] = IF i = j THEN x ELSE job[i]) /\ x.kind = "discover"
    BY <1>1, <1>3, GoesOn
  <2>2. x.kind \notin FirstSteps /\ ~Engaged(x)
    BY <2>1 DEF FirstSteps, Engaged
  <2> QED BY <1>1, <1>2, <1>3, <2>1, <2>2, JobHeld
<1>4. ASSUME End(j), UNCHANGED row
      PROVE  HeldInv'
  BY <1>1, <1>2, <1>4, JobEndHeld
<1>5. CASE DiscoverStart(j) \/ DiscoverFacts(j)
  BY <1>3, <1>4, <1>5 DEF DiscoverStart, DiscoverFacts
<1>6. CASE DiscoverFails(j)
  <2> DEFINE x == New("discover", d, 0, job[j].it + 1, None)
  <2>1. x.at = "wait"
    BY DEF New
  <2>2. UNCHANGED row /\ (job' = [job EXCEPT ![j] = x] \/ End(j))
    BY <1>1, <1>6 DEF DiscoverFails
  <2> HIDE DEF x
  <2> QED BY <1>1, <1>2, <1>4, <2>1, <2>2, JobNewHeld
<1>7. CASE DiscoverStore(j)
  <2>1. CASE ~Exists(d)
    BY <1>4, <1>7, <2>1 DEF DiscoverStore
  <2>2. CASE Exists(d)
    <3> DEFINE r == [row[d] EXCEPT !.state = "DISCOVERED"]
    <3>1. row[d] \in Row
      BY <1>1, <2>2, RowFacts
    <3>2. r.state = "DISCOVERED" /\ r.id = row[d].id /\ r.mgmt = row[d].mgmt /\ r.resv = row[d].resv
      BY <3>1 DEF Row
    <3>3. \A e \in Devices : row'[e] = IF e = d THEN r ELSE row[e]
      BY <1>7, <2>2 DEF DiscoverStore, Store, TypeOK
    <3>4. \A i \in Slots : job'[i] = IF i = j THEN NoJob ELSE job[i]
      BY <1>7, EndsAll DEF DiscoverStore
    <3>5. Searching(j)
      BY <1>7 DEF DiscoverStore, At, Searching
    <3> HIDE DEF r
    <3>6. ASSUME d \notin Spoiled'
          PROVE  DeviceOK(d)'
      <4>1. d \notin Spoiled /\ d \notin overlap
        BY <1>2, <3>6 DEF Spoiled
      <4>2. row[d].state = "DHCP_BOOT" /\ DeviceOK(d)
        BY <1>1, <2>2, <3>5, <4>1 DEF LateInv, HeldInv
      <4>3. \A i \in Slots : (job[i] # NoJob /\ job[i].dev = d /\ ById(i)) => ~Engaged(job[i])
        BY <4>2 DEF DeviceOK, StageOK, Engaged, InService
      <4>4. ASSUME NEW i \in Slots, job'[i] # NoJob, job'[i].dev = d, ById(i)' PROVE StageOK(i)'
        <5>1. job'[i] = job[i] /\ ById(i)
          BY <1>1, <2>2, <3>2, <3>3, <3>4, <4>4 DEF ById, Exists
        <5> QED BY <4>3, <4>4, <5>1, PassiveOK
      <4> QED BY <1>1, <1>2, <2>2, <3>2, <3>3, <4>2, <4>4 DEF DeviceOK, Holds, Exists, InService
    <3>7. ASSUME NEW e \in Devices, e \notin Spoiled', e # d
          PROVE  DeviceOK(e)'
      <4>1. row'[e] = row[e]
        BY <3>3, <3>7
      <4> QED BY <1>1, <1>2, <3>4, <3>7, <4>1, OneJob
    <3>8. FirstOnce'
      BY <1>2, <3>4, FirstsSet, OnceKept DEF HeldInv
    <3> QED BY <3>6, <3>7, <3>8 DEF HeldInv
  <2> QED BY <2>1, <2>2
<1> QED BY <1>5, <1>6, <1>7

\* A row is stored that keeps its identity: the device is in order if the row is,
\* and every job at work that knows something of it.
LEMMA RowHeld ==
  ASSUME TypeOK, HeldInv, Spoiled \subseteq Spoiled', twice \subseteq twice', UNCHANGED plant,
         NEW j \in Slots, NEW x, \A i \in Slots : job'[i] = IF i = j THEN x ELSE job[i],
         \/ x = NoJob \/ x.at = "wait" \/ x.kind \notin FirstSteps
         \/ InFirst(j) /\ x.dev = job[j].dev,
         ~At(j, {"erase"}, "delete"),
         NEW d \in Devices, NEW r, Store(d, r), x = NoJob \/ x.dev = d, d \notin Spoiled' => DeviceOK(d)'
  PROVE  HeldInv'
<1>1. \A e \in Devices : row'[e] = IF e = d THEN r ELSE row[e]
  BY DEF Store, TypeOK
<1>2. FirstOnce'
  BY FirstsSet, OnceKept DEF HeldInv
<1>3. ASSUME NEW e \in Devices, e \notin Spoiled', e # d
      PROVE  DeviceOK(e)'
  <2>1. row'[e] = row[e]
    BY <1>1, <1>3
  <2> QED BY <1>3, <2>1, OneJob
<1> QED BY <1>2, <1>3 DEF HeldInv

LEMMA StartHeld ==
  ASSUME TypeOK, HeldInv, NEW j \in Slots, StepOneStart(j)
  PROVE  HeldInv'
<1>1. job[j] # NoJob /\ job[j] \in Job /\ job[j].kind \in FirstSteps /\ job[j].dev \in Devices /\ job[j].at = "wait"
  BY JobFacts DEF StepOneStart, At
<1>2. UNCHANGED <<row, plant>> /\ twice \subseteq twice' /\ Spoiled \subseteq Spoiled'
  BY SpoiledGrows DEF StepOneStart
<1>3. PICK x : /\ \A i \in Slots : job'[i] = IF i = j THEN x ELSE job[i]
               /\ x # NoJob /\ x.at = "checked" /\ x.dev = job[j].dev /\ x.id = job[j].id
               /\ x.kind = job[j].kind /\ x.addr = job[j].addr
  BY <1>1, GoesOn DEF StepOneStart
<1>4. StageOK(j)'
  <2>1. row[job[j].dev].state = "DISCOVERED"
    BY DEF StepOneStart, Ready
  <2> QED BY <1>1, <1>2, <1>3, <2>1 DEF StageOK, At, FirstSteps
<1>5. FirstOnce'
  <2>1. ASSUME NEW i \in Slots, i # j, InFirst(i)', job'[i].dev = job[j].dev
        PROVE  job[j].dev \in twice'
    <3>1. i \in Running(j) /\ job[i].dev = job[j].dev
      BY <1>3, <2>1 DEF Running, Others, InFirst, PreCommit
    <3> QED BY <3>1 DEF StepOneStart
  <2>2. \A i \in Slots \ {j} : InFirst(i)' => InFirst(i) /\ job'[i] = job[i]
    BY <1>3 DEF InFirst
  <2>3. ASSUME NEW i \in Slots, NEW k \in Slots, i # k, InFirst(i)', InFirst(k)', job'[i].dev = job'[k].dev
        PROVE  job'[i].dev \in twice'
    <3>1. CASE i = j \/ k = j
      BY <1>3, <2>1, <2>3, <3>1
    <3>2. CASE i # j /\ k # j
      BY <1>2, <2>2, <2>3, <3>2 DEF HeldInv, FirstOnce
    <3> QED BY <3>1, <3>2
  <2> QED BY <2>3 DEF FirstOnce
<1>6. ~At(j, {"erase"}, "delete")
  BY <1>1 DEF At
<1>7. \A e \in Devices : e \notin Spoiled' => DeviceOK(e)'
  BY <1>2, <1>3, <1>4, <1>6, OneJob
<1> QED BY <1>5, <1>7 DEF HeldInv

\* A reservation is given up only by its device's own first step, or when no job is
\* left for the device.
LEMMA ChooseHeld ==
  ASSUME TypeOK, HeldInv, NEW j \in Slots, job[j] # NoJob, NEW cleared \in SUBSET Devices,
         \A e \in cleared : Exists(e), Choose(j, cleared),
         \A e \in cleared : e # job[j].dev => \A i \in Slots : job[i] # NoJob => job[i].dev # e,
         \/ job[j].kind = "post" /\ cleared = {}
         \/ InFirst(j) /\ job[j].at \in PreCommit /\ (ById(j) <=> job[j].dev \in cleared)
  PROVE  HeldInv'
<1> PICK d \in Devices : d = job[j].dev
  BY DEF TypeOK, Job
<1>1. /\ row' = Clean(cleared) /\ UNCHANGED <<plant, twice>> /\ overlap' = overlap
      /\ lost' = lost \cup {e \in cleared : plant[e] # 0 /\ plant[e] = row[e].resv}
      /\ raced \subseteq raced'
  BY DEF Choose
<1>2. Spoiled \subseteq Spoiled'
  BY <1>1, SpoiledGrows
<1>3. \A e \in Devices : row'[e] = IF e \in cleared THEN [row[e] EXCEPT !.resv = 0] ELSE row[e]
  BY <1>1 DEF Clean
<1>4. ASSUME NEW e \in cleared
      PROVE  /\ row'[e].id = row[e].id /\ row'[e].state = row[e].state /\ row'[e].mgmt = row[e].mgmt
             /\ row'[e].resv = 0
  <2>1. row[e] \in Row /\ row'[e] = [row[e] EXCEPT !.resv = 0]
    BY <1>3, RowFacts
  <2> QED BY <2>1 DEF Row
<1>5. ~At(j, {"erase"}, "delete")
  BY DEF At, InFirst, FirstSteps
\* A device whose reservation goes away holds the address it answers on otherwise.
<1>6. ASSUME NEW e \in cleared, e \notin Spoiled', plant[e] # 0
      PROVE  row[e].mgmt = plant[e]
  <2>1. DeviceOK(e) /\ plant[e] # row[e].resv
    BY <1>1, <1>2, <1>6 DEF HeldInv, Spoiled
  <2> QED BY <1>6, <2>1 DEF DeviceOK, Holds
<1>7. PICK x : /\ \A i \in Slots : job'[i] = IF i = j THEN x ELSE job[i]
               /\ \/ x = NoJob
                  \/ /\ x # NoJob /\ x.at = "chosen" /\ x.dev = d /\ x.id = job[j].id /\ x.kind = job[j].kind
  <2>1. CASE End(j)
    BY <2>1, EndsAll
  <2>2. ASSUME NEW a, job' = [job EXCEPT ![j].at = "chosen", ![j].addr = a]
        PROVE  \E x : /\ \A i \in Slots : job'[i] = IF i = j THEN x ELSE job[i]
                      /\ x # NoJob /\ x.at = "chosen" /\ x.dev = d /\ x.id = job[j].id /\ x.kind = job[j].kind
    <3> DEFINE x == [job[j] EXCEPT !.at = "chosen", !.addr = a]
    <3>1. job[j] \in Job
      BY DEF TypeOK
    <3>2. x # NoJob /\ x.at = "chosen" /\ x.dev = d /\ x.id = job[j].id /\ x.kind = job[j].kind
      BY <3>1 DEF Job, NoJob
    <3>3. \A i \in Slots : job'[i] = IF i = j THEN x ELSE job[i]
      BY <2>2 DEF TypeOK
    <3> HIDE DEF x
    <3> QED BY <3>2, <3>3
  <2> QED BY <2>1, <2>2 DEF Choose
<1>8. FirstOnce'
  <2>1. x = NoJob \/ x.kind \notin FirstSteps \/ (InFirst(j) /\ x.dev = job[j].dev)
    BY <1>7 DEF FirstSteps
  <2> QED BY <1>1, <1>7, <2>1, FirstsSet, OnceKept DEF HeldInv
<1>9. ASSUME NEW e \in Devices, e \notin Spoiled', e \notin cleared
      PROVE  DeviceOK(e)'
  <2>1. row'[e] = row[e] /\ plant'[e] = plant[e]
    BY <1>1, <1>3, <1>9
  <2>2. CASE x = NoJob \/ x.dev # e \/ ~Engaged(x)
    BY <1>2, <1>5, <1>7, <1>9, <2>1, <2>2, OneJob
  <2>3. CASE x # NoJob /\ x.dev = e /\ Engaged(x)
    <3>1. ~ById(j) /\ e = d
      BY <1>7, <1>9, <2>3 DEF Engaged, FirstSteps
    <3>2. ~ById(j)'
      BY <1>7, <2>1, <2>3, <3>1 DEF ById, Exists
    <3>3. \A i \in Slots : (job'[i] # NoJob /\ job'[i].dev = e /\ ById(i)') => job'[i] = job[i]
      BY <1>7, <3>2
    <3> QED BY <1>2, <1>5, <1>7, <1>9, <2>1, <3>3, DeviceKept
  <2> QED BY <2>2, <2>3
<1>10. ASSUME NEW e \in cleared, e \notin Spoiled'
       PROVE  DeviceOK(e)'
  <2>1. DeviceOK(e) /\ Exists(e) /\ row[e] \in Row
    BY <1>2, <1>10, RowFacts DEF HeldInv
  <2>2. CASE e # d
    <3>1. \A i \in Slots : job[i] # NoJob => job[i].dev # e
      BY <2>2
    <3>2. \A i \in Slots : job'[i] # NoJob => job'[i].dev # e
      BY <1>7, <2>2, <3>1
    <3>3. There(e) => There(e)'
      BY <1>1, <1>4, <3>1 DEF There, Wiped, At
    <3> QED BY <1>1, <1>4, <1>6, <1>10, <2>1, <3>2, <3>3 DEF DeviceOK, Holds, Exists
  <2>3. CASE e = d
    <3>0. InFirst(j) /\ job[j].at \in PreCommit /\ ById(j)
      BY <2>3
    <3>1. StageOK(j)
      BY <2>1, <2>3 DEF DeviceOK
    <3>2. row[e].state = "DISCOVERED" /\ row[e].mgmt = 0
      BY <2>1, <2>3, <3>0, <3>1 DEF StageOK, InFirst, DeviceOK
    <3>3. plant[e] = 0
      BY <1>6, <1>10, <3>2
    <3>4. ASSUME NEW i \in Slots, job'[i] # NoJob, job'[i].dev = e, ById(i)' PROVE StageOK(i)'
      <4>1. CASE i = j
        BY <1>1, <1>4, <1>7, <2>3, <3>2, <3>3, <3>4, <4>1 DEF StageOK, At, FirstSteps, InFirst
      <4>2. CASE i # j
        <5>1. job'[i] = job[i] /\ ById(i)
          BY <1>4, <1>7, <3>4, <4>2 DEF ById, Exists
        <5>2. ~Engaged(job[i])
          BY <1>2, <1>10, <2>3, <3>0, <3>4, <4>2, <5>1, FirstAlone
        <5> QED BY <5>1, <5>2, PassiveOK
      <4> QED BY <4>1, <4>2
    <3> QED BY <1>1, <1>4, <3>2, <3>3, <3>4 DEF DeviceOK, InService
  <2> QED BY <2>2, <2>3
<1> QED BY <1>8, <1>9, <1>10 DEF HeldInv

LEMMA ReserveHeld ==
  ASSUME TypeOK, HeldInv, NEW j \in Slots, StepOneReserve(j)
  PROVE  HeldInv'
<1> PICK d \in Devices : d = job[j].dev
  BY JobFacts DEF StepOneReserve
<1>1. job[j] # NoJob /\ job[j] \in Job /\ job[j].kind \in FirstSteps /\ job[j].at = "chosen"
  BY JobFacts DEF StepOneReserve, At
<1>2. UNCHANGED <<plant, twice>> /\ Spoiled \subseteq Spoiled' /\ ~At(j, {"erase"}, "delete")
  BY <1>1, SpoiledStays DEF StepOneReserve, hist, At
<1>3. CASE ~(ById(j) /\ row[d].resv = 0)
  BY <1>2, <1>3, JobEndHeld DEF StepOneReserve
<1>4. CASE ById(j) /\ row[d].resv = 0
  <2> DEFINE r == [row[d] EXCEPT !.resv = job[j].addr, !.renamed = TRUE]
  <2>1. Store(d, r) /\ Go(j, "reserved")
    BY <1>4 DEF StepOneReserve
  <2>2. row[d] \in Row /\ Exists(d)
    BY <1>4, RowFacts DEF ById
  <2>3. r.state = row[d].state /\ r.id = row[d].id /\ r.mgmt = row[d].mgmt /\ r.resv = job[j].addr
    BY <2>2 DEF Row
  <2> HIDE DEF r
  <2>4. \A e \in Devices : row'[e] = IF e = d THEN r ELSE row[e]
    BY <2>1 DEF Store, TypeOK
  <2>5. PICK x : /\ \A i \in Slots : job'[i] = IF i = j THEN x ELSE job[i]
                 /\ x # NoJob /\ x.at = "reserved" /\ x.dev = job[j].dev /\ x.id = job[j].id
                 /\ x.kind = job[j].kind /\ x.addr = job[j].addr
    BY <1>1, <2>1, GoesOn
  <2>6. InFirst(j) /\ job[j].at \in PreCommit
    BY <1>1 DEF InFirst, PreCommit
  <2>7. ASSUME d \notin Spoiled'
        PROVE  DeviceOK(d)'
    <3>1. d \notin Spoiled /\ DeviceOK(d) /\ StageOK(j)
      BY <1>1, <1>2, <1>4, <2>7 DEF HeldInv, DeviceOK
    <3>2. row[d].state = "DISCOVERED" /\ row[d].mgmt = 0 /\ plant[d] = 0
      BY <1>1, <2>2, <2>6, <3>1 DEF StageOK, At, DeviceOK
    <3>3. ASSUME NEW i \in Slots, job'[i] # NoJob, job'[i].dev = d, ById(i)' PROVE StageOK(i)'
      <4>1. CASE i = j
        BY <1>1, <1>2, <2>3, <2>4, <2>5, <3>2, <4>1 DEF StageOK, At, FirstSteps
      <4>2. CASE i # j
        <5>1. job'[i] = job[i] /\ ById(i)
          BY <2>2, <2>3, <2>4, <2>5, <3>3, <4>2 DEF ById, Exists
        <5>2. ~Engaged(job[i])
          BY <1>4, <2>6, <3>1, <3>3, <4>2, <5>1, FirstAlone
        <5> QED BY <5>1, <5>2, PassiveOK
      <4> QED BY <4>1, <4>2
    <3> QED BY <1>2, <2>2, <2>3, <2>4, <3>2, <3>3 DEF DeviceOK, InService
  <2> QED BY <1>2, <2>1, <2>5, <2>6, <2>7, RowHeld
<1> QED BY <1>3, <1>4

\* The address that is configured is the one reserved; who answers on the contact
\* address instead of the device shares it by a race.
LEMMA PushHeld ==
  ASSUME TypeOK, ClaimInv, HeldInv, NEW j \in Slots, PushBaseManagement(j)
  PROVE  HeldInv'
<1> PICK d \in Devices : d = job[j].dev
  BY JobFacts DEF PushBaseManagement
<1>1. job[j] # NoJob /\ job[j] \in Job /\ job[j].kind \in FirstSteps /\ job[j].at = "reserved" /\ ById(j)
  BY JobFacts DEF PushBaseManagement, At
<1>2. UNCHANGED <<row, twice>> /\ Spoiled \subseteq Spoiled' /\ ~At(j, {"erase"}, "delete")
  BY <1>1, SpoiledStays DEF PushBaseManagement, hist, At
<1>3. InFirst(j) /\ job[j].at \in PreCommit
  BY <1>1 DEF InFirst, PreCommit
<1>4. PICK x : /\ \A i \in Slots : job'[i] = IF i = j THEN x ELSE job[i]
               /\ x # NoJob /\ x.at \in {"moved", "refused"} /\ x.dev = d /\ x.id = job[j].id
               /\ x.kind = job[j].kind /\ x.addr = job[j].addr
               /\ x.at = "moved" \/ UNCHANGED plant
  <2>1. ASSUME NEW at, Go(j, at)
        PROVE  \E x : /\ \A i \in Slots : job'[i] = IF i = j THEN x ELSE job[i]
                      /\ x # NoJob /\ x.at = at /\ x.dev = d /\ x.id = job[j].id
                      /\ x.kind = job[j].kind /\ x.addr = job[j].addr
    BY <1>1, <2>1, GoesOn
  <2>2. CASE Moved(j)
    BY <2>1, <2>2 DEF Moved
  <2>3. CASE Refused(j) /\ UNCHANGED plant
    BY <2>1, <2>3 DEF Refused
  <2> QED BY <2>2, <2>3 DEF PushBaseManagement
<1>5. ASSUME d \notin Spoiled
      PROVE  row[d].state = "DISCOVERED" /\ row[d].mgmt = 0 /\ row[d].resv = job[j].addr /\ plant[d] = 0
             /\ Exists(d) /\ DeviceOK(d)
  <2>1. DeviceOK(d) /\ StageOK(j)
    BY <1>1, <1>5 DEF HeldInv, DeviceOK
  <2> QED BY <1>1, <1>3, <2>1 DEF StageOK, At, DeviceOK, ById
<1>6. ASSUME NEW e \in Devices, e # d, e \notin Spoiled
      PROVE  plant'[e] = plant[e]
  <2>1. CASE UNCHANGED plant
    BY <2>1
  <2>2. CASE ~UNCHANGED plant
    <3>1. PICK f \in Devices : /\ plant[f] = Contact(d) /\ (Contact(d) = 0 => f = d)
                               /\ plant' = [plant EXCEPT ![f] = job[j].addr]
      BY <2>2 DEF PushBaseManagement
    <3>2. f # e
      <4> SUFFICES ASSUME f = e PROVE FALSE
        OBVIOUS
      <4>1. plant[e] # 0 /\ row[d].mgmt = plant[e] /\ Exists(d)
        BY <1>1, <1>6, <3>1 DEF Contact, ById
      <4>2. Holds(e, plant[e]) /\ Holds(d, plant[e])
        BY <1>6, <4>1 DEF HeldInv, DeviceOK, Holds
      <4>3. plant[e] \in Pool
        BY <4>1 DEF TypeOK, Address
      <4>4. {d, e} \in raced
        BY <1>6, <4>2, <4>3 DEF ClaimInv, Claims
      <4> QED BY <1>6, <4>4 DEF Spoiled
    <3> QED BY <3>1, <3>2 DEF TypeOK
  <2> QED BY <2>1, <2>2
<1>7. ASSUME d \notin Spoiled
      PROVE  plant'[d] = 0 \/ (plant'[d] = job[j].addr /\ x.at = "moved")
  <2>1. CASE UNCHANGED plant
    BY <1>5, <1>7, <2>1
  <2>2. CASE ~UNCHANGED plant
    <3>1. Contact(d) = 0
      BY <1>5, <1>7 DEF Contact
    <3>2. plant' = [plant EXCEPT ![d] = job[j].addr]
      BY <2>2, <3>1 DEF PushBaseManagement
    <3> QED BY <1>4, <2>2, <3>2 DEF TypeOK
  <2> QED BY <2>1, <2>2
<1>8. ASSUME d \notin Spoiled'
      PROVE  DeviceOK(d)'
  <2>1. d \notin Spoiled
    BY <1>2, <1>8
  <2>2. ASSUME NEW i \in Slots, job'[i] # NoJob, job'[i].dev = d, ById(i)' PROVE StageOK(i)'
    <3>1. CASE i = j
      BY <1>1, <1>2, <1>4, <1>5, <1>7, <2>1, <3>1 DEF StageOK, At, FirstSteps
    <3>2. CASE i # j
      <4>1. job'[i] = job[i] /\ ById(i)
        BY <1>2, <1>4, <2>2, <3>2 DEF ById, Exists
      <4>2. ~Engaged(job[i])
        BY <1>1, <1>3, <2>1, <2>2, <3>2, <4>1, FirstAlone
      <4> QED BY <4>1, <4>2, PassiveOK
    <3> QED BY <3>1, <3>2
  <2> QED BY <1>2, <1>5, <1>7, <2>1, <2>2 DEF DeviceOK, InService, Holds, Exists
<1>9. ASSUME NEW e \in Devices, e \notin Spoiled', e # d
      PROVE  DeviceOK(e)'
  BY <1>2, <1>4, <1>6, <1>9, OneJob
<1>10. FirstOnce'
  BY <1>2, <1>3, <1>4, FirstsSet, OnceKept DEF HeldInv
<1> QED BY <1>8, <1>9, <1>10 DEF HeldInv

LEMMA CommitHeld ==
  ASSUME TypeOK, HeldInv, NEW j \in Slots, StepOneCommit(j) \/ StepOneRollback(j)
  PROVE  HeldInv'
<1> PICK d \in Devices : d = job[j].dev
  BY JobFacts DEF StepOneCommit, StepOneRollback
<1>1. job[j] # NoJob /\ job[j] \in Job /\ job[j].kind \in FirstSteps /\ job[j].at \in {"moved", "refused"}
  BY JobFacts DEF StepOneCommit, StepOneRollback, At
<1>2. UNCHANGED <<plant, twice>> /\ Spoiled \subseteq Spoiled' /\ ~At(j, {"erase"}, "delete")
  BY <1>1, SpoiledGrows DEF StepOneCommit, StepOneRollback, hist, At
<1>3. InFirst(j) /\ job[j].at \in PreCommit
  BY <1>1 DEF InFirst, PreCommit
<1>4. CASE ~ById(j)
  BY <1>2, <1>4, JobEndHeld DEF StepOneCommit, StepOneRollback
<1>5. CASE ById(j)
  <2>1. row[d] \in Row /\ Exists(d)
    BY <1>5, RowFacts DEF ById
  <2>2. PICK r, x : /\ Store(d, r) /\ r.id = row[d].id
                    /\ \A i \in Slots : job'[i] = IF i = j THEN x ELSE job[i]
                    /\ \/ x = NoJob
                       \/ x.at = "next" /\ x.dev = d
                    /\ \/ r.state = "INIT" /\ r.mgmt = job[j].addr /\ job[j].at = "moved"
                       \/ r.state = row[d].state /\ r.mgmt = row[d].mgmt /\ job[j].at = "refused"
    <3>1. CASE StepOneCommit(j)
      <4> DEFINE r == Initialised(d, job[j].kind, job[j].addr)
      <4>1. Store(d, r) /\ Go(j, "next") /\ job[j].at = "moved"
        BY <1>5, <3>1 DEF StepOneCommit, At
      <4>2. r.id = row[d].id /\ r.state = "INIT" /\ r.mgmt = job[j].addr
        BY <2>1 DEF Row, Initialised
      <4>3. \E x : (\A i \in Slots : job'[i] = IF i = j THEN x ELSE job[i]) /\ x.at = "next" /\ x.dev = d
        BY <1>1, <4>1, GoesOn
      <4> HIDE DEF r
      <4> QED BY <4>1, <4>2, <4>3
    <3>2. CASE StepOneRollback(j)
      <4> DEFINE r == [row[d] EXCEPT !.renamed = FALSE, !.resv = 0]
      <4>1. Store(d, r) /\ End(j) /\ job[j].at = "refused"
        BY <1>5, <3>2 DEF StepOneRollback, At
      <4>2. r.id = row[d].id /\ r.state = row[d].state /\ r.mgmt = row[d].mgmt
        BY <2>1 DEF Row
      <4> HIDE DEF r
      <4> QED BY <4>1, <4>2, EndsAll
    <3> QED BY <3>1, <3>2
  <2>3. \A e \in Devices : row'[e] = IF e = d THEN r ELSE row[e]
    BY <2>2 DEF Store, TypeOK
  <2>4. ASSUME d \notin Spoiled'
        PROVE  DeviceOK(d)'
    <3>1. d \notin Spoiled /\ DeviceOK(d) /\ StageOK(j)
      BY <1>1, <1>2, <1>5, <2>4 DEF HeldInv, DeviceOK
    <3>2. row[d].state = "DISCOVERED" /\ row[d].mgmt = 0
      BY <1>3, <2>1, <3>1 DEF StageOK, DeviceOK, InFirst
    <3>3. plant[d] = 0 \/ (job[j].at = "moved" /\ plant[d] = job[j].addr)
      BY <1>1, <3>1 DEF StageOK, At
    <3>4. ASSUME NEW i \in Slots, job'[i] # NoJob, job'[i].dev = d, ById(i)' PROVE StageOK(i)'
      <4>1. CASE i = j
        <5>1. ~Engaged(job'[i])
          BY <2>2, <3>4, <4>1 DEF Engaged, PreCommit
        <5> QED BY <5>1, PassiveOK
      <4>2. CASE i # j
        <5>1. job'[i] = job[i] /\ ById(i)
          BY <2>1, <2>2, <2>3, <3>4, <4>2 DEF ById, Exists
        <5>2. ~Engaged(job[i])
          BY <1>3, <1>5, <3>1, <3>4, <4>2, <5>1, FirstAlone
        <5> QED BY <5>1, <5>2, PassiveOK
      <4> QED BY <4>1, <4>2
    <3> QED BY <1>2, <2>1, <2>2, <2>3, <3>2, <3>3, <3>4 DEF DeviceOK, InService, Holds, Exists
  <2> QED BY <1>2, <1>3, <2>2, <2>4, RowHeld
<1> QED BY <1>4, <1>5

LEMMA NextHeld ==
  ASSUME TypeOK, HeldInv, NEW j \in Slots, StepOneNext(j)
  PROVE  HeldInv'
<1>1. job[j] # NoJob /\ job[j].kind \in FirstSteps /\ job[j].dev \in Devices
  BY JobFacts DEF StepOneNext, At
<1>2. UNCHANGED <<row, plant, twice>> /\ Spoiled \subseteq Spoiled'
  BY SpoiledStays DEF StepOneNext, hist
<1>3. \A i \in Slots : job'[i] = job[i] \/ (job'[i].at = "wait" /\ (i = j \/ i \in Free))
  <2> DEFINE second == New("step2", job[j].dev, job[j].id, 1, None)
             first == New("ACCESS", job[j].peer, row[job[j].peer].id, 0, None)
  <2>1. second.at = "wait" /\ first.at = "wait"
    BY DEF New
  <2>2. job' = [job EXCEPT ![j] = second] \/ \E k \in Free : job' = [job EXCEPT ![j] = second, ![k] = first]
    BY DEF StepOneNext
  <2> HIDE DEF second, first
  <2> QED BY <2>1, <2>2 DEF TypeOK, Free
<1>4. FirstsKept
  BY <1>3 DEF FirstsKept, InFirst, PreCommit
<1>5. ASSUME NEW d \in Devices, d \notin Spoiled'
      PROVE  DeviceOK(d)'
  <2>1. \A i \in Slots : At(i, {"erase"}, "delete") => job'[i] = job[i]
    BY <1>1, <1>3 DEF At, Free, FirstSteps
  <2>2. \A i \in Slots : job'[i] = job[i] \/ StageOK(i)'
    <3>1. \A i \in Slots : job'[i].at = "wait" => ~Engaged(job'[i])
      BY DEF Engaged, PreCommit
    <3> QED BY <1>3, <3>1, PassiveOK
  <2> QED BY <1>2, <1>5, <2>1, <2>2, DeviceKept
<1> QED BY <1>2, <1>4, <1>5, OnceKept DEF HeldInv

LEMMA StepOneHeld ==
  ASSUME TypeOK, ClaimInv, HeldInv, NEW j \in Slots,
         \/ StepOneStart(j) \/ StepOneRefused(j) \/ InitMlagPeerOnly(j) \/ StepOneChoose(j)
         \/ StepOneReserve(j) \/ StepOneSettings(j) \/ PushBaseManagement(j)
         \/ StepOneCommit(j) \/ StepOneRollback(j) \/ StepOneNext(j)
  PROVE  HeldInv'
<1>1. CASE StepOneRefused(j) \/ StepOneSettings(j)
  <2>1. End(j) /\ UNCHANGED <<row, plant, hist>> /\ ~At(j, {"erase"}, "delete")
    BY <1>1 DEF StepOneRefused, StepOneSettings, At, FirstSteps
  <2>2. Spoiled \subseteq Spoiled' /\ UNCHANGED twice
    BY <2>1, SpoiledStays DEF hist
  <2> QED BY <2>1, <2>2, JobEndHeld
<1>2. CASE InitMlagPeerOnly(j)
  <2> DEFINE x == New("ACCESS", job[j].peer, row[job[j].peer].id, 0, None)
  <2>1. job' = [job EXCEPT ![j] = x] /\ UNCHANGED <<row, plant, hist>> /\ ~At(j, {"erase"}, "delete")
    BY <1>2 DEF InitMlagPeerOnly, At
  <2>2. x.at = "wait"
    BY DEF New
  <2>3. Spoiled \subseteq Spoiled' /\ UNCHANGED twice
    BY <2>1, SpoiledStays DEF hist
  <2> HIDE DEF x
  <2> QED BY <2>1, <2>2, <2>3, JobNewHeld
<1>3. CASE StepOneChoose(j)
  <2>1. PICK old \in {{}, Expired \ {job[j].dev}} : Choose(j, old \cup (IF ById(j) THEN {job[j].dev} ELSE {}))
    BY <1>3 DEF StepOneChoose
  <2> DEFINE cleared == old \cup (IF ById(j) THEN {job[j].dev} ELSE {})
  <2>2. cleared \in SUBSET Devices /\ \A e \in cleared : Exists(e)
    BY <1>3, ChoicesClear DEF StepOneChoose
  <2>3. InFirst(j) /\ job[j].at \in PreCommit /\ job[j] # NoJob
    BY <1>3 DEF StepOneChoose, At, InFirst, PreCommit
  <2>4. \A e \in cleared : e # job[j].dev => \A i \in Slots : job[i] # NoJob => job[i].dev # e
    BY DEF Expired
  <2>5. ById(j) <=> job[j].dev \in cleared
    OBVIOUS
  <2> HIDE DEF cleared
  <2> QED BY <2>1, <2>2, <2>3, <2>4, <2>5, ChooseHeld DEF cleared
<1> QED BY <1>1, <1>2, <1>3, StartHeld, ReserveHeld, PushHeld, CommitHeld, NextHeld

\* The second step calls a device managed that it has found on its address.
LEMMA StepTwoHeld ==
  ASSUME TypeOK, HeldInv, NEW j \in Slots,
         StepTwoStart(j) \/ StepTwoFails(j) \/ StepTwoFacts(j) \/ StepTwoStore(j)
  PROVE  HeldInv'
<1> PICK d \in Devices : d = job[j].dev
  BY JobFacts DEF StepTwoStart, StepTwoFails, StepTwoFacts, StepTwoStore
<1>1. job[j] # NoJob /\ job[j] \in Job /\ job[j].kind = "step2" /\ ~At(j, {"erase"}, "delete")
  BY JobFacts DEF StepTwoStart, StepTwoFails, StepTwoFacts, StepTwoStore, At
<1>2. UNCHANGED <<plant, twice>> /\ Spoiled \subseteq Spoiled'
  BY SpoiledGrows DEF StepTwoStart, StepTwoFails, StepTwoFacts, StepTwoStore, hist
<1>3. ASSUME End(j), UNCHANGED row
      PROVE  HeldInv'
  BY <1>1, <1>2, <1>3, JobEndHeld
<1>4. ASSUME NEW at \in {"facts", "store"}, Go(j, at), UNCHANGED row, ById(j),
             d \notin Spoiled' => /\ row[d].state \in InService \cup {"INIT"}
                                  /\ at = "store" => plant[d] = row[d].mgmt
      PROVE  HeldInv'
  <2>1. PICK x : /\ \A i \in Slots : job'[i] = IF i = j THEN x ELSE job[i]
                 /\ x # NoJob /\ x.at = at /\ x.dev = d /\ x.id = job[j].id /\ x.kind = "step2"
    BY <1>1, <1>4, GoesOn
  <2>2. x.kind \notin FirstSteps
    BY <2>1 DEF FirstSteps
  <2>3. x.dev \in Spoiled' \/ StageOK(j)'
    BY <1>2, <1>4, <2>1 DEF StageOK, At, FirstSteps, There
  <2> QED BY <1>1, <1>2, <1>4, <2>1, <2>2, <2>3, JobHeld
<1>5. CASE StepTwoStart(j)
  BY <1>3, <1>4, <1>5 DEF StepTwoStart
<1>6. CASE StepTwoFails(j)
  <2> DEFINE x == New("step2", d, job[j].id, job[j].it + 1, None)
  <2>1. x.at = "wait"
    BY DEF New
  <2>2. UNCHANGED row /\ (job' = [job EXCEPT ![j] = x] \/ End(j))
    BY <1>6 DEF StepTwoFails
  <2> HIDE DEF x
  <2> QED BY <1>1, <1>2, <1>3, <2>1, <2>2, JobNewHeld
<1>7. CASE StepTwoFacts(j)
  <2>1. ASSUME d \notin Spoiled'
        PROVE  row[d].state \in InService \cup {"INIT"}
    <3>1. StageOK(j)
      BY <1>1, <1>2, <1>7, <2>1 DEF HeldInv, DeviceOK, StepTwoFacts
    <3> QED BY <1>1, <1>7, <3>1 DEF StageOK, StepTwoFacts, At
  <2> QED BY <1>3, <1>4, <1>7, <2>1 DEF StepTwoFacts, RightHost
<1>8. CASE StepTwoStore(j)
  <2>1. CASE ~ById(j)
    BY <1>3, <1>8, <2>1 DEF StepTwoStore
  <2>2. CASE ById(j)
    <3> DEFINE r == [row[d] EXCEPT !.state = "MANAGED"]
    <3>1. row[d] \in Row /\ Exists(d)
      BY <2>2, RowFacts DEF ById
    <3>2. r.id = row[d].id /\ r.state = "MANAGED" /\ r.mgmt = row[d].mgmt /\ r.resv = row[d].resv
      BY <3>1 DEF Row
    <3>3. Store(d, r)
      BY <1>8, <2>2 DEF StepTwoStore
    <3> HIDE DEF r
    <3>4. \A e \in Devices : row'[e] = IF e = d THEN r ELSE row[e]
      BY <3>3 DEF Store, TypeOK
    <3>5. \A i \in Slots : job'[i] = IF i = j THEN NoJob ELSE job[i]
      BY <1>8, EndsAll DEF StepTwoStore
    <3>6. ASSUME d \notin Spoiled'
          PROVE  DeviceOK(d)'
      <4>1. DeviceOK(d) /\ StageOK(j)
        BY <1>1, <1>2, <2>2, <3>6 DEF HeldInv, DeviceOK
      <4>2. row[d].state \in InService \cup {"INIT"} /\ There(d)
        BY <1>1, <1>8, <4>1 DEF StageOK, StepTwoStore, At
      <4>3. There(d)'
        <5>1. Wiped(d) => Wiped(d)'
          BY <1>1, <3>2, <3>4, <3>5 DEF Wiped, At, ById, Exists
        <5> QED BY <1>2, <3>2, <3>4, <4>2, <5>1 DEF There
      <4>4. ASSUME NEW i \in Slots, job'[i] # NoJob, job'[i].dev = d, ById(i)' PROVE StageOK(i)'
        <5>1. i # j /\ job'[i] = job[i] /\ ById(i)
          BY <3>2, <3>4, <3>5, <4>4 DEF ById, Exists
        <5>2. StageOK(i)
          BY <4>1, <4>4, <5>1 DEF DeviceOK
        <5> QED BY <1>2, <3>2, <3>4, <4>2, <4>3, <4>4, <5>1, <5>2 DEF StageOK, At, InService
      <4> QED BY <1>2, <3>1, <3>2, <3>4, <4>1, <4>3, <4>4 DEF DeviceOK, Holds, Exists
    <3> QED BY <1>1, <1>2, <3>3, <3>5, <3>6, RowHeld
  <2> QED BY <2>1, <2>2
<1> QED BY <1>5, <1>6, <1>7, <1>8

LEMMA EraseHeld ==
  ASSUME TypeOK, LateInv, HeldInv, NEW j \in Slots, EraseStart(j) \/ EraseTask(j) \/ EraseDelete(j)
  PROVE  HeldInv'
<1>0. At(j, {"erase"}, job[j].at)
  BY DEF EraseStart, EraseTask, EraseDelete, At
<1> PICK d \in Devices : d = job[j].dev
  BY <1>0, JobFacts
<1>1. job[j] # NoJob /\ job[j] \in Job /\ job[j].kind = "erase"
  BY <1>0, JobFacts DEF At
<1>2. twice \subseteq twice' /\ Spoiled \subseteq Spoiled'
  BY SpoiledGrows DEF EraseStart, EraseTask, EraseDelete, hist
<1>3. CASE EraseStart(j)
  <2>1. ~At(j, {"erase"}, "delete") /\ UNCHANGED <<row, plant>>
    BY <1>3 DEF EraseStart, At
  <2>2. CASE End(j)
    BY <1>2, <2>1, <2>2, JobEndHeld
  <2>3. CASE Go(j, "wipe") /\ row[d].state \in InService
    <3>1. PICK x : /\ \A i \in Slots : job'[i] = IF i = j THEN x ELSE job[i]
                   /\ x # NoJob /\ x.at = "wipe" /\ x.dev = d /\ x.kind = "erase"
      BY <1>1, <2>3, GoesOn
    <3>2. x.kind \notin FirstSteps /\ StageOK(j)'
      BY <2>1, <2>3, <3>1 DEF FirstSteps, StageOK, At
    <3> QED BY <1>2, <2>1, <3>1, <3>2, JobHeld
  <2> QED BY <1>3, <2>2, <2>3 DEF EraseStart, InService
<1>4. CASE EraseTask(j)
  <2>1. ~At(j, {"erase"}, "delete") /\ UNCHANGED row
    BY <1>4 DEF EraseTask, At
  <2>2. CASE End(j) /\ UNCHANGED plant
    BY <1>2, <2>1, <2>2, JobEndHeld
  <2>3. CASE ~(End(j) /\ UNCHANGED plant)
    <3>1. PICK f \in Devices : /\ plant[f] = row[d].mgmt /\ plant[f] # 0
                               /\ plant' = [plant EXCEPT ![f] = 0]
                               /\ lost' = IF f = d THEN lost ELSE lost \cup {f, d}
      BY <1>4, <2>3 DEF EraseTask
    <3>2. ById(j) /\ Go(j, "delete") /\ job[j].at = "wipe"
      BY <1>4, <2>3 DEF EraseTask, At
    <3>3. PICK x : /\ \A i \in Slots : job'[i] = IF i = j THEN x ELSE job[i]
                   /\ x # NoJob /\ x.at = "delete" /\ x.dev = d /\ x.id = job[j].id /\ x.kind = "erase"
      BY <1>1, <3>2, GoesOn
    <3>4. \A e \in Devices : plant'[e] = IF e = f THEN 0 ELSE plant[e]
      BY <3>1 DEF TypeOK
    <3>5. ASSUME NEW e \in Devices, e \notin Spoiled', e # d
          PROVE  DeviceOK(e)'
      <4>1. e # f
        BY <3>1, <3>5 DEF Spoiled
      <4> QED BY <1>2, <2>1, <3>3, <3>4, <3>5, <4>1, OneJob
    <3>6. ASSUME d \notin Spoiled'
          PROVE  DeviceOK(d)'
      <4>1. f = d /\ d \notin Spoiled
        BY <1>2, <3>1, <3>6 DEF Spoiled
      <4>2. DeviceOK(d) /\ StageOK(j)
        BY <1>1, <3>2, <4>1 DEF HeldInv, DeviceOK
      <4>3. row[d].state \in InService
        BY <1>1, <3>2, <4>2 DEF StageOK
      <4>4. plant'[d] = 0
        BY <3>4, <4>1
      <4>5. Wiped(d)'
        BY <2>1, <3>2, <3>3 DEF Wiped, At, ById, Exists
      <4>6. ASSUME NEW i \in Slots, job'[i] # NoJob, job'[i].dev = d, ById(i)' PROVE StageOK(i)'
        <5>1. CASE i = j
          BY <2>1, <3>3, <4>3, <4>4, <5>1 DEF StageOK, At, FirstSteps
        <5>2. CASE i # j
          <6>1. job'[i] = job[i] /\ ById(i)
            BY <2>1, <3>3, <4>6, <5>2 DEF ById, Exists
          <6>2. StageOK(i)
            BY <4>2, <4>6, <6>1 DEF DeviceOK
          <6> QED BY <2>1, <4>3, <4>4, <4>5, <4>6, <6>1, <6>2 DEF StageOK, At, There, InService
        <5> QED BY <5>1, <5>2
      <4> QED BY <2>1, <4>2, <4>4, <4>5, <4>6 DEF DeviceOK, Exists, There
    <3>7. FirstOnce'
      BY <1>2, <3>3, FirstsSet, OnceKept DEF HeldInv, FirstSteps
    <3> QED BY <3>5, <3>6, <3>7 DEF HeldInv
  <2> QED BY <2>2, <2>3
<1>5. CASE EraseDelete(j)
  <2>1. End(j) /\ UNCHANGED plant /\ At(j, {"erase"}, "delete")
    BY <1>5 DEF EraseDelete
  <2>2. CASE ~ById(j)
    BY <1>2, <1>5, <2>1, <2>2, JobEndHeld DEF EraseDelete
  <2>3. CASE ById(j)
    <3>1. \A e \in Devices : row'[e] = IF e = d THEN NoRow ELSE row[e]
      BY <1>5, <2>3 DEF EraseDelete, Store, TypeOK
    <3>2. \A i \in Slots : job'[i] = IF i = j THEN NoJob ELSE job[i]
      BY <2>1, EndsAll
    <3>3. ASSUME d \notin Spoiled'
          PROVE  DeviceOK(d)'
      <4>1. plant[d] = 0
        BY <1>1, <1>2, <2>1, <2>3, <3>3 DEF HeldInv, DeviceOK, StageOK
      <4>2. ~Exists(d)'
        BY <3>1 DEF Exists, NoRow
      <4> QED BY <2>1, <4>1, <4>2 DEF DeviceOK, ById
    <3>4. ASSUME NEW e \in Devices, e \notin Spoiled', e # d
          PROVE  DeviceOK(e)'
      BY <1>2, <2>1, <3>1, <3>2, <3>4, OneJob
    <3>5. FirstOnce'
      BY <1>2, <3>2, FirstsSet, OnceKept DEF HeldInv
    <3> QED BY <3>3, <3>4, <3>5 DEF HeldInv
  <2> QED BY <2>2, <2>3
<1> QED BY <1>3, <1>4, <1>5

\* A device that is added by hand is new: no job is about its row.
LEMMA PostHeld ==
  ASSUME TypeOK, LateInv, HeldInv, NEW j \in Slots, PostChoose(j) \/ PostStore(j)
  PROVE  HeldInv'
<1>1. CASE PostChoose(j)
  <2>1. job[j] # NoJob /\ job[j].kind = "post" /\ Choose(j, {})
    BY <1>1 DEF PostChoose, At
  <2> QED BY <2>1, ChooseHeld
<1>2. CASE PostStore(j)
  <2> PICK d \in Devices : d = job[j].dev
    BY <1>2, JobFacts DEF PostStore
  <2>1. job[j] # NoJob /\ job[j] \in Job /\ job[j].kind = "post" /\ End(j) /\ ~At(j, {"erase"}, "delete")
    BY <1>2, JobFacts DEF PostStore, At
  <2>2. UNCHANGED twice /\ Spoiled \subseteq Spoiled'
    BY <1>2, SpoiledStays DEF PostStore, hist
  <2>3. CASE rows[d] # 0
    BY <1>2, <2>1, <2>2, <2>3, JobEndHeld DEF PostStore
  <2>4. CASE rows[d] = 0
    <3> DEFINE r == [NewRow(d) EXCEPT !.state = "MANAGED", !.type = "FABRIC",
                                      !.renamed = TRUE, !.mgmt = job[j].addr]
    <3>1. r.id = 1 /\ r.state = "MANAGED" /\ r.mgmt = job[j].addr
      BY <2>4 DEF NewRow
    <3>2. Store(d, r) /\ plant' = [plant EXCEPT ![d] = job[j].addr]
      BY <1>2, <2>4 DEF PostStore
    <3> HIDE DEF r
    <3>3. \A e \in Devices : /\ row'[e] = IF e = d THEN r ELSE row[e]
                             /\ plant'[e] = IF e = d THEN job[j].addr ELSE plant[e]
      BY <3>2 DEF Store, TypeOK
    <3>4. \A i \in Slots : job'[i] = IF i = j THEN NoJob ELSE job[i]
      BY <2>1, EndsAll
    <3>5. DeviceOK(d)'
      <4>1. \A i \in Slots : (job[i] # NoJob /\ job[i].dev = d) => job[i].id # 1
        <5>1. \A i \in Slots : (job[i] # NoJob /\ job[i].dev = d) => job[i].id <= 0 /\ job[i].id \in Nat
          BY <2>4 DEF LateInv, IdInv, TypeOK, Job
        <5> QED BY <5>1
      <4>2. \A i \in Slots : ~(job'[i] # NoJob /\ job'[i].dev = d /\ ById(i)')
        BY <3>1, <3>3, <3>4, <4>1 DEF ById
      <4> QED BY <3>1, <3>3, <4>2 DEF DeviceOK, Holds, Exists, There
    <3>6. ASSUME NEW e \in Devices, e \notin Spoiled', e # d
          PROVE  DeviceOK(e)'
      BY <2>1, <2>2, <3>3, <3>4, <3>6, OneJob
    <3>7. FirstOnce'
      BY <2>2, <3>4, FirstsSet, OnceKept DEF HeldInv
    <3> QED BY <3>5, <3>6, <3>7 DEF HeldInv
  <2> QED BY <2>3, <2>4
<1> QED BY <1>1, <1>2

LEMMA OperatorHeld ==
  ASSUME TypeOK, HeldInv, NEW d \in Devices, Operator(d)
  PROVE  HeldInv'
<1>1. ASSUME NEW j \in Free, NEW x, job' = [job EXCEPT ![j] = x], x.at = "wait",
             UNCHANGED <<row, plant, raced, twice, overlap, lost>>
      PROVE  HeldInv'
  <2>1. j \in Slots /\ ~At(j, {"erase"}, "delete")
    BY DEF Free, At
  <2>2. Spoiled \subseteq Spoiled'
    BY <1>1, SpoiledGrows
  <2> QED BY <1>1, <2>1, <2>2, JobNewHeld
<1>2. \A kind, e, id, it, peer : New(kind, e, id, it, peer).at = "wait"
  BY DEF New
<1>3. ASSUME NEW kind \in FirstSteps, NEW peer \in Devices \cup {None}, DeviceInit(d, kind, peer)
      PROVE  HeldInv'
  <2>1. UNCHANGED <<row, plant, raced, twice, overlap, lost>>
    BY <1>3 DEF DeviceInit
  <2>2. \E j \in Free : \/ job' = [job EXCEPT ![j] = New("step2", d, row[d].id, 1, None)]
                        \/ job' = [job EXCEPT ![j] = New(kind, d, row[d].id, 0, peer)]
    BY <1>3 DEF DeviceInit
  <2> QED BY <1>1, <1>2, <2>1, <2>2
<1>4. CASE FactoryDefault(d) \/ AddFabric(d)
  <2>1. UNCHANGED <<row, plant, raced, twice, overlap, lost>>
    BY <1>4 DEF FactoryDefault, AddFabric, hist
  <2> QED BY <1>1, <1>2, <1>4, <2>1 DEF FactoryDefault, AddFabric
\* Managed or not, the device is in service.
<1>5. CASE PutState(d)
  <2>1. UNCHANGED <<plant, job, twice>> /\ Spoiled \subseteq Spoiled' /\ Exists(d)
    BY <1>5, SpoiledStays DEF PutState, hist
  <2>2. PICK s \in InService : Store(d, [row[d] EXCEPT !.state = s]) /\ row[d].state \in InService
    BY <1>5 DEF PutState, InService
  <2> DEFINE r == [row[d] EXCEPT !.state = s]
  <2>3. r.id = row[d].id /\ r.state = s /\ r.mgmt = row[d].mgmt /\ r.resv = row[d].resv
    BY <2>1, RowFacts DEF Row
  <2>4. \A e \in Devices : row'[e] = IF e = d THEN r ELSE row[e]
    BY <2>2 DEF Store, TypeOK
  <2> HIDE DEF r
  <2>5. \A i \in Slots : (job[i] # NoJob /\ job[i].dev \in Devices) => (ById(i)' <=> ById(i))
    BY <2>1, <2>3, <2>4 DEF ById, Exists
  <2>6. ASSUME d \notin Spoiled'
        PROVE  DeviceOK(d)'
    <3>1. DeviceOK(d)
      BY <2>1, <2>6 DEF HeldInv
    <3>2. There(d) /\ There(d)'
      BY <2>1, <2>2, <2>3, <2>4, <2>5, <3>1 DEF There, Wiped, At, DeviceOK
    <3>3. ASSUME NEW i \in Slots, job[i] # NoJob, job[i].dev = d, ById(i) PROVE StageOK(i)'
      <4>1. StageOK(i)
        BY <3>1, <3>3 DEF DeviceOK
      <4> QED BY <2>1, <2>2, <2>3, <2>4, <3>2, <3>3, <4>1 DEF StageOK, At, InService
    <3> QED BY <2>1, <2>2, <2>3, <2>4, <2>5, <3>1, <3>2, <3>3 DEF DeviceOK, Holds, Exists, InService
  <2>7. ASSUME NEW e \in Devices, e \notin Spoiled', e # d
        PROVE  DeviceOK(e)'
    BY <2>1, <2>4, <2>7, DeviceKept
  <2>8. FirstOnce'
    BY <2>1, OnceKept DEF HeldInv, FirstsKept, InFirst
  <2> QED BY <2>6, <2>7, <2>8 DEF HeldInv
<1>6. CASE DeleteDevice(d)
  <2>1. UNCHANGED <<plant, job, twice>> /\ Spoiled \subseteq Spoiled' /\ (plant[d] # 0 => d \in Spoiled')
    BY <1>6, SpoiledGrows DEF DeleteDevice, Spoiled
  <2>2. \A e \in Devices : row'[e] = IF e = d THEN NoRow ELSE row[e]
    BY <1>6 DEF DeleteDevice, Store, TypeOK
  <2>3. ~Exists(d)'
    BY <2>2 DEF Exists, NoRow
  <2>4. d \notin Spoiled' => DeviceOK(d)'
    BY <2>1, <2>3 DEF DeviceOK, ById
  <2>5. ASSUME NEW e \in Devices, e \notin Spoiled', e # d
        PROVE  DeviceOK(e)'
    BY <2>1, <2>2, <2>5, DeviceKept
  <2>6. FirstOnce'
    BY <2>1, OnceKept DEF HeldInv, FirstsKept, InFirst
  <2> QED BY <2>4, <2>5, <2>6 DEF HeldInv
<1> QED BY <1>3, <1>4, <1>5, <1>6 DEF Operator

LEMMA RestartHeld ==
  ASSUME TypeOK, HeldInv, Restart
  PROVE  HeldInv'
<1>1. PICK gone \in SUBSET (Slots \ Free) :
        /\ job' = [j \in Slots |-> IF j \in gone THEN NoJob ELSE job[j]]
        /\ lost' = lost \cup {job[j].dev : j \in {k \in gone : At(k, {"erase"}, "delete")}}
  BY DEF Restart
<1>2. UNCHANGED <<row, plant, twice>> /\ Spoiled \subseteq Spoiled'
  BY <1>1, SpoiledGrows DEF Restart
<1>3. FirstsKept
  BY <1>1 DEF FirstsKept, InFirst
<1>4. ASSUME NEW d \in Devices, d \notin Spoiled'
      PROVE  DeviceOK(d)'
  <2>1. \A i \in Slots : (At(i, {"erase"}, "delete") /\ job[i].dev = d /\ ById(i)) => job'[i] = job[i]
    BY <1>1, <1>4 DEF Spoiled
  <2>2. \A i \in Slots : (job'[i] # NoJob /\ job'[i].dev = d /\ ById(i)') => job'[i] = job[i]
    BY <1>1
  <2> QED BY <1>2, <1>4, <2>1, <2>2, DeviceKept
<1> QED BY <1>2, <1>3, <1>4, OnceKept DEF HeldInv

LEMMA HeldInit == Init => HeldInv
BY DEF Init, HeldInv, FirstOnce, DeviceOK, InFirst, Exists, NoRow

LEMMA HeldStep == TypeOK /\ ClaimInv /\ LateInv /\ HeldInv /\ [Next]_vars => HeldInv'
<1> SUFFICES ASSUME TypeOK, ClaimInv, LateInv, HeldInv, [Next]_vars PROVE HeldInv'
  OBVIOUS
<1>1. ASSUME NEW d \in Devices, DhcpHook(d) PROVE HeldInv'
  BY <1>1, HookHeld
<1>2. ASSUME NEW j \in Slots, JobStep(j) PROVE HeldInv'
  BY <1>2, DiscoveryHeld, StepOneHeld, StepTwoHeld, EraseHeld, PostHeld DEF JobStep
<1>3. CASE UNCHANGED vars
  <2>1. Spoiled \subseteq Spoiled' /\ UNCHANGED <<row, plant, job, twice>>
    BY <1>3, SpoiledStays DEF vars, hist
  <2>2. \A d \in Devices : d \notin Spoiled' => DeviceOK(d)'
    BY <2>1, DeviceKept
  <2>3. FirstOnce'
    BY <2>1, OnceKept DEF HeldInv, FirstsKept, InFirst
  <2> QED BY <2>2, <2>3 DEF HeldInv
<1> QED BY <1>1, <1>2, <1>3, OperatorHeld, RestartHeld DEF Next

\* The address that a device answers on is its row's or reserved for it, unless one of
\* the races, a deletion or an expired reservation has reached it
\* (init_access_device_step1, clean_reservations).
THEOREM AddressesAlwaysHeld == Spec => []AddressesHeld
<1>1. HeldInv => AddressesHeld
  BY DEF HeldInv, DeviceOK, AddressesHeld
<1> QED BY <1>1, TypeInit, TypeStep, ClaimInit, ClaimStep, LateInit, LateStep, HeldInit, HeldStep, PTL DEF Spec

\* A managed device is the one that answers on its row's address, or is just being
\* wiped, with the same exceptions (init_device_step2, device_erase).
THEOREM ManagedAlwaysThere == Spec => []ManagedIsThere
<1>1. HeldInv => ManagedIsThere
  BY DEF HeldInv, DeviceOK, There, Wiped, InService, ManagedIsThere
<1> QED BY <1>1, TypeInit, TypeStep, ClaimInit, ClaimStep, LateInit, LateStep, HeldInit, HeldStep, PTL DEF Spec

=================================================================================
