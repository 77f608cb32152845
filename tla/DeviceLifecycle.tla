-------------------------- MODULE DeviceLifecycle --------------------------
(***************************************************************************)
(* How a switch comes under management: DHCP hook, discovery, the two      *)
(* steps of initialisation, and the ways out (set UNMANAGED, deleted,      *)
(* factory defaulted), with the management addresses that are chosen,      *)
(* reserved and stored on the way.  Handlers of the API and jobs of the    *)
(* scheduler interleave at every commit and every call to a device.        *)
(*                                                                         *)
(* row is the table of devices, with the reservation of each; plant is     *)
(* the address that the device itself answers on (0: the lease of its      *)
(* DHCP boot).  Infrastructure addresses and secondary management          *)
(* addresses are chosen and stored together with the management address    *)
(* and are left out; so are the events and flags of synchronisation.       *)
(***************************************************************************)
EXTENDS Naturals, FiniteSets

CONSTANTS Devices,      \* switches that boot with zero touch provisioning
          Pool,         \* management addresses that may be given out, in order
          Slots,        \* bound: jobs scheduled or running at a time
          MaxRows,      \* bound: how often a device may be added
          MaxEvents,    \* bound: requests of operators and restarts
          None          \* no device

ASSUME PoolAssumption == Pool \subseteq Nat \ {0}
ASSUME BoundsAssumption == MaxRows \in Nat \ {0} /\ MaxEvents \in Nat
ASSUME NoneAssumption == None \notin Devices

VARIABLES row,          \* the row of a device, NoRow without one
          rows,         \* number of rows a device has had: the id of the last
          plant,        \* address that the device answers on
          job,          \* what runs, or waits to run, in each slot
          events,       \* requests and restarts so far
          raced,        \* history: pairs given the same address while no row held it
          twice,        \* history: devices with two first steps at the same time
          overlap,      \* history: devices with two discoveries at the same time
          lost,         \* history: devices whose address was given up while used
          stuck         \* history: devices whose initialisation was given up

hist == <<raced, twice, overlap, lost, stuck>>
vars == <<row, rows, plant, job, events, hist>>

States == {"DHCP_BOOT", "DISCOVERED", "INIT", "MANAGED", "UNMANAGED"}
Address == Pool \cup {0}
Row == [id: 1..MaxRows, state: States, type: {"UNKNOWN", "ACCESS", "FABRIC"},
        renamed: BOOLEAN, mgmt: Address, resv: Address]
NoRow == [id |-> 0]
Job == [kind: {"discover", "ACCESS", "FABRIC", "step2", "erase", "post"},
        dev: Devices, id: 0..MaxRows, it: 0..3, addr: Address, peer: Devices \cup {None},
        at: {"wait", "facts", "store", "checked", "chosen", "reserved", "moved", "refused", "next", "wipe", "delete"}]
NoJob == [kind |-> "none"]

TypeOK ==
  /\ row \in [Devices -> Row \cup {NoRow}]
  /\ rows \in [Devices -> 0..MaxRows]
  /\ plant \in [Devices -> Address]
  /\ job \in [Slots -> Job \cup {NoJob}]
  /\ events \in 0..MaxEvents
  /\ raced \subseteq SUBSET Devices
  /\ twice \subseteq Devices /\ overlap \subseteq Devices
  /\ lost \subseteq Devices /\ stuck \subseteq Devices

Init ==
  /\ row = [d \in Devices |-> NoRow]
  /\ rows = [d \in Devices |-> 0]
  /\ plant = [d \in Devices |-> 0]
  /\ job = [j \in Slots |-> NoJob]
  /\ events = 0
  /\ raced = {} /\ twice = {} /\ overlap = {} /\ lost = {} /\ stuck = {}

(***************************************************************************)
(* Jobs and rows.                                                          *)
(***************************************************************************)
Exists(d) == row[d].id # 0
ById(j) == row[job[j].dev].id = job[j].id /\ Exists(job[j].dev)
Free == {j \in Slots : job[j] = NoJob}
New(kind, d, id, it, peer) ==
  [kind |-> kind, dev |-> d, id |-> id, at |-> "wait", it |-> it, addr |-> 0, peer |-> peer]
At(j, kinds, at) == job[j] # NoJob /\ job[j].kind \in kinds /\ job[j].at = at
Go(j, at) == job' = [job EXCEPT ![j].at = at]
End(j) == job' = [job EXCEPT ![j] = NoJob]
Others(j, kinds, ats) ==
  {k \in Slots \ {j} : job[k] # NoJob /\ job[k].kind \in kinds /\ job[k].at \in ats}
Store(d, r) == row' = [row EXCEPT ![d] = r]
Request == events < MaxEvents /\ events' = events + 1

\* The inventory contacts the management address if there is one, or else the lease.
Contact(d) == IF row[d].mgmt # 0 THEN row[d].mgmt ELSE 0
Answers(d) == IF Contact(d) = 0 THEN plant[d] = 0 ELSE \E e \in Devices : plant[e] = Contact(d)

(***************************************************************************)
(* DHCP and discovery.                                                     *)
(***************************************************************************)
NewRow(d) == [id |-> rows[d] + 1, state |-> "DHCP_BOOT", type |-> "UNKNOWN",
              renamed |-> FALSE, mgmt |-> 0, resv |-> 0]

\* A discovery waits already for the lease of the device.
PreScheduleCheck(d) == \A j \in Slots : ~(At(j, {"discover"}, "wait") /\ job[j].dev = d)

\* The device takes its lease, or renews it.
DhcpHook(d) ==
  /\ plant[d] = 0
  /\ \/ /\ ~Exists(d) /\ rows[d] < MaxRows
        /\ rows' = [rows EXCEPT ![d] = @ + 1]
        /\ Store(d, NewRow(d))
        /\ UNCHANGED job
     \/ /\ Exists(d) /\ row[d].state = "DHCP_BOOT"
        /\ PreScheduleCheck(d)
        /\ \E j \in Free : job' = [job EXCEPT ![j] = New("discover", d, 0, 1, None)]
        /\ UNCHANGED <<row, rows>>
  /\ UNCHANGED <<plant, events, hist>>

MayDiscoverAnyState(d) == Exists(d)
MayDiscover(d) == Exists(d) /\ row[d].state = "DHCP_BOOT"

DiscoverStart(j) ==
  /\ At(j, {"discover"}, "wait")
  /\ LET d == job[j].dev IN
     IF MayDiscover(d)
     THEN /\ Go(j, "facts")
          /\ overlap' = IF \E k \in Others(j, {"discover"}, {"facts", "store"}) : job[k].dev = d
                        THEN overlap \cup {d} ELSE overlap
     ELSE End(j) /\ UNCHANGED overlap
  /\ UNCHANGED <<row, rows, plant, events, raced, twice, lost, stuck>>

\* No answer, or a failed log in: the next attempt is scheduled, up to three.
DiscoverFails(j) ==
  /\ At(j, {"discover"}, "facts")
  /\ IF job[j].it < 3
     THEN job' = [job EXCEPT ![j] = New("discover", @.dev, 0, @.it + 1, None)]
     ELSE End(j)
  /\ UNCHANGED <<row, rows, plant, events, hist>>

DiscoverFacts(j) ==
  /\ At(j, {"discover"}, "facts") /\ plant[job[j].dev] = 0
  /\ Go(j, "store")
  /\ UNCHANGED <<row, rows, plant, events, hist>>

\* The device is looked up by its hardware address again; its state is not.
DiscoverStore(j) ==
  /\ At(j, {"discover"}, "store")
  /\ LET d == job[j].dev IN
     IF Exists(d) THEN Store(d, [row[d] EXCEPT !.state = "DISCOVERED"]) ELSE UNCHANGED row
  /\ End(j)
  /\ UNCHANGED <<rows, plant, events, hist>>

(***************************************************************************)
(* Addresses.                                                              *)
(***************************************************************************)
FirstSteps == {"ACCESS", "FABRIC"}
TakenByRows(table) == {table[e].mgmt : e \in {x \in Devices : table[x] # NoRow}}
Taken(table) == {table[e].mgmt : e \in {x \in Devices : table[x] # NoRow}}
                  \cup {table[e].resv : e \in {x \in Devices : table[x] # NoRow}}
FreeAddresses(table) == Pool \ Taken(table)
FirstFree(table) == {a \in FreeAddresses(table) : \A b \in FreeAddresses(table) : a <= b}
Clean(cleared) == [e \in Devices |-> IF e \in cleared THEN [row[e] EXCEPT !.resv = 0] ELSE row[e]]
\* Only a reservation whose job has ended gets a day old.
Expired == {e \in Devices : Exists(e) /\ row[e].resv # 0
              /\ \A j \in Slots : job[j] # NoJob => job[j].dev # e}
\* Who has chosen the address and not stored it, or goes on with it although the
\* reservation was removed.
Choosers(j, a) ==
  {job[k].dev : k \in {i \in Others(j, FirstSteps \cup {"post"}, {"chosen", "reserved", "moved"}) : job[i].addr = a}}

\* The own reservation and those a day old are removed and committed, then the
\* first address that no row holds is taken; nothing is stored yet.
Choose(j, cleared) ==
  LET table == Clean(cleared) IN
  /\ row' = table
  /\ lost' = lost \cup {e \in cleared : plant[e] # 0 /\ plant[e] = row[e].resv}
  /\ IF FreeAddresses(table) = {}
     THEN End(j) /\ UNCHANGED raced
     ELSE \E a \in FirstFree(table) :
            /\ job' = [job EXCEPT ![j].at = "chosen", ![j].addr = a]
            /\ raced' = raced \cup {{job[j].dev, e} : e \in Choosers(j, a)}
  /\ UNCHANGED <<rows, plant, events, twice, overlap, stuck>>

StepOneChoose(j) ==
  /\ At(j, FirstSteps, "checked")
  /\ \E old \in {{}, Expired \ {job[j].dev}} :
       Choose(j, old \cup (IF ById(j) THEN {job[j].dev} ELSE {}))

(***************************************************************************)
(* The first step of initialisation.                                       *)
(***************************************************************************)
Ready(d) == Exists(d) /\ row[d].state = "DISCOVERED" /\ Answers(d)
Running(j) == Others(j, FirstSteps, {"checked", "chosen", "reserved", "moved", "refused", "next"})

\* The device is ready, and so is its peer; neighbours and links are in order.
StepOneStart(j) ==
  /\ At(j, FirstSteps, "wait")
  /\ ById(j) /\ Ready(job[j].dev)
  /\ job[j].peer # None => Ready(job[j].peer)
  /\ Go(j, "checked")
  /\ twice' = IF \E k \in Running(j) : job[k].dev = job[j].dev
              THEN twice \cup {job[j].dev} ELSE twice
  /\ UNCHANGED <<row, rows, plant, events, raced, overlap, lost, stuck>>

\* Any check may fail; the device need not answer, its neighbours need not fit.
StepOneRefused(j) ==
  /\ At(j, FirstSteps, "wait")
  /\ End(j)
  /\ UNCHANGED <<row, rows, plant, events, hist>>

\* The first of a pair is managed already: its peer is initialised alone (and
\* then the job fails, since it goes on without a device).
InitMlagPeerOnly(j) ==
  /\ At(j, {"ACCESS"}, "wait") /\ job[j].peer # None
  /\ ById(j) /\ row[job[j].dev].state = "MANAGED" /\ Ready(job[j].peer)
  /\ LET p == job[j].peer IN job' = [job EXCEPT ![j] = New("ACCESS", p, row[p].id, 0, None)]
  /\ UNCHANGED <<row, rows, plant, events, hist>>

\* One reservation for a device: a second one is refused by its key.
StepOneReserve(j) ==
  /\ At(j, FirstSteps, "chosen")
  /\ LET d == job[j].dev IN
     IF ById(j) /\ row[d].resv = 0
     THEN Store(d, [row[d] EXCEPT !.resv = job[j].addr, !.renamed = TRUE]) /\ Go(j, "reserved")
     ELSE End(j) /\ UNCHANGED row
  /\ UNCHANGED <<rows, plant, events, hist>>

\* The settings cannot be read with the new name: name and reservation stay.
StepOneSettings(j) ==
  /\ At(j, FirstSteps, "reserved")
  /\ End(j)
  /\ UNCHANGED <<row, rows, plant, events, hist>>

MovedRolledBack(j) == Go(j, "refused")
\* What follows a push of which the device is not heard of again.
Moved(j) == Go(j, "moved")
\* What follows when the device still answers on its old address, or was sent
\* nothing since its certificate or its configuration could not be made.
Refused(j) == Go(j, IF job[j].kind = "ACCESS" THEN "refused" ELSE "moved")

\* The device takes the new configuration and leaves its old address, keeps the
\* old one, or is out of reach for a reason of its own.
PushBaseManagement(j) ==
  /\ At(j, FirstSteps, "reserved") /\ ById(j)
  /\ LET d == job[j].dev IN
     \/ /\ \E e \in Devices : /\ plant[e] = Contact(d) /\ (Contact(d) = 0 => e = d)
                              /\ plant' = [plant EXCEPT ![e] = job[j].addr]
        /\ Moved(j)
     \/ Refused(j) /\ UNCHANGED plant
     \/ Moved(j) /\ UNCHANGED plant
  /\ UNCHANGED <<row, rows, events, hist>>

Initialised(d, kind, addr) ==
  [row[d] EXCEPT !.mgmt = addr, !.state = "INIT", !.type = kind, !.resv = 0]
StepOneCommit(j) ==
  /\ At(j, FirstSteps, "moved")
  /\ LET d == job[j].dev IN
     IF ById(j)
     THEN Store(d, Initialised(d, job[j].kind, job[j].addr)) /\ Go(j, "next") /\ stuck' = stuck \ {d}
     ELSE End(j) /\ UNCHANGED <<row, stuck>>
  /\ UNCHANGED <<rows, plant, events, raced, twice, overlap, lost>>

StepOneRollback(j) ==
  /\ At(j, FirstSteps, "refused")
  /\ LET d == job[j].dev IN
     IF ById(j) THEN Store(d, [row[d] EXCEPT !.renamed = FALSE, !.resv = 0]) ELSE UNCHANGED row
  /\ End(j)
  /\ UNCHANGED <<rows, plant, events, hist>>

\* The second step is scheduled, and the first one of the peer.
StepOneNext(j) ==
  /\ At(j, FirstSteps, "next")
  /\ LET second == New("step2", job[j].dev, job[j].id, 1, None)
         p == job[j].peer
     IN  IF p = None \/ ~Exists(p)
         THEN job' = [job EXCEPT ![j] = second]
         ELSE \E k \in Free :
                job' = [job EXCEPT ![j] = second, ![k] = New("ACCESS", p, row[p].id, 0, None)]
  /\ UNCHANGED <<row, rows, plant, events, hist>>

(***************************************************************************)
(* The second step.                                                        *)
(***************************************************************************)
StepTwoStart(j) ==
  /\ At(j, {"step2"}, "wait")
  /\ IF ById(j) /\ row[job[j].dev].state = "INIT" THEN Go(j, "facts") ELSE End(j)
  /\ UNCHANGED <<row, rows, plant, events, hist>>

AgainForever(it) == it > 0
AgainNever(it) == it > 0 /\ it < 1
Again(it) == it > 0 /\ it < 2
StepTwoFails(j) ==
  /\ At(j, {"step2"}, "facts")
  /\ IF Again(job[j].it)
     THEN job' = [job EXCEPT ![j] = New("step2", @.dev, @.id, @.it + 1, None)]
     ELSE End(j)
  /\ stuck' = IF job[j].it >= 2 THEN stuck \cup {job[j].dev} ELSE stuck
  /\ UNCHANGED <<row, rows, plant, events, raced, twice, overlap, lost>>

AnyHost(d, e) == TRUE
RightHost(d, e) == e = d
\* Whatever device has the address answers, with its own name.
StepTwoFacts(j) ==
  /\ At(j, {"step2"}, "facts") /\ ById(j)
  /\ LET d == job[j].dev IN
     \E e \in Devices :
       /\ plant[e] = row[d].mgmt
       /\ IF RightHost(d, e) THEN Go(j, "store") /\ UNCHANGED stuck
                             ELSE End(j) /\ stuck' = stuck \cup {d}
  /\ UNCHANGED <<row, rows, plant, events, raced, twice, overlap, lost>>

StepTwoStore(j) ==
  /\ At(j, {"step2"}, "store")
  /\ IF ById(j) THEN Store(job[j].dev, [row[job[j].dev] EXCEPT !.state = "MANAGED"]) ELSE UNCHANGED row
  /\ End(j)
  /\ UNCHANGED <<rows, plant, events, hist>>

(***************************************************************************)
(* Requests of operators.                                                  *)
(***************************************************************************)
DeviceInit(d, kind, peer) ==
  /\ Request /\ Exists(d)
  /\ peer # None => kind = "ACCESS" /\ peer # d /\ Exists(peer)
  /\ LET going == row[d].state = "INIT" /\ row[d].mgmt # 0 IN
     /\ \E j \in Free :
          job' = [job EXCEPT ![j] = IF going THEN New("step2", d, row[d].id, 1, None)
                                             ELSE New(kind, d, row[d].id, 0, peer)]
     /\ stuck' = IF going THEN stuck \ {d} ELSE stuck
  /\ UNCHANGED <<row, rows, plant, raced, twice, overlap, lost>>

PutState(d) ==
  /\ Request /\ Exists(d)
  /\ \/ row[d].state = "MANAGED" /\ Store(d, [row[d] EXCEPT !.state = "UNMANAGED"])
     \/ row[d].state = "UNMANAGED" /\ Store(d, [row[d] EXCEPT !.state = "MANAGED"])
  /\ UNCHANGED <<rows, plant, job, hist>>

\* Reservations go with the row; the device keeps the address it has.
DeleteDevice(d) ==
  /\ Request /\ Exists(d)
  /\ Store(d, NoRow)
  /\ lost' = IF plant[d] # 0 THEN lost \cup {d} ELSE lost
  /\ UNCHANGED <<rows, plant, job, raced, twice, overlap, stuck>>

FactoryDefault(d) ==
  /\ Request /\ Exists(d)
  /\ \E j \in Free : job' = [job EXCEPT ![j] = New("erase", d, row[d].id, 0, None)]
  /\ UNCHANGED <<row, rows, plant, hist>>

EraseStart(j) ==
  /\ At(j, {"erase"}, "wait")
  /\ IF ById(j) /\ row[job[j].dev].type = "ACCESS" /\ row[job[j].dev].state \in {"MANAGED", "UNMANAGED"}
     THEN Go(j, "wipe") ELSE End(j)
  /\ UNCHANGED <<row, rows, plant, events, hist>>

EraseTask(j) ==
  /\ At(j, {"erase"}, "wipe")
  /\ \/ End(j) /\ UNCHANGED <<plant, lost>>
     \/ /\ ById(j)
        /\ \E e \in Devices :
             /\ plant[e] = row[job[j].dev].mgmt /\ plant[e] # 0
             /\ plant' = [plant EXCEPT ![e] = 0]
             /\ lost' = IF e = job[j].dev THEN lost ELSE lost \cup {e, job[j].dev}
        /\ Go(j, "delete")
  /\ UNCHANGED <<row, rows, events, raced, twice, overlap, stuck>>

EraseDelete(j) ==
  /\ At(j, {"erase"}, "delete")
  /\ IF ById(j) THEN Store(job[j].dev, NoRow) ELSE UNCHANGED row
  /\ End(j)
  /\ UNCHANGED <<rows, plant, events, hist>>

\* A fabric switch that has never booted by DHCP is added by hand: it is given an address, and the operator
\* configures it with the address that the request returns.
AddFabric(d) ==
  /\ Request /\ plant[d] = 0 /\ rows[d] = 0
  /\ \E j \in Free : job' = [job EXCEPT ![j] = New("post", d, 0, 0, None)]
  /\ UNCHANGED <<row, rows, plant, hist>>

PostChoose(j) == At(j, {"post"}, "wait") /\ Choose(j, {})

PostStore(j) ==
  /\ At(j, {"post"}, "chosen")
  /\ LET d == job[j].dev IN
     IF rows[d] # 0
     THEN UNCHANGED <<row, rows, plant>>
     ELSE /\ rows' = [rows EXCEPT ![d] = 1]
          /\ Store(d, [NewRow(d) EXCEPT !.state = "MANAGED", !.type = "FABRIC",
                                        !.renamed = TRUE, !.mgmt = job[j].addr])
          /\ plant' = [plant EXCEPT ![d] = job[j].addr]
  /\ End(j)
  /\ UNCHANGED <<events, hist>>

\* The server is restarted: what runs is lost, what waits may come too late.
Restart ==
  /\ Request
  /\ \E late \in BOOLEAN :
       LET gone == {j \in Slots \ Free : late \/ job[j].at # "wait"} IN
       /\ gone # {}
       /\ job' = [j \in Slots |-> IF j \in gone THEN NoJob ELSE job[j]]
       /\ stuck' = stuck \cup {job[j].dev : j \in gone}
       /\ lost' = lost \cup {job[j].dev : j \in {k \in gone : At(k, {"erase"}, "delete")}}
  /\ UNCHANGED <<row, rows, plant, raced, twice, overlap>>

JobStep(j) ==
  \/ DiscoverStart(j) \/ DiscoverFails(j) \/ DiscoverFacts(j) \/ DiscoverStore(j)
  \/ StepOneStart(j) \/ StepOneRefused(j) \/ InitMlagPeerOnly(j) \/ StepOneChoose(j)
  \/ StepOneReserve(j) \/ StepOneSettings(j) \/ PushBaseManagement(j)
  \/ StepOneCommit(j) \/ StepOneRollback(j) \/ StepOneNext(j)
  \/ StepTwoStart(j) \/ StepTwoFails(j) \/ StepTwoFacts(j) \/ StepTwoStore(j)
  \/ EraseStart(j) \/ EraseTask(j) \/ EraseDelete(j) \/ PostChoose(j) \/ PostStore(j)

Operator(d) ==
  \/ \E kind \in FirstSteps, peer \in Devices \cup {None} : DeviceInit(d, kind, peer)
  \/ PutState(d) \/ DeleteDevice(d) \/ FactoryDefault(d) \/ AddFabric(d)

Next ==
  \/ \E d \in Devices : DhcpHook(d) \/ Operator(d)
  \/ \E j \in Slots : JobStep(j)
  \/ Restart

Spec == Init /\ [][Next]_vars

(***************************************************************************)
(* Properties.                                                             *)
(***************************************************************************)
\* Devices that one of the races, or giving up a reservation, has reached.
Spoiled == twice \cup overlap \cup lost \cup UNION raced
Holds(d, a) == Exists(d) /\ (row[d].mgmt = a \/ row[d].resv = a)

\* Two rows hold the same address only if it was chosen for one of them while a job
\* went on with it for the other and its row did not hold it: not stored yet
\* (find_free_mgmt_ip), or its reservation removed (clean_reservations).
SharedOnlyByRace ==
  \A d, e \in Devices :
    (d # e /\ \E a \in Pool : Holds(d, a) /\ Holds(e, a)) => {d, e} \in raced

\* The address that a device has been moved to is its row's or reserved for it,
\* through every failure on the way, until its row is deleted or the reservation
\* of a job that died expires; not so if the first step was taken twice at once,
\* again after a late discovery, or by two devices with the same address
\* (init_access_device_step1, clean_reservations).
AddressesHeld ==
  \A d \in Devices : (plant[d] # 0 /\ d \notin Spoiled) => Holds(d, plant[d])

\* A device that its row calls MANAGED is the one that answers on the row's
\* address, but for devices that got an address by a race or were initialised
\* again (init_device_step2 compares the host name it finds there).
ManagedIsThere ==
  \A d \in Devices :
    (Exists(d) /\ row[d].state = "MANAGED")
      => \/ plant[d] = row[d].mgmt
         \/ d \in Spoiled
         \/ \E j \in Slots : At(j, {"erase"}, "delete") /\ job[j].dev = d

\* A device in INIT is on its way: a job is left that will go on with it, or its
\* attempts are used up, it is another device, or a restart took the job
\* (schedule_init_device_step2, DeviceInitApi.post).
InitIsFollowed ==
  \A d \in Devices :
    (Exists(d) /\ row[d].state = "INIT" /\ d \notin stuck)
      => \E j \in Slots : /\ job[j] # NoJob
                          /\ job[j].dev = d /\ job[j].id = row[d].id
                          /\ job[j].kind = "step2" \/ job[j].at = "next"

\* A device falls back from INIT or MANAGED to DISCOVERED only when two of its
\* discoveries ran at the same time and one of them was late (discover_device).
\* StatesKept says more; this is the part of it that needs no first steps.
FallsBackOnlyLate ==
  [][\A d \in Devices :
       (/\ Exists(d) /\ row[d].state \in {"INIT", "MANAGED", "UNMANAGED"}
        /\ row'[d] # NoRow /\ row'[d].state = "DISCOVERED") => d \in overlap]_vars

\* What the table of devices shows of a device.
StateOf(d) == IF Exists(d) THEN row[d].state ELSE "NONE"
AddressOf(d) == IF Exists(d) THEN row[d].mgmt ELSE 0
Hurt == twice \cup overlap
Table == INSTANCE DeviceStates WITH
  state <- [d \in Devices |-> StateOf(d)],
  address <- [d \in Devices |-> AddressOf(d)],
  disturbed <- Hurt

\* Whatever jobs and requests do to a device, and in whatever order, the table shows
\* it going through its states in the order of DeviceStates, with an address from
\* INIT on; it leaves that order only after two of its discoveries, or two of its
\* first steps, ran at the same time (schedule_discover_device, pre_init_checks).
StatesKept == Table!Spec

=============================================================================
