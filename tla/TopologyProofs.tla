--------------------------- MODULE TopologyProofs ---------------------------
(***************************************************************************)
(* Theorems about Topology, for any switches, cabling, settings, domains,  *)
(* networks and numbers of requests.                                       *)
(***************************************************************************)
EXTENDS Topology, FiniteSetTheorems, TLAPS

(***************************************************************************)
(* The variables keep their types.                                         *)
(***************************************************************************)
Tasks == [at: {"read", "links", "choose", "add", "domain", "push"},
          kind: {"ACCESS", "CORE", "DIST", "POST"}, peer: New \cup {None}, who: Devices,
          todo: SUBSET (Ports \X Ports), pair: {<<>>} \cup (Ports \X Ports),
          net: Nets \cup {0}, ups: SUBSET (Ports \X Devices), domain: Domains \cup {None}]

\* A request only makes a link, and only who makes a link has a pair of ports.
JobShape ==
  /\ job \in [Workers -> Tasks \cup {Idle}]
  /\ \A w \in Workers : job[w] # Idle =>
       /\ job[w].at \in {"choose", "add"} <=> job[w].pair # <<>>
       /\ w = Api => job[w].at \in {"choose", "add"}
       /\ w # Api => job[w].kind # "POST"

Cabled == \A p \in DOMAIN cable : /\ p \in Ports /\ cable[p] \in DOMAIN cable
                                  /\ cable[cable[p]] = p /\ cable[p] # p

DataTyped ==
  /\ links \subseteq Link
  /\ intf \in [Ports -> Kinds]
  /\ state \in [Devices -> {"DISCOVERED", "INIT", "MANAGED", "GONE"}]
  /\ type \in [Devices -> Fabric \cup {"ACCESS", "UNKNOWN"}]
  /\ domain \in [Devices -> Domains \cup {None}]
  /\ synced \in [Devices -> BOOLEAN]
  /\ conf \in [Devices -> SUBSET Settings]
  /\ pushing \in [Devices -> (SUBSET Settings) \cup {None}]
  /\ tries \in [New -> 0..MaxTries] /\ events \in 0..MaxEvents
  /\ missed \subseteq Devices /\ raced \subseteq Nets /\ crossed \subseteq Ports /\ moved \subseteq New

TypeInv == DataTyped /\ JobShape /\ Cabled

LEMMA TypeInvImplies == TypeInv => TypeOK
<1> SUFFICES ASSUME TypeInv PROVE TypeOK
  OBVIOUS
<1>1. \A w \in Workers :
        job[w] # Idle => /\ job[w].at \in {"read", "links", "choose", "add", "domain", "push"}
                         /\ job[w].who \in Devices
                         /\ job[w].net \in Nets \cup {0}
                         /\ job[w].at \in {"choose", "add"} <=> job[w].pair # <<>>
  BY DEF TypeInv, JobShape, Tasks
<1> QED BY <1>1 DEF TypeInv, TypeOK, DataTyped, Cabled

LEMMA TypeInit == Init => TypeInv
<1> SUFFICES ASSUME Init PROVE TypeInv
  OBVIOUS
<1> USE SwitchesAssumption, TypesAssumption, BoundsAssumption DEF Init
<1>1. Cabled
  BY LayoutsAssumption DEF Cabled
<1>2. JobShape
  BY DEF JobShape
<1>3. DataTyped
  BY DEF DataTyped, Devices, Kinds, Fabric
<1> QED BY <1>1, <1>2, <1>3 DEF TypeInv

\* Tasks stay tasks when their fields are set.
LEMMA TaskFields ==
  ASSUME NEW j \in Tasks
  PROVE  /\ \A x \in {"read", "links", "choose", "add", "domain", "push"} :
              [j EXCEPT !.at = x] \in Tasks
         /\ j # Idle
BY DEF Tasks, Idle

LEMMA NeighboursTyped ==
  ASSUME Cabled, NEW d, NEW peer
  PROVE  Neighbours(d, peer) \subseteq Ports \X Ports
BY DEF Cabled, Neighbours, PortsOf

LEMMA KnownTyped ==
  ASSUME Cabled, links \subseteq Link, NEW d, NEW peer, NEW k \in Known(d, peer)
  PROVE  k.ends \subseteq Ports
<1>1. \A l \in links : {l.a, l.b} \subseteq Ports
  BY DEF Link
<1>2. \A e, f : Neighbours(e, f) \subseteq Ports \X Ports
  BY NeighboursTyped
<1> DEFINE near == LinksAt(d) \cup (IF peer = None THEN {} ELSE LinksAt(peer))
           seen == Neighbours(d, peer) \cup (IF peer = None THEN {} ELSE Neighbours(peer, d))
<1>3. near \subseteq links /\ seen \subseteq Ports \X Ports
  BY <1>2 DEF LinksAt
<1>4. \/ \E l \in near : k = [ends |-> {l.a, l.b}, redundant |-> TRUE]
      \/ \E n \in seen : k = [ends |-> {n[1], n[2]}, redundant |-> Redundant(n[1], type[n[2].dev], n[2])]
  BY DEF Known
<1> QED BY <1>1, <1>3, <1>4

LEMMA FarTyped ==
  ASSUME NEW d, NEW peer, NEW k, k.ends \subseteq Ports, k.ends # {}
  PROVE  Far(k, d, peer) \in Ports
<1> DEFINE own == {p \in k.ends : p.dev = d}
           near == IF own # {} THEN own ELSE {p \in k.ends : p.dev = peer}
<1>1. \E q \in k.ends : q \notin near \/ k.ends = near
  BY near \subseteq k.ends
<1> QED BY <1>1 DEF Far

LEMMA UplinksTyped ==
  ASSUME Cabled, links \subseteq Link, NEW d, NEW peer
  PROVE  UplinkDevices(d, peer) \subseteq Ports \X Devices
<1> SUFFICES ASSUME NEW u \in UplinkPorts(d, peer)
             PROVE  <<u[1], Far(u[2], d, peer).dev>> \in Ports \X Devices
  BY DEF UplinkDevices
<1>1. PICK p \in Ports : /\ \E k \in Uplinks(d, peer) : p \in k.ends
                         /\ u = <<p, (CHOOSE k \in Uplinks(d, peer) : p \in k.ends)>>
  BY DEF UplinkPorts
<1>2. u[2] \in Uplinks(d, peer) /\ p \in u[2].ends /\ u[1] = p
  BY <1>1
<1>3. u[2].ends \subseteq Ports
  BY <1>2, KnownTyped DEF Uplinks
<1> QED BY <1>2, <1>3, FarTyped, PortsAssumption

LEMMA DomainsTyped ==
  ASSUME domain \in [Devices -> Domains \cup {None}], NEW n, NEW up \in SUBSET Devices,
         n = 1 => up # {}
  PROVE  FindMgmtdomain(n, up) \subseteq Domains \cup {None}
<1>1. CASE n = 1
  <2> DEFINE d == CHOOSE e \in up : TRUE
  <2>1. d \in Devices
    BY <1>1
  <2> QED BY <1>1, <2>1 DEF FindMgmtdomain, AnyOfPair
<1>2. CASE n # 1
  BY <1>2 DEF FindMgmtdomain, PairDomains, CoreDomains
<1> QED BY <1>1, <1>2

LEMMA WantedTyped ==
  ASSUME links \subseteq Link, intf \in [Ports -> Kinds], NEW d
  PROVE  Wanted(d) \subseteq Settings
<1>1. \A l \in LinksAt(d) : View(l, d) \in Ports \X Ports \X (Nets \cup {0})
  BY DEF LinksAt, View, Link
<1>2. \A p \in PortsOf(d) : <<p, intf[p]>> \in Ports \X Kinds
  BY DEF PortsOf
<1> QED BY <1>1, <1>2 DEF Wanted, Settings

LEMMA EndsTyped ==
  ASSUME NEW l \in Link
  PROVE  Ends(l) \subseteq Devices
BY PortsAssumption DEF Ends, Link

-----------------------------------------------------------------------------
(* What one action writes keeps its type. *)

\* One job goes on: to a task of its kind, or to none.
LEMMA JobUpdate ==
  ASSUME JobShape, NEW w \in Workers, NEW x \in Tasks \cup {Idle},
         x # Idle => /\ x.at \in {"choose", "add"} <=> x.pair # <<>>
                     /\ w = Api => x.at \in {"choose", "add"}
                     /\ w # Api => x.kind # "POST",
         job' = [job EXCEPT ![w] = x]
  PROVE  JobShape'
<1>1. job' \in [Workers -> Tasks \cup {Idle}]
  BY DEF JobShape
<1>2. \A v \in Workers : job'[v] = IF v = w THEN x ELSE job[v]
  BY DEF JobShape
<1> QED BY <1>1, <1>2 DEF JobShape

LEMMA JobTyped ==
  ASSUME JobShape, NEW w \in Workers, NEW at, At(w, at)
  PROVE  /\ job[w] \in Tasks /\ job[w].at = at
         /\ at \in {"choose", "add"} <=> job[w].pair # <<>>
         /\ w = Api => at \in {"choose", "add"}
         /\ w # Api => job[w].kind # "POST"
BY DEF JobShape, At

LEMMA MarkTyped ==
  ASSUME NEW ds, Mark(ds), synced \in [Devices -> BOOLEAN]
  PROVE  synced' \in [Devices -> BOOLEAN]
BY DEF Mark

LEMMA OvertakenTyped ==
  ASSUME NEW ds \in SUBSET Devices
  PROVE  Overtaken(ds) \subseteq Devices
BY DEF Overtaken

LEMMA AllEndsTyped ==
  ASSUME NEW L, L \subseteq Link
  PROVE  UNION {Ends(l) : l \in L} \subseteq Devices
BY EndsTyped

-----------------------------------------------------------------------------
(* Every action keeps the types. *)
LEMMA SyncTypes ==
  ASSUME TypeInv, NEW d \in Devices, SyncRender(d) \/ SyncEnd(d)
  PROVE  TypeInv'
<1>1. JobShape' /\ Cabled'
  BY DEF TypeInv, SyncRender, SyncEnd, JobShape, Cabled
<1>2. CASE SyncRender(d)
  <2>1. Wanted(d) \subseteq Settings
    BY WantedTyped DEF TypeInv, DataTyped
  <2> QED BY <1>1, <1>2, <2>1 DEF TypeInv, DataTyped, SyncRender
<1>3. CASE SyncEnd(d)
  <2>1. pushing[d] \in SUBSET Settings
    BY <1>3 DEF TypeInv, DataTyped, SyncEnd
  <2> QED BY <1>1, <1>3, <2>1, SwitchesAssumption DEF TypeInv, DataTyped, SyncEnd, hist
<1> QED BY <1>2, <1>3

LEMMA CheckTypes ==
  ASSUME TypeInv, NEW d \in New, NEW peer \in New \cup {None}, NEW lt \in Fabric, NEW named,
         AccessCheck(d, peer) \/ FabricCheck(d, lt, named)
  PROVE  TypeInv'
<1> USE DEF TypeInv
<1>1. Cabled'
  BY DEF AccessCheck, FabricCheck, Cabled
<1>2. \A kind \in {"ACCESS", "CORE", "DIST"}, p \in New \cup {None}, ups \in SUBSET (Ports \X Devices) :
        Task(d, kind, p, ups) \in Tasks /\ Task(d, kind, p, ups).at = "read"
        /\ Task(d, kind, p, ups).pair = <<>> /\ Task(d, kind, p, ups).kind = kind
  BY DEF Task, Tasks, Devices
<1>3. d # Api /\ d \in Workers
  BY SwitchesAssumption DEF Workers, Devices
<1>4. UplinkDevices(d, peer) \in SUBSET (Ports \X Devices)
  BY UplinksTyped DEF DataTyped
<1>5. JobShape'
  <2>1. CASE UNCHANGED job
    BY <2>1 DEF JobShape
  <2>2. CASE \E kind \in {"ACCESS", "CORE", "DIST"}, p \in New \cup {None}, ups \in SUBSET (Ports \X Devices) :
               job' = [job EXCEPT ![d] = Task(d, kind, p, ups)]
    <3>1. PICK kind \in {"ACCESS", "CORE", "DIST"}, p \in New \cup {None}, ups \in SUBSET (Ports \X Devices) :
            job' = [job EXCEPT ![d] = Task(d, kind, p, ups)]
      BY <2>2
    <3> DEFINE x == Task(d, kind, p, ups)
    <3>2. x \in Tasks /\ x.at = "read" /\ x.pair = <<>> /\ x.kind = kind
      BY <1>2
    <3>3. job' = [job EXCEPT ![d] = x]
      BY <3>1
    <3> HIDE DEF x
    <3> QED BY <3>2, <3>3, <1>3, JobUpdate
  <2> QED BY <2>1, <2>2, <1>4 DEF AccessCheck, FabricCheck, Begin, Fabric
<1>6. tries' \in [New -> 0..MaxTries]
  BY BoundsAssumption DEF AccessCheck, FabricCheck, Begin, Ready, DataTyped
<1>7. intf' \in [Ports -> Kinds]
  BY DEF AccessCheck, FabricCheck, Role, Kinds, DataTyped
<1>8. type' \in [Devices -> Fabric \cup {"ACCESS", "UNKNOWN"}]
  BY DEF AccessCheck, FabricCheck, DataTyped
<1> QED BY <1>1, <1>5, <1>6, <1>7, <1>8 DEF AccessCheck, FabricCheck, DataTyped, hist

LEMMA LinkTypes ==
  ASSUME TypeInv, NEW w \in Workers, ReadNeighbours(w) \/ LinkLookup(w) \/ LinkChoose(w)
  PROVE  TypeInv'
<1> USE DEF TypeInv
<1>1. Cabled'
  BY DEF ReadNeighbours, LinkLookup, LinkChoose, Cabled
<1>2. CASE ReadNeighbours(w)
  <2> DEFINE todo == Neighbours(job[w].who, IF job[w].who = w THEN job[w].peer ELSE None)
             x == [job[w] EXCEPT !.at = "links", !.todo = todo]
  <2>1. job[w] \in Tasks /\ job[w].at = "read"
    BY <1>2, JobTyped DEF ReadNeighbours
  <2>2. todo \in SUBSET (Ports \X Ports)
    BY NeighboursTyped
  <2>3. x \in Tasks /\ x.at = "links" /\ x.pair = job[w].pair /\ x.kind = job[w].kind
    <3> HIDE DEF todo
    <3> QED BY <2>1, <2>2 DEF Tasks
  <2>4. job' = [job EXCEPT ![w] = x]
    BY <1>2 DEF ReadNeighbours
  <2>5. w # Api /\ job[w].pair = <<>> /\ job[w].kind # "POST"
    BY <2>1, TaskFields DEF JobShape
  <2>6. JobShape'
    BY <2>3, <2>4, <2>5, JobUpdate
  <2> QED BY <1>1, <1>2, <2>6 DEF ReadNeighbours, DataTyped, hist
<1>3. CASE LinkLookup(w)
  <2>1. PICK n \in job[w].todo :
          LET old == LookedUp(n[1], n[2])
              same == \E l \in old : l.a = n[1] /\ l.b = n[2]
          IN  IF ~Compatible(job[w].kind, n[1], type[n[2].dev], n[2]) \/ Cardinality(old) > 1
              THEN Fail(w) /\ UNCHANGED <<links, missed, crossed>>
              ELSE /\ job' = [job EXCEPT ![w].todo = @ \ {n},
                                         ![w].at = IF same THEN "links" ELSE "choose",
                                         ![w].pair = IF same THEN <<>> ELSE n]
                   /\ links' = IF same THEN links ELSE links \ old
                   /\ crossed' = IF same THEN crossed ELSE crossed \cup ({n[1], n[2]} \cap Making(w))
                   /\ missed' = IF same THEN missed ELSE missed \cup UNION {Ends(l) : l \in old}
    BY <1>3 DEF LinkLookup
  <2>2. job[w] \in Tasks /\ job[w].at = "links" /\ n \in Ports \X Ports
    BY <1>3, JobTyped DEF LinkLookup, Tasks
  <2>3. w # Api /\ job[w].kind # "POST"
    BY <2>2, TaskFields DEF JobShape
  <2> DEFINE old == LookedUp(n[1], n[2])
             x(same) == [job[w] EXCEPT !.todo = @ \ {n}, !.at = IF same THEN "links" ELSE "choose",
                                       !.pair = IF same THEN <<>> ELSE n]
  <2>4. \A same \in BOOLEAN : /\ x(same) \in Tasks /\ x(same).kind = job[w].kind
                              /\ (x(same).at \in {"choose", "add"} <=> x(same).pair # <<>>)
    <3>1. x(TRUE) \in Tasks /\ x(TRUE).kind = job[w].kind /\ x(TRUE).at = "links" /\ x(TRUE).pair = <<>>
      BY <2>2 DEF Tasks
    <3>2. x(FALSE) \in Tasks /\ x(FALSE).kind = job[w].kind /\ x(FALSE).at = "choose" /\ x(FALSE).pair = n
      BY <2>2 DEF Tasks
    <3>3. n # <<>>
      BY <2>2
    <3> HIDE DEF x
    <3> QED BY <3>1, <3>2, <3>3
  <2>5. \/ Fail(w)
        \/ \E same \in BOOLEAN : job' = [job EXCEPT ![w] = x(same)]
    BY <2>1
  <2>6. JobShape'
    <3>1. CASE Fail(w)
      BY <3>1, JobUpdate DEF Fail
    <3>2. CASE \E same \in BOOLEAN : job' = [job EXCEPT ![w] = x(same)]
      <4>1. PICK same \in BOOLEAN : job' = [job EXCEPT ![w] = x(same)]
        BY <3>2
      <4>2. x(same) \in Tasks /\ x(same).kind = job[w].kind
            /\ (x(same).at \in {"choose", "add"} <=> x(same).pair # <<>>)
        BY <2>4
      <4> HIDE DEF x
      <4> QED BY <4>1, <4>2, <2>3, JobUpdate
    <3> QED BY <2>5, <3>1, <3>2
  <2>7. old \subseteq Link
    BY DEF LookedUp, DataTyped
  <2>8. links' \subseteq Link /\ missed' \subseteq Devices /\ crossed' \subseteq Ports
    BY <2>1, <2>2, <2>7, AllEndsTyped DEF DataTyped
  <2> QED BY <1>1, <1>3, <2>6, <2>8 DEF LinkLookup, DataTyped
<1>4. CASE LinkChoose(w)
  <2> DEFINE x(net) == [job[w] EXCEPT !.at = "add", !.net = net]
  <2>1. PICK net \in FreeNets \cup {0} :
          /\ Fail(w) \/ job' = [job EXCEPT ![w] = x(net)]
          /\ raced' = raced \cup {m \in {net} \ {0} : \E v \in Workers \ {w} : At(v, "add") /\ job[v].net = m}
    <3> DEFINE fabric == \A p \in {job[w].pair[1], job[w].pair[2]} : TypeOf(w, p.dev) \in Fabric
    <3>1. PICK net \in IF ~fabric THEN {0}
                       ELSE IF FreeNets = {} THEN {0}
                       ELSE {m \in FreeNets : \A k \in FreeNets : m <= k} :
            /\ IF w = Api /\ fabric /\ net = 0
               THEN Fail(w)
               ELSE job' = [job EXCEPT ![w].at = "add", ![w].net = net]
            /\ raced' = raced \cup {m \in {net} \ {0} : \E v \in Workers \ {w} : At(v, "add") /\ job[v].net = m}
      BY <1>4 DEF LinkChoose
    <3> HIDE DEF fabric
    <3>2. net \in FreeNets \cup {0}
      BY <3>1
    <3>3. [job EXCEPT ![w].at = "add", ![w].net = net] = [job EXCEPT ![w] = x(net)]
      OBVIOUS
    <3>4. Fail(w) \/ job' = [job EXCEPT ![w] = x(net)]
      BY <3>1, <3>3
    <3> HIDE DEF x
    <3>5. QED BY <3>1, <3>2, <3>4
  <2>2. net \in Nets \cup {0}
    BY <2>1 DEF FreeNets
  <2>3. job[w] \in Tasks /\ job[w].at = "choose" /\ job[w].pair # <<>> /\ (w # Api => job[w].kind # "POST")
    BY <1>4, JobTyped DEF LinkChoose
  <2>4. x(net) \in Tasks /\ x(net).at = "add" /\ x(net).pair = job[w].pair /\ x(net).kind = job[w].kind
    BY <2>2, <2>3 DEF Tasks
  <2> HIDE DEF x
  <2>5. JobShape'
    BY <2>1, <2>3, <2>4, JobUpdate DEF Fail
  <2> QED BY <1>1, <1>4, <2>1, <2>2, <2>5 DEF LinkChoose, DataTyped
<1> QED BY <1>2, <1>3, <1>4

LEMMA AddTypes ==
  ASSUME TypeInv, NEW w \in Workers, LinkAdd(w)
  PROVE  TypeInv'
<1> USE DEF TypeInv
<1>1. Cabled'
  BY DEF LinkAdd, Cabled
<1> DEFINE l == [a |-> job[w].pair[1], b |-> job[w].pair[2], net |-> job[w].net, hand |-> w = Api]
           x == [job[w] EXCEPT !.at = "links", !.pair = <<>>, !.net = 0]
<1>2. job[w] \in Tasks /\ job[w].at = "add" /\ job[w].pair # <<>> /\ (w # Api => job[w].kind # "POST")
  BY JobTyped DEF LinkAdd
<1>3. l \in Link
  BY <1>2 DEF Tasks, Link
<1>4. x \in Tasks /\ x.at = "links" /\ x.pair = <<>> /\ x.kind = job[w].kind
  BY <1>2 DEF Tasks
<1>5. \/ Fail(w)
      \/ w # Api /\ job' = [job EXCEPT ![w] = x]
  BY DEF LinkAdd
<1>6. JobShape'
  <2> HIDE DEF x
  <2> QED BY <1>2, <1>4, <1>5, JobUpdate DEF Fail
<1>7. Overtaken(Tell(l)) \subseteq Devices
  BY <1>3, EndsTyped, OvertakenTyped DEF Tell
<1>8. \/ /\ links' = links \cup {l}
         /\ Mark(Tell(l)) /\ missed' = missed \cup Overtaken(Tell(l))
      \/ UNCHANGED <<links, synced, missed>>
  BY DEF LinkAdd
<1>9. links' \subseteq Link /\ synced' \in [Devices -> BOOLEAN] /\ missed' \subseteq Devices
  <2> HIDE DEF l
  <2> QED BY <1>3, <1>7, <1>8, MarkTyped DEF DataTyped
<1> QED BY <1>1, <1>6, <1>9 DEF LinkAdd, DataTyped

LEMMA EndTypes ==
  ASSUME TypeInv, NEW w \in Workers,
         LinksDone(w) \/ ChooseDomain(w) \/ StepOneFails(w) \/ PushRollback(w)
  PROVE  TypeInv'
<1> USE DEF TypeInv
<1>1. Cabled'
  BY DEF LinksDone, ChooseDomain, StepOneFails, PushRollback, Cabled
<1>2. CASE LinksDone(w)
  <2>1. job[w] \in Tasks /\ job[w].at = "links" /\ w # Api /\ job[w].pair = <<>> /\ job[w].kind # "POST"
    BY <1>2, JobTyped DEF LinksDone
  <2> DEFINE x == [job[w] EXCEPT !.who = job[w].peer, !.at = "read"]
             y == [job[w] EXCEPT !.at = IF job[w].kind = "ACCESS" THEN "domain" ELSE "push"]
  <2>2. job' = [job EXCEPT ![w] = y] \/ (job[w].peer # None /\ job' = [job EXCEPT ![w] = x])
    BY <1>2 DEF LinksDone, Go
  <2>3. job[w].peer # None => x \in Tasks /\ x.at = "read" /\ x.pair = <<>> /\ x.kind = job[w].kind
    BY <2>1 DEF Tasks, Devices
  <2>4. y \in Tasks /\ y.at \notin {"choose", "add"} /\ y.pair = <<>> /\ y.kind = job[w].kind
    BY <2>1 DEF Tasks
  <2>5. JobShape'
    <3> HIDE DEF x, y
    <3> QED BY <2>1, <2>2, <2>3, <2>4, JobUpdate
  <2> QED BY <1>1, <1>2, <2>5 DEF LinksDone, DataTyped, hist
<1>3. CASE ChooseDomain(w)
  <2>1. job[w] \in Tasks /\ job[w].at = "domain" /\ w # Api /\ job[w].pair = <<>> /\ job[w].kind # "POST"
    BY <1>3, JobTyped DEF ChooseDomain
  <2> DEFINE up == {u[2] : u \in job[w].ups}
             n == Cardinality(job[w].ups)
             x(m) == [job[w] EXCEPT !.at = "push", !.domain = m]
  <2>2. up \in SUBSET Devices
    BY <2>1 DEF Tasks
  <2>3. n = 1 => up # {}
    <3>1. job[w].ups = {} => n = 0
      BY FS_EmptySet
    <3>2. up = {} => job[w].ups = {}
      OBVIOUS
    <3> QED BY <3>1, <3>2
  <2>4. FindMgmtdomain(n, up) \subseteq Domains \cup {None}
    BY <2>2, <2>3, DomainsTyped DEF DataTyped
  <2>5. Fail(w) \/ \E m \in FindMgmtdomain(n, up) : job' = [job EXCEPT ![w] = x(m)]
    BY <1>3 DEF ChooseDomain
  <2>6. \A m \in Domains \cup {None} : x(m) \in Tasks /\ x(m).at = "push" /\ x(m).pair = <<>> /\ x(m).kind = job[w].kind
    BY <2>1 DEF Tasks
  <2>7. JobShape'
    <3>1. CASE Fail(w)
      BY <3>1, JobUpdate DEF Fail
    <3>2. ASSUME NEW m \in FindMgmtdomain(n, up), job' = [job EXCEPT ![w] = x(m)]
          PROVE  JobShape'
      <4> HIDE DEF x, up, n
      <4> QED BY <3>2, <2>1, <2>4, <2>6, JobUpdate
    <3> QED BY <2>5, <3>1, <3>2
  <2> QED BY <1>1, <1>3, <2>7 DEF ChooseDomain, DataTyped, hist
<1>4. CASE StepOneFails(w) \/ PushRollback(w)
  <2>1. JobShape'
    BY <1>4, JobUpdate DEF StepOneFails, PushRollback, Fail
  <2>2. UNION {Ends(l) : l \in LinksAt(w)} \subseteq Devices
    BY AllEndsTyped DEF LinksAt, DataTyped
  <2>3. CASE StepOneFails(w)
    BY <1>1, <2>1, <2>3 DEF StepOneFails, DataTyped, hist
  <2>4. CASE PushRollback(w)
    <3>1. links' \subseteq Link /\ missed' \subseteq Devices
      BY <2>2, <2>4 DEF PushRollback, DataTyped
    <3>2. intf' \in [Ports -> Kinds]
      BY <2>4 DEF PushRollback, DataTyped, Kinds
    <3> QED BY <1>1, <2>1, <2>4, <3>1, <3>2 DEF PushRollback, DataTyped
  <2> QED BY <1>4, <2>3, <2>4
<1> QED BY <1>2, <1>3, <1>4

LEMMA DoneTypes ==
  ASSUME TypeInv, NEW w \in Workers, PushDone(w)
  PROVE  TypeInv'
<1> USE DEF TypeInv
<1>1. Cabled'
  BY DEF PushDone, Cabled
<1>2. job[w] \in Tasks /\ job[w].at = "push" /\ w # Api /\ job[w].kind # "POST"
  BY JobTyped DEF PushDone
<1> DEFINE p == job[w].peer
           next == [job EXCEPT ![w] = Idle]
           x == Task(p, "ACCESS", None, job[w].ups)
<1>3. job' = next \/ (p # None /\ job' = [next EXCEPT ![p] = x])
  BY DEF PushDone
<1>4. p # None => p \in New /\ p # Api
  BY <1>2, SwitchesAssumption DEF Tasks, Devices
<1>5. p # None => x \in Tasks /\ x.at = "read" /\ x.pair = <<>> /\ x.kind = "ACCESS"
  BY <1>2, <1>4 DEF Tasks, Task, Devices
<1>6. JobShape'
  <2>1. next \in [Workers -> Tasks \cup {Idle}]
    BY DEF JobShape
  <2>2. \A v \in Workers : next[v] = IF v = w THEN Idle ELSE job[v]
    BY DEF JobShape
  <2>3. job' \in [Workers -> Tasks \cup {Idle}]
    <3> HIDE DEF x, next
    <3> QED BY <1>3, <1>4, <1>5, <2>1 DEF Workers
  <2>4. \A v \in Workers : \/ job'[v] = Idle \/ job'[v] = job[v]
                           \/ v # Api /\ p # None /\ job'[v] = x
    <3> HIDE DEF x, next
    <3> QED BY <1>3, <1>4, <2>1, <2>2 DEF Workers
  <2> HIDE DEF x, next
  <2> QED BY <2>3, <2>4, <1>5 DEF JobShape
<1>7. /\ job[w].kind \in Fabric \cup {"ACCESS", "UNKNOWN"} /\ job[w].domain \in Domains \cup {None}
      /\ w \in Devices
  BY <1>2 DEF Tasks, Fabric, Workers, Devices
<1>8. /\ state' \in [Devices -> {"DISCOVERED", "INIT", "MANAGED", "GONE"}]
      /\ type' \in [Devices -> Fabric \cup {"ACCESS", "UNKNOWN"}]
      /\ domain' \in [Devices -> Domains \cup {None}]
  BY <1>7 DEF PushDone, DataTyped
<1> QED BY <1>1, <1>6, <1>8 DEF PushDone, DataTyped, hist

LEMMA RecableTypes ==
  ASSUME TypeInv, NEW p \in Handled, NEW q \in Handled, Recable(p, q)
  PROVE  TypeInv'
<1> USE DEF TypeInv
<1>1. p \in DOMAIN cable /\ q \notin DOMAIN cable /\ p # q
  BY DEF Recable
<1> DEFINE D == (DOMAIN cable \ {cable[p]}) \cup {q}
           c == [r \in D |-> IF r = p THEN q ELSE IF r = q THEN p ELSE cable[r]]
<1>2. cable' = c
  BY DEF Recable
<1>3. p \in D /\ q \in D /\ D \subseteq Ports
  BY <1>1, BoundsAssumption DEF Cabled
<1>4. \A r \in D \ {p, q} : cable[r] \in D \ {p, q} /\ cable[cable[r]] = r /\ cable[r] # r
  BY <1>1 DEF Cabled
<1>5. \A r \in D : /\ r \in Ports /\ c[r] \in D /\ c[c[r]] = r /\ c[r] # r
  BY <1>1, <1>3, <1>4
<1>6. Cabled'
  <2>1. DOMAIN c = D
    OBVIOUS
  <2> HIDE DEF c, D
  <2> QED BY <1>2, <1>5, <2>1 DEF Cabled
<1>7. JobShape' /\ UNCHANGED <<links, intf, state, type, domain, synced, conf, pushing, tries, missed, raced, crossed>>
  BY DEF Recable, JobShape
<1>8. moved' \subseteq New /\ events' \in 0..MaxEvents
  BY BoundsAssumption DEF Recable, Request, DataTyped
<1> QED BY <1>6, <1>7, <1>8 DEF DataTyped

LEMMA PostTypes ==
  ASSUME TypeInv, NEW p \in Handled, NEW q \in Handled, PostLink(p, q)
  PROVE  TypeInv'
<1> USE DEF TypeInv
<1>1. p \in Ports /\ q \in Ports /\ {p.dev, q.dev} \subseteq Devices
  BY BoundsAssumption, PortsAssumption
<1> DEFINE x == [Task(p.dev, "POST", None, {}) EXCEPT !.at = "choose", !.pair = <<p, q>>]
<1>2. x \in Tasks /\ x.at = "choose" /\ x.pair = <<p, q>>
  BY <1>1 DEF Task, Tasks
<1>3. job' = [job EXCEPT ![Api] = x] /\ Api \in Workers /\ <<p, q>> # <<>>
  BY DEF PostLink, Workers
<1>4. JobShape'
  <2> HIDE DEF x
  <2> QED BY <1>2, <1>3, JobUpdate
<1>5. events' \in 0..MaxEvents /\ moved' \subseteq New
  BY BoundsAssumption DEF PostLink, Request, DataTyped
<1> QED BY <1>4, <1>5 DEF PostLink, DataTyped, Cabled

LEMMA LinkRequestTypes ==
  ASSUME TypeInv, NEW l \in links,
         DeleteLink(l) \/ \E p \in Handled : PutLink(l, p)
  PROVE  TypeInv'
<1> USE DEF TypeInv
<1>1. l \in Link /\ Overtaken(Ends(l)) \subseteq Devices
  BY EndsTyped, OvertakenTyped DEF DataTyped
<1>2. CASE DeleteLink(l)
  <2>1. Cabled' /\ JobShape'
    BY <1>2 DEF DeleteLink, Cabled, JobShape
  <2>2. events' \in 0..MaxEvents
    BY <1>2, BoundsAssumption DEF DeleteLink, Request, DataTyped
  <2>3. synced' \in [Devices -> BOOLEAN] /\ missed' \subseteq Devices
    BY <1>1, <1>2, MarkTyped DEF DeleteLink, DataTyped
  <2> QED BY <1>2, <2>1, <2>2, <2>3 DEF DeleteLink, DataTyped
<1>3. ASSUME NEW p \in Handled, PutLink(l, p)
      PROVE  TypeInv'
  <2>1. Cabled' /\ JobShape'
    BY <1>3 DEF PutLink, Cabled, JobShape
  <2>2. events' \in 0..MaxEvents
    <3>1. Request
      BY <1>3 DEF PutLink
    <3> QED BY <3>1, BoundsAssumption DEF Request, DataTyped
  <2>6. moved' \subseteq New
    <3>1. moved' = moved \cup (Ends(l) \cap New)
      BY <1>3 DEF PutLink
    <3> QED BY <3>1 DEF DataTyped
  <2>3. synced' \in [Devices -> BOOLEAN] /\ missed' \subseteq Devices
    BY <1>1, <1>3, MarkTyped DEF PutLink, DataTyped
  <2>4. /\ [l EXCEPT !.a = p, !.hand = TRUE] \in Link
        /\ [l EXCEPT !.b = p, !.hand = TRUE] \in Link
    BY <1>1, BoundsAssumption DEF Link
  <2>5. links' \subseteq Link
    BY <1>3, <2>4 DEF PutLink, DataTyped
  <2> QED BY <1>3, <2>1, <2>2, <2>3, <2>5, <2>6 DEF PutLink, DataTyped
<1> QED BY <1>2, <1>3

LEMMA InterfaceTypes ==
  ASSUME TypeInv, NEW p \in Handled, NEW kind \in {"AUTO", "DOWNLINK", "SINGLE"}, PutInterface(p, kind)
  PROVE  TypeInv'
<1> USE DEF TypeInv
<1>1. Cabled' /\ JobShape'
  BY DEF PutInterface, Cabled, JobShape
<1>2. events' \in 0..MaxEvents /\ intf' \in [Ports -> Kinds]
  BY BoundsAssumption DEF PutInterface, Request, Kinds, DataTyped
<1>3. Overtaken({p.dev}) \subseteq Devices
  BY BoundsAssumption, PortsAssumption, OvertakenTyped
<1>4. synced' \in [Devices -> BOOLEAN] /\ missed' \subseteq Devices
  BY <1>3, MarkTyped DEF PutInterface, DataTyped
<1> QED BY <1>1, <1>2, <1>4 DEF PutInterface, DataTyped

LEMMA DeviceTypes ==
  ASSUME TypeInv, NEW d \in New, NEW replace \in BOOLEAN,
         StepTwo(d) \/ UpdateInterfaces(d, replace) \/ DeleteInterfaces(d) \/ DeleteDevice(d)
  PROVE  TypeInv'
<1> USE DEF TypeInv
<1>1. Cabled' /\ JobShape'
  BY DEF StepTwo, UpdateInterfaces, DeleteInterfaces, DeleteDevice, Cabled, JobShape
<1>2. d \in Devices /\ Overtaken({d}) \subseteq Devices
  BY OvertakenTyped DEF Devices
<1>3. CASE StepTwo(d)
  <2>1. synced' \in [Devices -> BOOLEAN]
    BY <1>3, MarkTyped DEF StepTwo, DataTyped
  <2> QED BY <1>1, <1>3, <2>1 DEF StepTwo, DataTyped, hist
<1>4. ASSUME UpdateInterfaces(d, replace) \/ DeleteInterfaces(d) \/ DeleteDevice(d)
      PROVE  events' \in 0..MaxEvents
  BY <1>4, BoundsAssumption DEF UpdateInterfaces, DeleteInterfaces, DeleteDevice, Request, DataTyped
<1>5. CASE UpdateInterfaces(d, replace)
  <2>1. intf' \in [Ports -> Kinds]
    BY <1>5 DEF UpdateInterfaces, Rescan, Kinds, DataTyped
  <2>2. synced' \in [Devices -> BOOLEAN] /\ missed' \subseteq Devices
    BY <1>2, <1>5, MarkTyped DEF UpdateInterfaces, DataTyped
  <2> QED BY <1>1, <1>4, <1>5, <2>1, <2>2 DEF UpdateInterfaces, DataTyped
<1>6. CASE DeleteInterfaces(d)
  <2>1. intf' \in [Ports -> Kinds]
    BY <1>6 DEF DeleteInterfaces, Kinds, DataTyped
  <2> QED BY <1>1, <1>2, <1>4, <1>6, <2>1 DEF DeleteInterfaces, DataTyped
<1>7. CASE DeleteDevice(d)
  <2> DEFINE told == UNION {Ends(l) : l \in LinksAt(d)}
  <2>1. told \subseteq Devices
    BY AllEndsTyped DEF LinksAt, DataTyped
  <2>2. Overtaken(told) \subseteq Devices
    BY <2>1, OvertakenTyped
  <2>3. Mark(told \cup {d}) /\ missed' = (missed \cup Overtaken(told)) \ {d}
    BY <1>7 DEF DeleteDevice
  <2> HIDE DEF told
  <2>4. synced' \in [Devices -> BOOLEAN] /\ missed' \subseteq Devices
    BY <2>2, <2>3, MarkTyped DEF DataTyped
  <2>5. intf' \in [Ports -> Kinds]
    BY <1>7 DEF DeleteDevice, Kinds, DataTyped
  <2>6. links' \subseteq Link /\ state' \in [Devices -> {"DISCOVERED", "INIT", "MANAGED", "GONE"}]
    BY <1>7 DEF DeleteDevice, DataTyped
  <2> QED BY <1>1, <1>4, <1>7, <2>4, <2>5, <2>6 DEF DeleteDevice, DataTyped
<1> QED BY <1>3, <1>5, <1>6, <1>7

LEMMA TypeStep == TypeInv /\ [Next]_vars => TypeInv'
<1> SUFFICES ASSUME TypeInv, [Next]_vars PROVE TypeInv'
  OBVIOUS
<1>1. ASSUME NEW d \in New, NEW peer \in New \cup {None}, AccessCheck(d, peer)
      PROVE  TypeInv'
  BY <1>1, CheckTypes DEF Fabric
<1>2. ASSUME NEW d \in New, NEW lt \in Fabric, NEW named \in Named, FabricCheck(d, lt, named)
      PROVE  TypeInv'
  BY <1>2, CheckTypes
<1>3. ASSUME NEW w \in Workers, StepOne(w)
      PROVE  TypeInv'
  BY <1>3, LinkTypes, AddTypes, EndTypes, DoneTypes DEF StepOne
<1>4. ASSUME NEW d \in Syncing, SyncRender(d) \/ SyncEnd(d)
      PROVE  TypeInv'
  BY <1>4, SyncTypes, BoundsAssumption
<1>5. ASSUME NEW p \in Handled, NEW q \in Handled, Recable(p, q)
      PROVE  TypeInv'
  BY <1>5, RecableTypes
<1>6. ASSUME NEW p \in Handled, NEW q \in Handled, PostLink(p, q)
      PROVE  TypeInv'
  BY <1>6, PostTypes
<1>7. ASSUME NEW l \in links, DeleteLink(l) \/ \E p \in Handled : PutLink(l, p)
      PROVE  TypeInv'
  BY <1>7, LinkRequestTypes
<1>8. ASSUME NEW p \in Handled, NEW kind \in {"AUTO", "DOWNLINK", "SINGLE"}, PutInterface(p, kind)
      PROVE  TypeInv'
  BY <1>8, InterfaceTypes
<1>9. ASSUME NEW d \in New, StepTwo(d) \/ (\E replace \in BOOLEAN : UpdateInterfaces(d, replace))
                             \/ DeleteInterfaces(d) \/ DeleteDevice(d)
      PROVE  TypeInv'
  BY <1>9, DeviceTypes
<1>10. CASE UNCHANGED vars
  BY <1>10 DEF vars, hist, TypeInv, DataTyped, JobShape, Cabled
<1> QED BY <1>1, <1>2, <1>3, <1>4, <1>5, <1>6, <1>7, <1>8, <1>9, <1>10 DEF Next, Operator

\* Every variable keeps its type, and the cabling stays symmetric (all handlers).
THEOREM TypeCorrect == Spec => []TypeOK
<1>1. Init => TypeInv
  BY TypeInit
<1>2. TypeInv /\ [Next]_vars => TypeInv'
  BY TypeStep
<1>3. TypeInv => TypeOK
  BY TypeInvImplies
<1> QED BY <1>1, <1>2, <1>3, PTL DEF Spec

(***************************************************************************)
(* Networks and ports are used once.                                       *)
(***************************************************************************)
Linking(w) == At(w, "choose") \/ At(w, "add")
PairOf(w) == {job[w].pair[1], job[w].pair[2]}

\* A network that is chosen and not stored yet is used and chosen nowhere else.
NetHeld ==
  \A w \in Workers : (At(w, "add") /\ job[w].net # 0 /\ job[w].net \notin raced) =>
    /\ \A l \in links : l.net # job[w].net
    /\ \A v \in Workers \ {w} : At(v, "add") => job[v].net # job[w].net

\* A port that initialisation has looked up is the end of no link but one given by
\* hand, and no other initialisation has looked it up.
PortHeld ==
  \A w \in New : Linking(w) => \A p \in PairOf(w) \ crossed :
    /\ \A l \in links : p \in {l.a, l.b} => l.hand
    /\ \A v \in New \ {w} : Linking(v) => p \notin PairOf(v)

LinkInv == NetOnce /\ NetHeld /\ PortOnce /\ PortHeld

\* A step that makes no link, looks up none and chooses no network.
Quiet ==
  /\ links' \subseteq links
  /\ raced \subseteq raced' /\ crossed \subseteq crossed'
  /\ \A w \in Workers : At(w, "add")' => At(w, "add") /\ job'[w].net = job[w].net
  /\ \A w \in New : Linking(w)' => Linking(w) /\ job'[w].pair = job[w].pair

LEMMA QuietSteps ==
  ASSUME LinkInv, Quiet
  PROVE  LinkInv'
<1>1. NetOnce'
  BY DEF LinkInv, Quiet, NetOnce
<1>2. PortOnce'
  BY DEF LinkInv, Quiet, PortOnce
<1>3. NetHeld'
  BY DEF LinkInv, Quiet, NetHeld
<1>4. PortHeld'
  BY DEF LinkInv, Quiet, PortHeld, PairOf
<1> QED BY <1>1, <1>2, <1>3, <1>4 DEF LinkInv

\* Who does nothing about links.
LEMMA IdleIsQuiet ==
  ASSUME JobShape, links' \subseteq links, UNCHANGED <<raced, crossed>>,
         NEW w \in Workers, NEW x, job' = [job EXCEPT ![w] = x],
         x = Idle \/ x.at \notin {"choose", "add"} \/ (w = Api /\ x.at = "choose")
  PROVE  Quiet
<1>1. \A v \in Workers : job'[v] = IF v = w THEN x ELSE job[v]
  BY DEF JobShape
<1>2. New \subseteq Workers /\ Api \notin New
  BY SwitchesAssumption DEF Workers, Devices
<1> QED BY <1>1, <1>2 DEF Quiet, Linking, At

LEMMA SameIsQuiet ==
  ASSUME links' \subseteq links, UNCHANGED <<raced, crossed, job>>
  PROVE  Quiet
BY DEF Quiet, Linking, At

LEMMA FailIsQuiet ==
  ASSUME JobShape, links' \subseteq links, UNCHANGED <<raced, crossed>>,
         NEW w \in Workers, Fail(w)
  PROVE  Quiet
BY IdleIsQuiet DEF Fail

\* What a job does besides making links.
LEMMA QuietJobs ==
  ASSUME TypeInv, NEW w \in Workers,
         ReadNeighbours(w) \/ LinksDone(w) \/ ChooseDomain(w) \/ StepOneFails(w) \/ PushRollback(w)
  PROVE  Quiet
<1> USE DEF TypeInv
<1>1. links' \subseteq links /\ UNCHANGED <<raced, crossed>>
  BY DEF ReadNeighbours, LinksDone, ChooseDomain, StepOneFails, PushRollback, hist
<1>2. CASE ReadNeighbours(w)
  <2> DEFINE x == [job[w] EXCEPT !.at = "links",
                     !.todo = Neighbours(job[w].who, IF job[w].who = w THEN job[w].peer ELSE None)]
  <2>1. job' = [job EXCEPT ![w] = x]
    BY <1>2 DEF ReadNeighbours
  <2>2. x.at = "links"
    BY <1>2, JobTyped DEF ReadNeighbours, Tasks
  <2> HIDE DEF x
  <2> QED BY <1>1, <2>1, <2>2, IdleIsQuiet
<1>3. CASE LinksDone(w)
  <2>1. job[w] \in Tasks
    BY <1>3, JobTyped DEF LinksDone
  <2> DEFINE x == [job[w] EXCEPT !.who = job[w].peer, !.at = "read"]
             y == [job[w] EXCEPT !.at = IF job[w].kind = "ACCESS" THEN "domain" ELSE "push"]
  <2>2. job' = [job EXCEPT ![w] = y] \/ job' = [job EXCEPT ![w] = x]
    BY <1>3 DEF LinksDone, Go
  <2>3. x.at = "read" /\ y.at \in {"domain", "push"}
    BY <2>1 DEF Tasks
  <2> HIDE DEF x, y
  <2> QED BY <1>1, <2>2, <2>3, IdleIsQuiet
<1>4. CASE ChooseDomain(w)
  <2>1. job[w] \in Tasks
    BY <1>4, JobTyped DEF ChooseDomain
  <2> DEFINE x(m) == [job[w] EXCEPT !.at = "push", !.domain = m]
  <2>2. Fail(w) \/ \E m : job' = [job EXCEPT ![w] = x(m)]
    BY <1>4 DEF ChooseDomain
  <2>3. \A m : x(m).at = "push"
    BY <2>1 DEF Tasks
  <2> HIDE DEF x
  <2> QED BY <1>1, <2>2, <2>3, IdleIsQuiet, FailIsQuiet
<1>5. CASE StepOneFails(w) \/ PushRollback(w)
  BY <1>1, <1>5, FailIsQuiet DEF StepOneFails, PushRollback
<1> QED BY <1>2, <1>3, <1>4, <1>5

LEMMA QuietDone ==
  ASSUME TypeInv, NEW w \in Workers, PushDone(w)
  PROVE  Quiet
<1> DEFINE p == job[w].peer
           next == [job EXCEPT ![w] = Idle]
           x == Task(p, "ACCESS", None, job[w].ups)
<1>1. job' = next \/ (p # None /\ job' = [next EXCEPT ![p] = x])
  BY DEF PushDone
<1>2. p # None => p \in Workers
  BY JobTyped DEF TypeInv, PushDone, Tasks, Workers
<1>3. x.at = "read"
  BY DEF Task
<1>4. next \in [Workers -> Tasks \cup {Idle}] /\ \A v \in Workers : next[v] = IF v = w THEN Idle ELSE job[v]
  BY DEF TypeInv, JobShape
<1>5. \A v \in Workers : job'[v] = Idle \/ job'[v] = job[v] \/ job'[v].at = "read"
  <2> HIDE DEF x, next, p
  <2> QED BY <1>1, <1>2, <1>3, <1>4
<1>6. links' = links /\ UNCHANGED <<raced, crossed>> /\ New \subseteq Workers
  BY DEF PushDone, hist, Workers
<1> QED BY <1>5, <1>6 DEF Quiet, Linking, At

\* The checks, and what operators do with a switch.
LEMMA QuietOthers ==
  ASSUME TypeInv, NEW d \in New, NEW peer, NEW lt, NEW named, NEW replace,
         \/ AccessCheck(d, peer) \/ FabricCheck(d, lt, named) \/ StepTwo(d)
         \/ UpdateInterfaces(d, replace) \/ DeleteInterfaces(d) \/ DeleteDevice(d)
  PROVE  Quiet
<1>1. links' \subseteq links /\ UNCHANGED <<raced, crossed>>
  BY DEF AccessCheck, FabricCheck, StepTwo, UpdateInterfaces, DeleteInterfaces, DeleteDevice, hist
<1>2. d \in Workers
  BY DEF Workers
<1>3. CASE UNCHANGED job
  BY <1>1, <1>3, SameIsQuiet
<1>4. ASSUME NEW k, NEW m, NEW ups, job' = [job EXCEPT ![d] = Task(d, k, m, ups)]
      PROVE  Quiet
  <2>1. Task(d, k, m, ups).at = "read"
    BY DEF Task
  <2> QED BY <1>1, <1>2, <1>4, <2>1, IdleIsQuiet DEF TypeInv
<1>5. CASE AccessCheck(d, peer)
  BY <1>3, <1>4, <1>5 DEF AccessCheck, Begin
<1>6. CASE FabricCheck(d, lt, named)
  BY <1>3, <1>4, <1>6 DEF FabricCheck, Begin
<1> QED BY <1>3, <1>5, <1>6 DEF StepTwo, UpdateInterfaces, DeleteInterfaces, DeleteDevice

LEMMA SyncIsQuiet ==
  ASSUME NEW d \in Devices, SyncRender(d) \/ SyncEnd(d)
  PROVE  Quiet
BY SameIsQuiet DEF SyncRender, SyncEnd, hist

\* What operators do with cables, links and interfaces, but for changing a link.
LEMMA RequestIsQuiet ==
  ASSUME TypeInv, NEW p, NEW q, NEW l, NEW kind,
         Recable(p, q) \/ PostLink(p, q) \/ DeleteLink(l) \/ PutInterface(p, kind)
  PROVE  Quiet
<1>1. links' \subseteq links /\ UNCHANGED <<raced, crossed>>
  BY DEF Recable, PostLink, DeleteLink, PutInterface
<1>2. CASE UNCHANGED job
  BY <1>1, <1>2, SameIsQuiet
<1>3. CASE PostLink(p, q)
  <2> DEFINE x == [Task(p.dev, "POST", None, {}) EXCEPT !.at = "choose", !.pair = <<p, q>>]
  <2>1. x.at = "choose"
    BY DEF Task
  <2>2. job' = [job EXCEPT ![Api] = x] /\ Api \in Workers
    BY <1>3 DEF PostLink, Workers
  <2> HIDE DEF x
  <2> QED BY <1>1, <2>1, <2>2, IdleIsQuiet DEF TypeInv
<1> QED BY <1>2, <1>3 DEF Recable, DeleteLink, PutInterface

\* update_linknets: every other link on either port is gone.
LEMMA LookupKeeps ==
  ASSUME TypeInv, LinkInv, NEW w \in Workers, LinkLookup(w)
  PROVE  LinkInv'
<1> USE DEF TypeInv
<1>1. PICK n \in job[w].todo :
        LET old == LookedUp(n[1], n[2])
            same == \E l \in old : l.a = n[1] /\ l.b = n[2]
        IN  IF ~Compatible(job[w].kind, n[1], type[n[2].dev], n[2]) \/ Cardinality(old) > 1
            THEN Fail(w) /\ UNCHANGED <<links, missed, crossed>>
            ELSE /\ job' = [job EXCEPT ![w].todo = @ \ {n},
                                       ![w].at = IF same THEN "links" ELSE "choose",
                                       ![w].pair = IF same THEN <<>> ELSE n]
                 /\ links' = IF same THEN links ELSE links \ old
                 /\ crossed' = IF same THEN crossed ELSE crossed \cup ({n[1], n[2]} \cap Making(w))
                 /\ missed' = IF same THEN missed ELSE missed \cup UNION {Ends(l) : l \in old}
  BY DEF LinkLookup
<1>2. UNCHANGED raced /\ job[w] \in Tasks /\ job[w].at = "links" /\ New \subseteq Workers
  BY JobTyped DEF LinkLookup, Workers
<1> DEFINE old == LookedUp(n[1], n[2])
           x == [job[w] EXCEPT !.todo = @ \ {n}, !.at = "links", !.pair = <<>>]
           y == [job[w] EXCEPT !.todo = @ \ {n}, !.at = "choose", !.pair = n]
<1>3. \/ Fail(w) /\ UNCHANGED <<links, crossed>>
      \/ job' = [job EXCEPT ![w] = x] /\ UNCHANGED <<links, crossed>>
      \/ /\ job' = [job EXCEPT ![w] = y]
         /\ links' = links \ old /\ crossed' = crossed \cup ({n[1], n[2]} \cap Making(w))
  BY <1>1
<1>4. x.at = "links" /\ y.at = "choose" /\ y.pair = n
  BY <1>2 DEF Tasks
<1> HIDE DEF x, y, old
<1>5. CASE Fail(w) /\ UNCHANGED <<links, crossed>>
  BY <1>2, <1>5, FailIsQuiet, QuietSteps
<1>6. CASE job' = [job EXCEPT ![w] = x] /\ UNCHANGED <<links, crossed>>
  BY <1>2, <1>4, <1>6, IdleIsQuiet, QuietSteps
<1>7. CASE /\ job' = [job EXCEPT ![w] = y]
           /\ links' = links \ old /\ crossed' = crossed \cup ({n[1], n[2]} \cap Making(w))
  <2>1. \A v \in Workers : job'[v] = IF v = w THEN y ELSE job[v]
    BY <1>7 DEF JobShape
  <2>2. ~At(w, "add")' /\ PairOf(w)' = {n[1], n[2]}
    BY <2>1, <1>4 DEF At, PairOf
  <2>3. \A v \in Workers \ {w} : /\ At(v, "add")' <=> At(v, "add")
                                 /\ Linking(v)' <=> Linking(v)
                                 /\ PairOf(v)' = PairOf(v) /\ job'[v].net = job[v].net
    BY <2>1 DEF At, Linking, PairOf
  <2>4. NetOnce' /\ PortOnce'
    BY <1>2, <1>7 DEF LinkInv, NetOnce, PortOnce
  <2>5. NetHeld'
    BY <1>2, <1>7, <2>2, <2>3 DEF LinkInv, NetHeld
  <2>6. \A l \in links' : n[1] \notin {l.a, l.b} /\ n[2] \notin {l.a, l.b}
    BY <1>7 DEF old, LookedUp
  <2>7. \A v \in Workers \ {w} : Linking(v) => PairOf(v) \subseteq Making(w)
    BY DEF Making, Linking, PairOf
  <2>8. PortHeld'
    <3> SUFFICES ASSUME NEW v \in New, Linking(v)', NEW p \in PairOf(v)', p \notin crossed'
                 PROVE  /\ \A l \in links' : p \in {l.a, l.b} => l.hand
                        /\ \A u \in New \ {v} : Linking(u)' => p \notin PairOf(u)'
      BY DEF PortHeld
    <3>1. CASE v = w
      BY <3>1, <1>2, <1>7, <2>2, <2>3, <2>6, <2>7
    <3>2. CASE v # w
      <4>1. Linking(v) /\ p \in PairOf(v) /\ p \notin crossed
        BY <3>2, <1>2, <1>7, <2>3
      <4>2. p \notin PairOf(w)'
        BY <3>2, <4>1, <1>2, <1>7, <2>2, <2>7
      <4>3. \A l \in links' : p \in {l.a, l.b} => l.hand
        BY <4>1, <1>7 DEF LinkInv, PortHeld
      <4>4. \A u \in New \ {v} : Linking(u)' => p \notin PairOf(u)'
        BY <4>1, <4>2, <1>2, <2>3 DEF LinkInv, PortHeld
      <4> QED BY <4>3, <4>4
    <3> QED BY <3>1, <3>2
  <2> QED BY <2>4, <2>5, <2>8 DEF LinkInv
<1> QED BY <1>3, <1>5, <1>6, <1>7

\* find_free_infra_linknet: no link has the network that is chosen.
LEMMA ChooseKeeps ==
  ASSUME TypeInv, LinkInv, NEW w \in Workers, LinkChoose(w)
  PROVE  LinkInv'
<1> USE DEF TypeInv
<1> DEFINE x(net) == [job[w] EXCEPT !.at = "add", !.net = net]
<1>1. PICK net \in FreeNets \cup {0} :
        /\ Fail(w) \/ job' = [job EXCEPT ![w] = x(net)]
        /\ raced' = raced \cup {m \in {net} \ {0} : \E v \in Workers \ {w} : At(v, "add") /\ job[v].net = m}
  <2> DEFINE fabric == \A p \in {job[w].pair[1], job[w].pair[2]} : TypeOf(w, p.dev) \in Fabric
  <2>1. PICK net \in IF ~fabric THEN {0}
                     ELSE IF FreeNets = {} THEN {0}
                     ELSE {m \in FreeNets : \A k \in FreeNets : m <= k} :
          /\ IF w = Api /\ fabric /\ net = 0
             THEN Fail(w)
             ELSE job' = [job EXCEPT ![w].at = "add", ![w].net = net]
          /\ raced' = raced \cup {m \in {net} \ {0} : \E v \in Workers \ {w} : At(v, "add") /\ job[v].net = m}
    BY DEF LinkChoose
  <2> HIDE DEF fabric
  <2>2. net \in FreeNets \cup {0}
    BY <2>1
  <2>3. [job EXCEPT ![w].at = "add", ![w].net = net] = [job EXCEPT ![w] = x(net)]
    OBVIOUS
  <2>4. Fail(w) \/ job' = [job EXCEPT ![w] = x(net)]
    BY <2>1, <2>3
  <2> HIDE DEF x
  <2>5. QED BY <2>1, <2>2, <2>4
<1>2. UNCHANGED <<links, crossed>> /\ job[w] \in Tasks /\ At(w, "choose") /\ New \subseteq Workers
  BY JobTyped DEF LinkChoose, Workers
<1>3. x(net).at = "add" /\ x(net).net = net /\ x(net).pair = job[w].pair
  BY <1>2 DEF Tasks
<1>4. net # 0 => \A l \in links : l.net # net
  BY <1>1 DEF FreeNets, Used
<1> HIDE DEF x
<1>5. \A v \in Workers : job'[v] = job[v] \/ (v = w /\ (job'[v] = Idle \/ job'[v] = x(net)))
  BY <1>1 DEF JobShape, Fail
<1>6. \A v \in Workers : v # w => job'[v] = job[v]
  BY <1>5
<1>7. NetOnce' /\ PortOnce'
  BY <1>1, <1>2 DEF LinkInv, NetOnce, PortOnce
<1>8. PortHeld'
  <2>1. \A v \in New : Linking(v)' => Linking(v) /\ PairOf(v)' = PairOf(v)
    BY <1>2, <1>3, <1>5 DEF Linking, At, PairOf
  <2> QED BY <1>2, <2>1 DEF LinkInv, PortHeld
<1>9. NetHeld'
  <2> SUFFICES ASSUME NEW v \in Workers, At(v, "add")', job'[v].net # 0, job'[v].net \notin raced'
               PROVE  /\ \A l \in links' : l.net # job'[v].net
                      /\ \A u \in Workers \ {v} : At(u, "add")' => job'[u].net # job'[v].net
    BY DEF NetHeld
  <2>1. ~At(w, "add")
    BY <1>2 DEF At
  <2>2. At(w, "add")' => job'[w].net = net
    BY <1>3, <1>5, <2>1 DEF At
  <2>3. \A u \in Workers \ {w} : At(u, "add")' <=> At(u, "add")
    BY <1>6 DEF At
  <2>4. \A u \in Workers \ {w} : At(u, "add") /\ job[u].net = net => net = 0 \/ net \in raced'
    BY <1>1
  <2>5. CASE v = w
    BY <2>5, <1>2, <1>4, <1>6, <2>2, <2>3, <2>4
  <2>6. CASE v # w
    <3>1. At(v, "add") /\ job[v].net = job'[v].net /\ job[v].net \notin raced
      BY <2>6, <1>1, <1>6, <2>3
    <3>2. \A l \in links' : l.net # job'[v].net
      BY <3>1, <1>2 DEF LinkInv, NetHeld
    <3>3. At(w, "add")' => job'[w].net # job'[v].net
      BY <2>6, <3>1, <2>2, <2>4
    <3>4. \A u \in Workers \ {v, w} : At(u, "add")' => job'[u].net # job'[v].net
      BY <3>1, <1>6, <2>3 DEF LinkInv, NetHeld
    <3> QED BY <3>2, <3>3, <3>4
  <2> QED BY <2>5, <2>6
<1> QED BY <1>7, <1>8, <1>9 DEF LinkInv

\* The link that is stored has the ports and the network that its job held.
LEMMA AddKeeps ==
  ASSUME TypeInv, LinkInv, NEW w \in Workers, LinkAdd(w)
  PROVE  LinkInv'
<1> USE DEF TypeInv
<1> DEFINE l == [a |-> job[w].pair[1], b |-> job[w].pair[2], net |-> job[w].net, hand |-> w = Api]
           x == [job[w] EXCEPT !.at = "links", !.pair = <<>>, !.net = 0]
<1>1. \/ Fail(w) /\ UNCHANGED links
      \/ links' = links \cup {l} /\ (job' = [job EXCEPT ![w] = x] \/ job' = [job EXCEPT ![w] = Idle])
  BY DEF LinkAdd, Fail
<1>2. UNCHANGED <<raced, crossed>> /\ job[w] \in Tasks /\ At(w, "add") /\ New \subseteq Workers
  BY JobTyped DEF LinkAdd, Workers
<1>3. x.at = "links"
  BY <1>2 DEF Tasks
<1>4. {l.a, l.b} = PairOf(w) /\ l.net = job[w].net /\ (l.hand <=> w = Api)
  BY DEF PairOf
<1>5. w # Api => w \in New
  BY DEF Workers
<1> HIDE DEF x, l
<1>6. CASE Fail(w) /\ UNCHANGED links
  BY <1>2, <1>6, FailIsQuiet, QuietSteps
<1>7. CASE links' = links \cup {l} /\ (job' = [job EXCEPT ![w] = x] \/ job' = [job EXCEPT ![w] = Idle])
  <2>1. \A v \in Workers : IF v = w THEN job'[v] \in {x, Idle} ELSE job'[v] = job[v]
    BY <1>7 DEF JobShape
  <2>2. ~Linking(w)' /\ ~At(w, "add")'
    BY <2>1, <1>3 DEF Linking, At
  <2>3. \A v \in Workers \ {w} : /\ At(v, "add")' <=> At(v, "add")
                                 /\ Linking(v)' <=> Linking(v)
                                 /\ PairOf(v)' = PairOf(v) /\ job'[v].net = job[v].net
    BY <2>1 DEF At, Linking, PairOf
  <2>4. \A k \in links : l.net # 0 /\ k.net = l.net => l.net \in raced
    BY <1>2, <1>4 DEF LinkInv, NetHeld
  <2>5. NetOnce'
    <3>1. \A k, m \in links : (k # m /\ k.net = m.net /\ k.net # 0) => k.net \in raced
      BY DEF LinkInv, NetOnce
    <3>2. \A k \in links : (k.net = l.net /\ k.net # 0) => k.net \in raced
      BY <2>4
    <3> QED BY <1>2, <1>7, <3>1, <3>2 DEF NetOnce
  <2>6. NetHeld'
    <3> SUFFICES ASSUME NEW v \in Workers, At(v, "add")', job'[v].net # 0, job'[v].net \notin raced'
                 PROVE  /\ \A k \in links' : k.net # job'[v].net
                        /\ \A u \in Workers \ {v} : At(u, "add")' => job'[u].net # job'[v].net
      BY DEF NetHeld
    <3>1. v # w /\ At(v, "add") /\ job'[v].net = job[v].net
      BY <2>2, <2>3
    <3>2. /\ \A k \in links : k.net # job[v].net
          /\ \A u \in Workers \ {v} : At(u, "add") => job[u].net # job[v].net
      BY <1>2, <3>1 DEF LinkInv, NetHeld
    <3>3. l.net # job[v].net
      BY <1>2, <1>4, <3>1, <3>2
    <3> QED BY <1>7, <2>2, <2>3, <3>1, <3>2, <3>3
  <2>7. \A k \in links, p \in PairOf(w) \ crossed : p \in {k.a, k.b} => k.hand \/ l.hand
    BY <1>2, <1>4, <1>5 DEF LinkInv, PortHeld, Linking
  <2>8. PortOnce'
    <3>1. \A k, m \in links : k # m => \A p \in {k.a, k.b} \cap {m.a, m.b} : k.hand \/ m.hand \/ p \in crossed
      BY DEF LinkInv, PortOnce
    <3>2. \A k \in links : \A p \in {k.a, k.b} \cap {l.a, l.b} : k.hand \/ l.hand \/ p \in crossed
      BY <1>4, <2>7
    <3> QED BY <1>2, <1>7, <3>1, <3>2 DEF PortOnce
  <2>9. PortHeld'
    <3> SUFFICES ASSUME NEW v \in New, Linking(v)', NEW p \in PairOf(v)', p \notin crossed'
                 PROVE  /\ \A k \in links' : p \in {k.a, k.b} => k.hand
                        /\ \A u \in New \ {v} : Linking(u)' => p \notin PairOf(u)'
      BY DEF PortHeld
    <3>1. v # w /\ Linking(v) /\ p \in PairOf(v) /\ p \notin crossed
      BY <1>2, <2>2, <2>3
    <3>2. /\ \A k \in links : p \in {k.a, k.b} => k.hand
          /\ \A u \in New \ {v} : Linking(u) => p \notin PairOf(u)
      BY <3>1 DEF LinkInv, PortHeld
    <3>3. p \in {l.a, l.b} => l.hand
      BY <1>2, <1>4, <1>5, <3>1, <3>2 DEF Linking
    <3> QED BY <1>2, <1>7, <2>2, <2>3, <3>1, <3>2, <3>3
  <2> QED BY <2>5, <2>6, <2>8, <2>9 DEF LinkInv
<1> QED BY <1>1, <1>6, <1>7

\* A link that is changed by hand keeps its network, and counts as given by hand.
LEMMA PutKeeps ==
  ASSUME TypeInv, LinkInv, NEW l \in links, NEW p, PutLink(l, p)
  PROVE  LinkInv'
<1>1. PICK new \in {[l EXCEPT !.a = p, !.hand = TRUE], [l EXCEPT !.b = p, !.hand = TRUE]} :
        links' = (links \ {l}) \cup {new}
  BY DEF PutLink
<1>2. UNCHANGED <<job, raced, crossed>>
  BY DEF PutLink
<1>3. new.net = l.net /\ new.hand
  BY <1>1 DEF TypeInv, DataTyped, Link
<1>4. NetOnce'
  BY <1>1, <1>2, <1>3 DEF LinkInv, NetOnce
<1>5. PortOnce'
  BY <1>1, <1>2, <1>3 DEF LinkInv, PortOnce
<1>6. NetHeld'
  BY <1>1, <1>2, <1>3 DEF LinkInv, NetHeld, At
<1>7. PortHeld'
  BY <1>1, <1>2, <1>3 DEF LinkInv, PortHeld, At, Linking, PairOf
<1> QED BY <1>4, <1>5, <1>6, <1>7 DEF LinkInv

LEMMA LinkStep == TypeInv /\ LinkInv /\ [Next]_vars => LinkInv'
<1> SUFFICES ASSUME TypeInv, LinkInv, [Next]_vars PROVE LinkInv'
  OBVIOUS
<1>1. Syncing \subseteq Devices
  BY BoundsAssumption
<1>2. ASSUME NEW d \in New, \/ \E peer \in New \cup {None} : AccessCheck(d, peer)
                             \/ \E lt \in Fabric, named \in Named : FabricCheck(d, lt, named)
                             \/ StepTwo(d) \/ \E replace \in BOOLEAN : UpdateInterfaces(d, replace)
                             \/ DeleteInterfaces(d) \/ DeleteDevice(d)
      PROVE  Quiet
  BY <1>2, QuietOthers DEF Devices
<1>3. ASSUME NEW d \in Devices, SyncRender(d) \/ SyncEnd(d)
      PROVE  Quiet
  BY <1>3, SyncIsQuiet
<1>4. ASSUME NEW w \in Workers, StepOne(w)
      PROVE  LinkInv'
  <2>1. CASE LinkLookup(w) \/ LinkChoose(w) \/ LinkAdd(w)
    BY <2>1, LookupKeeps, ChooseKeeps, AddKeeps
  <2>2. CASE ReadNeighbours(w) \/ LinksDone(w) \/ ChooseDomain(w) \/ StepOneFails(w) \/ PushRollback(w)
             \/ PushDone(w)
    BY <2>2, QuietJobs, QuietDone, QuietSteps
  <2> QED BY <1>4, <2>1, <2>2 DEF StepOne
<1>5. ASSUME NEW p \in Handled, NEW q \in Handled, Recable(p, q) \/ PostLink(p, q)
      PROVE  Quiet
  BY <1>5, RequestIsQuiet
<1>6. ASSUME NEW l \in links, DeleteLink(l)
      PROVE  Quiet
  BY <1>6, RequestIsQuiet
<1>7. ASSUME NEW p \in Handled, NEW kind, PutInterface(p, kind)
      PROVE  Quiet
  BY <1>7, RequestIsQuiet
<1>8. ASSUME NEW l \in links, NEW p \in Handled, PutLink(l, p)
      PROVE  LinkInv'
  BY <1>8, PutKeeps
<1>9. CASE UNCHANGED vars
  BY <1>9, SameIsQuiet, QuietSteps DEF vars, hist
<1>10. CASE Operator
  <2>1. CASE \E p, q \in Handled : Recable(p, q) \/ PostLink(p, q)
    BY <1>5, <2>1, QuietSteps
  <2>2. CASE \E l \in links : DeleteLink(l) \/ \E p \in Handled : PutLink(l, p)
    BY <1>6, <1>8, <2>2, QuietSteps
  <2>3. CASE \E p \in Handled, kind \in {"AUTO", "DOWNLINK", "SINGLE"} : PutInterface(p, kind)
    BY <1>7, <2>3, QuietSteps
  <2>4. CASE \E d \in New : \/ \E replace \in BOOLEAN : UpdateInterfaces(d, replace)
                             \/ DeleteInterfaces(d) \/ DeleteDevice(d)
    <3>1. PICK d \in New : \/ \E replace \in BOOLEAN : UpdateInterfaces(d, replace)
                           \/ DeleteInterfaces(d) \/ DeleteDevice(d)
      BY <2>4
    <3>2. Quiet
      BY <3>1, QuietOthers
    <3> QED BY <3>2, QuietSteps
  <2> QED BY <1>10, <2>1, <2>2, <2>3, <2>4 DEF Operator
<1> QED BY <1>1, <1>2, <1>3, <1>4, <1>9, <1>10, QuietSteps DEF Next

LEMMA LinkInit == Init => LinkInv
<1> SUFFICES ASSUME Init PROVE LinkInv
  OBVIOUS
<1>1. links = {} /\ \A w \in Workers : job[w] = Idle
  BY DEF Init
<1>2. New \subseteq Workers
  BY DEF Workers
<1> QED BY <1>1, <1>2 DEF LinkInv, NetOnce, NetHeld, PortOnce, PortHeld, Linking, At

LEMMA LinkAlways == Spec => [](TypeInv /\ LinkInv)
<1>1. Init => TypeInv /\ LinkInv
  BY TypeInit, LinkInit
<1>2. (TypeInv /\ LinkInv) /\ [Next]_vars => (TypeInv /\ LinkInv)'
  BY TypeStep, LinkStep
<1> QED BY <1>1, <1>2, PTL DEF Spec

\* Two links share a network only if it was chosen for both before either was
\* stored (find_free_infra_linknet, Linknet.create_linknet).
THEOREM NetworksOnce == Spec => []NetOnce
<1>1. TypeInv /\ LinkInv => NetOnce
  BY DEF LinkInv
<1> QED BY <1>1, LinkAlways, PTL

\* A port is the end of one link, but for links given by hand or made at the same
\* time (update_linknets).
THEOREM PortsOnce == Spec => []PortOnce
<1>1. TypeInv /\ LinkInv => PortOnce
  BY DEF LinkInv
<1> QED BY <1>1, LinkAlways, PTL

(***************************************************************************)
(* What a synchronized switch runs.                                        *)
(***************************************************************************)
\* A running sync is of a managed switch and has read what is wanted now, unless
\* nobody was told of a change or the flag was cleared since.
SyncHolds ==
  \A d \in Devices : pushing[d] # None =>
    /\ state[d] = "MANAGED" /\ ~synced[d]
    /\ d \notin missed => pushing[d] = Wanted(d)

\* Only switches that are not managed yet are initialised.
InitsDiscovered == \A w \in New : job[w] # Idle => state[w] = "DISCOVERED"

SyncInv == SyncedIsGenerated /\ SyncHolds /\ InitsDiscovered

LEMMA SyncInit == Init => SyncInv
<1> SUFFICES ASSUME Init PROVE SyncInv
  OBVIOUS
<1>1. \A d \in Devices : Wanted(d) = {} /\ conf[d] = {} /\ pushing[d] = None
  BY DEF Init, Wanted, LinksAt, PortsOf
<1>2. \A w \in New : job[w] = Idle
  BY DEF Init, Workers
<1> QED BY <1>1, <1>2 DEF SyncInv, SyncedIsGenerated, SyncHolds, InitsDiscovered

LEMMA WantedSame ==
  ASSUME NEW d, \A p \in PortsOf(d) : intf'[p] = intf[p],
         \A l : d \in Ends(l) => (l \in links <=> l \in links')
  PROVE  Wanted(d)' = Wanted(d)
<1>1. LinksAt(d)' = LinksAt(d)
  BY DEF LinksAt
<1>2. PortsOf(d)' = PortsOf(d)
  BY DEF PortsOf
<1>3. {q \in PortsOf(d) : intf[q] # "none"}' = {q \in PortsOf(d) : intf[q] # "none"}
  BY <1>2
<1>4. {View(l, d) : l \in LinksAt(d)}' = {View(l, d) : l \in LinksAt(d)}
  BY <1>1 DEF View
<1> QED BY <1>3, <1>4 DEF Wanted, PortsOf

\* Whether a switch is told of what changes for it, or nothing does.
Settled(d) ==
  \/ ~synced'[d] /\ (pushing[d] # None => d \in missed')
  \/ d \in missed'
  \/ state'[d] # "MANAGED" /\ pushing[d] = None
  \/ Wanted(d)' = Wanted(d) /\ (d \in missed => d \in missed')

LEMMA SettledSteps ==
  ASSUME SyncInv, UNCHANGED <<conf, pushing>>,
         \A d \in Devices : /\ Settled(d)
                            /\ synced'[d] => synced[d]
                            /\ state'[d] = "MANAGED" => state[d] = "MANAGED" \/ ~synced'[d]
                            /\ pushing[d] # None => state'[d] = "MANAGED"
  PROVE  SyncedIsGenerated' /\ SyncHolds'
<1>1. SyncedIsGenerated'
  BY DEF SyncInv, SyncedIsGenerated, SyncHolds, Settled
<1>2. SyncHolds'
  BY DEF SyncInv, SyncHolds, Settled
<1> QED BY <1>1, <1>2

\* Who is told has its flag cleared, and an overtaken sync is noted.
LEMMA MarkSettles ==
  ASSUME NEW ds, Mark(ds), \A d \in ds \cap Devices : pushing[d] # None => d \in missed'
  PROVE  /\ \A d \in ds \cap Devices : Settled(d)
         /\ \A d \in Devices : synced'[d] => synced[d]
         /\ \A d \in ds \cap Devices : ~synced'[d]
BY DEF Mark, Settled

\* Steps of a sync.
LEMMA SyncKeeps ==
  ASSUME TypeInv, SyncInv, NEW d \in Devices, SyncRender(d) \/ SyncEnd(d)
  PROVE  SyncInv'
<1> USE DEF TypeInv, DataTyped
<1>1. InitsDiscovered'
  BY DEF SyncInv, InitsDiscovered, SyncRender, SyncEnd
<1>2. \A e \in Devices : Wanted(e)' = Wanted(e)
  BY WantedSame DEF SyncRender, SyncEnd
<1>3. CASE SyncRender(d)
  <2>1. \A e \in Devices : pushing'[e] = IF e = d THEN Wanted(d) ELSE pushing[e]
    BY <1>3 DEF SyncRender
  <2>2. /\ ~synced[d] /\ state[d] = "MANAGED" /\ missed' = missed \ {d}
        /\ UNCHANGED <<synced, state, conf>>
    BY <1>3 DEF SyncRender
  <2>3. SyncedIsGenerated'
    BY <1>2, <2>2 DEF SyncInv, SyncedIsGenerated
  <2>4. SyncHolds'
    BY <1>2, <2>1, <2>2 DEF SyncInv, SyncHolds
  <2> QED BY <1>1, <2>3, <2>4 DEF SyncInv
<1>4. CASE SyncEnd(d)
  <2>1. /\ pushing[d] # None
        /\ \A e \in Devices : /\ conf'[e] = IF e = d THEN pushing[d] ELSE conf[e]
                              /\ synced'[e] = IF e = d THEN TRUE ELSE synced[e]
                              /\ pushing'[e] = IF e = d THEN None ELSE pushing[e]
    BY <1>4 DEF SyncEnd
  <2>2. UNCHANGED <<state, missed>>
    BY <1>4 DEF SyncEnd, hist
  <2>3. SyncedIsGenerated'
    BY <1>2, <2>1, <2>2 DEF SyncInv, SyncedIsGenerated, SyncHolds
  <2>4. SyncHolds'
    BY <1>2, <2>1, <2>2 DEF SyncInv, SyncHolds
  <2> QED BY <1>1, <2>3, <2>4 DEF SyncInv
<1> QED BY <1>3, <1>4

\* Nothing changes for any switch.
LEMMA NothingChanges ==
  ASSUME SyncInv, UNCHANGED <<links, intf, state, synced, conf, pushing, missed>>
  PROVE  SyncedIsGenerated' /\ SyncHolds'
<1>1. \A d \in Devices : Wanted(d)' = Wanted(d)
  BY WantedSame
<1>2. \A d \in Devices : Settled(d)
  BY <1>1 DEF Settled
<1> QED BY <1>2, SettledSteps DEF SyncInv, SyncHolds

\* A job that is there goes on, or ends.
LEMMA JobsStay ==
  ASSUME InitsDiscovered, JobShape, UNCHANGED state, NEW w \in Workers,
         At(w, "read") \/ At(w, "links") \/ At(w, "choose") \/ At(w, "add") \/ At(w, "domain") \/ At(w, "push"),
         \A v \in Workers \ {w} : job'[v] = job[v]
  PROVE  InitsDiscovered'
BY DEF InitsDiscovered, At, Workers

LEMMA OthersStay ==
  ASSUME JobShape, NEW w \in Workers, NEW x, job' = [job EXCEPT ![w] = x]
  PROVE  \A v \in Workers \ {w} : job'[v] = job[v]
BY DEF JobShape

LEMMA StepOneStays ==
  ASSUME TypeInv, SyncInv, NEW w \in Workers,
         \/ ReadNeighbours(w) \/ LinkLookup(w) \/ LinkChoose(w) \/ LinkAdd(w)
         \/ LinksDone(w) \/ ChooseDomain(w) \/ StepOneFails(w) \/ PushRollback(w)
  PROVE  InitsDiscovered'
<1>1. \A v \in Workers \ {w} : job'[v] = job[v]
  <2>1. CASE ReadNeighbours(w)
    BY <2>1 DEF ReadNeighbours, TypeInv, JobShape
  <2>2. CASE LinkLookup(w)
    BY <2>2 DEF LinkLookup, Fail, TypeInv, JobShape
  <2>3. CASE LinkChoose(w)
    BY <2>3 DEF LinkChoose, Fail, TypeInv, JobShape
  <2>4. CASE LinkAdd(w)
    BY <2>4 DEF LinkAdd, Fail, TypeInv, JobShape
  <2>5. CASE LinksDone(w)
    BY <2>5 DEF LinksDone, Go, TypeInv, JobShape
  <2>6. CASE ChooseDomain(w) \/ StepOneFails(w) \/ PushRollback(w)
    BY <2>6 DEF ChooseDomain, StepOneFails, PushRollback, Fail, TypeInv, JobShape
  <2> QED BY <2>1, <2>2, <2>3, <2>4, <2>5, <2>6
<1>2. UNCHANGED state
  BY DEF ReadNeighbours, LinkLookup, LinkChoose, LinkAdd, LinksDone, ChooseDomain, StepOneFails, PushRollback
<1> QED BY <1>1, <1>2, JobsStay
      DEF TypeInv, SyncInv, ReadNeighbours, LinkLookup, LinkChoose, LinkAdd, LinksDone, ChooseDomain,
          StepOneFails, PushRollback

LEMMA ChecksKeepSync ==
  ASSUME TypeInv, SyncInv, NEW d \in New, NEW peer \in New \cup {None}, NEW lt, NEW named,
         AccessCheck(d, peer) \/ FabricCheck(d, lt, named)
  PROVE  SyncInv'
<1> USE DEF TypeInv
<1>1. d \in Workers /\ d \in Devices
  BY DEF Workers, Devices
<1>2. InitsDiscovered'
  <2>1. \A v \in New \ {d} : job'[v] = job[v]
    BY <1>1 DEF AccessCheck, FabricCheck, Begin, JobShape, Workers
  <2>2. Ready(d) /\ UNCHANGED state
    BY DEF AccessCheck, FabricCheck
  <2> QED BY <2>1, <2>2 DEF SyncInv, InitsDiscovered, Ready
<1>3. CASE FabricCheck(d, lt, named)
  BY <1>2, <1>3, NothingChanges DEF FabricCheck, SyncInv, hist
<1>4. CASE AccessCheck(d, peer)
  <2>1. UNCHANGED <<links, state, synced, conf, pushing, missed>>
    BY <1>4 DEF AccessCheck, hist
  <2>2. \A p \in Ports : p.dev \notin {d, peer} => intf'[p] = intf[p]
    BY <1>4 DEF AccessCheck
  <2>3. \A e \in Devices \cap {d, peer} : state[e] = "DISCOVERED"
    BY <1>4, SwitchesAssumption DEF AccessCheck, Ready
  <2>4. \A e \in Devices : Settled(e)
    <3> SUFFICES ASSUME NEW e \in Devices PROVE Settled(e)
      OBVIOUS
    <3>1. CASE e \in {d, peer}
      BY <3>1, <2>1, <2>3 DEF Settled, SyncInv, SyncHolds
    <3>2. CASE e \notin {d, peer}
      <4>1. Wanted(e)' = Wanted(e)
        BY <3>2, <2>1, <2>2, WantedSame DEF PortsOf
      <4> QED BY <4>1, <2>1 DEF Settled
    <3> QED BY <3>1, <3>2
  <2> QED BY <1>2, <2>1, <2>4, SettledSteps DEF SyncInv, SyncHolds
<1> QED BY <1>3, <1>4

\* Links are removed, and nobody is told but in the history.
LEMMA LinksRemoved ==
  ASSUME SyncInv, NEW gone, links' = links \ gone,
         missed' = missed \cup UNION {Ends(l) : l \in links \cap gone},
         NEW w, \A p \in Ports : p.dev # w => intf'[p] = intf[p],
         w \in Devices => pushing[w] = None /\ state[w] # "MANAGED",
         UNCHANGED <<state, synced, conf, pushing>>
  PROVE  SyncedIsGenerated' /\ SyncHolds'
<1>1. \A d \in Devices : Settled(d)
  <2> SUFFICES ASSUME NEW d \in Devices, d \notin missed', d # w PROVE Wanted(d)' = Wanted(d)
    BY DEF Settled
  <2>1. \A l : d \in Ends(l) => (l \in links <=> l \in links')
    OBVIOUS
  <2> QED BY <2>1, WantedSame DEF PortsOf
<1> QED BY <1>1, SettledSteps DEF SyncInv, SyncHolds

LEMMA JobsKeepSync ==
  ASSUME TypeInv, SyncInv, NEW w \in Workers, StepOne(w)
  PROVE  SyncInv'
<1> USE DEF TypeInv
<1>1. CASE ReadNeighbours(w) \/ LinkChoose(w) \/ LinksDone(w) \/ ChooseDomain(w) \/ StepOneFails(w)
  BY <1>1, NothingChanges, StepOneStays
     DEF SyncInv, ReadNeighbours, LinkChoose, LinksDone, ChooseDomain, StepOneFails, hist
<1>2. CASE LinkLookup(w)
  <2>1. \/ UNCHANGED <<links, missed>>
        \/ \E n : /\ links' = links \ LookedUp(n[1], n[2])
                  /\ missed' = missed \cup UNION {Ends(l) : l \in LookedUp(n[1], n[2])}
    BY <1>2 DEF LinkLookup
  <2>2. UNCHANGED <<intf, state, synced, conf, pushing>>
    BY <1>2 DEF LinkLookup
  <2>3. ASSUME NEW n, links' = links \ LookedUp(n[1], n[2]),
               missed' = missed \cup UNION {Ends(l) : l \in LookedUp(n[1], n[2])}
        PROVE  SyncedIsGenerated' /\ SyncHolds'
    <3>1. links \cap LookedUp(n[1], n[2]) = LookedUp(n[1], n[2])
      BY DEF LookedUp
    <3>2. None \notin Devices
      BY SwitchesAssumption
    <3> HIDE DEF TypeInv
    <3> QED BY <2>2, <2>3, <3>1, <3>2, LinksRemoved
  <2> QED BY <1>2, <2>1, <2>2, <2>3, NothingChanges, StepOneStays DEF SyncInv
<1>3. CASE LinkAdd(w)
  <2> DEFINE l == [a |-> job[w].pair[1], b |-> job[w].pair[2], net |-> job[w].net, hand |-> w = Api]
  <2>1. \/ UNCHANGED <<links, synced, missed>>
        \/ links' = links \cup {l} /\ Mark(Ends(l)) /\ missed' = missed \cup Overtaken(Ends(l))
    BY <1>3 DEF LinkAdd, Tell
  <2>2. UNCHANGED <<intf, state, conf, pushing>>
    BY <1>3 DEF LinkAdd
  <2> HIDE DEF l
  <2>3. CASE links' = links \cup {l} /\ Mark(Ends(l)) /\ missed' = missed \cup Overtaken(Ends(l))
    <3>1. \A d \in Ends(l) \cap Devices : pushing[d] # None => d \in missed'
      BY <2>3 DEF Overtaken
    <3>2. \A d \in Devices \ Ends(l) : Wanted(d)' = Wanted(d)
      <4> SUFFICES ASSUME NEW d \in Devices \ Ends(l) PROVE Wanted(d)' = Wanted(d)
        OBVIOUS
      <4>1. \A k : d \in Ends(k) => (k \in links <=> k \in links')
        BY <2>3
      <4> QED BY <2>2, <4>1, WantedSame
    <3>3. \A d \in Devices : Settled(d)
      BY <2>3, <3>1, <3>2, MarkSettles DEF Settled
    <3> QED BY <1>3, <2>2, <2>3, <3>1, <3>3, MarkSettles, SettledSteps, StepOneStays DEF SyncInv, SyncHolds
  <2> QED BY <1>3, <2>1, <2>2, <2>3, NothingChanges, StepOneStays DEF SyncInv
<1>4. CASE PushRollback(w)
  <2>1. /\ links' = links \ LinksAt(w) /\ missed' = missed \cup UNION {Ends(l) : l \in LinksAt(w)}
        /\ UNCHANGED <<state, synced, conf, pushing>>
        /\ \A p \in Ports : p.dev # w => intf'[p] = intf[p]
    BY <1>4 DEF PushRollback
  <2>2. links \cap LinksAt(w) = LinksAt(w)
    BY DEF LinksAt
  <2>3. w \in New /\ job[w] # Idle
    BY <1>4, JobTyped DEF PushRollback, At, Workers
  <2>4. pushing[w] = None /\ state[w] # "MANAGED"
    BY <2>3 DEF SyncInv, InitsDiscovered, SyncHolds, Devices
  <2>5. SyncedIsGenerated' /\ SyncHolds'
    BY <2>1, <2>2, <2>4, LinksRemoved
  <2> QED BY <1>4, <2>5, StepOneStays DEF SyncInv
<1>5. CASE PushDone(w)
  <2>1. w \in New /\ job[w] # Idle /\ state[w] = "DISCOVERED"
    BY <1>5, JobTyped DEF PushDone, At, Workers, SyncInv, InitsDiscovered
  <2>2. /\ UNCHANGED <<links, intf, synced, conf, pushing, missed>>
        /\ \A d \in Devices : state'[d] = IF d = w THEN "INIT" ELSE state[d]
    BY <1>5 DEF PushDone, hist, DataTyped
  <2>3. \A d \in Devices : Settled(d)
    BY <2>2, WantedSame DEF Settled
  <2>4. pushing[w] = None
    BY <2>1 DEF SyncInv, SyncHolds, Devices
  <2>5. SyncedIsGenerated' /\ SyncHolds'
    BY <2>2, <2>3, <2>4, SettledSteps DEF SyncInv, SyncHolds
  <2>6. InitsDiscovered'
    <3> DEFINE p == job[w].peer
               next == [job EXCEPT ![w] = Idle]
    <3>1. \/ job' = next
          \/ /\ p # None /\ job[p] = Idle /\ state[p] = "DISCOVERED"
             /\ job' = [next EXCEPT ![p] = Task(p, "ACCESS", None, job[w].ups)]
      BY <1>5 DEF PushDone
    <3>2. p # None => p \in New
      BY <1>5, JobTyped DEF PushDone, Tasks
    <3>3. \A v \in Workers : next[v] = IF v = w THEN Idle ELSE job[v]
      BY DEF JobShape
    <3>4. next \in [Workers -> Tasks \cup {Idle}]
      BY DEF JobShape
    <3>5. \A v \in New : job'[v] # Idle => v # w /\ (job[v] # Idle \/ state[v] = "DISCOVERED")
      <4> HIDE DEF next, p
      <4> QED BY <2>1, <3>1, <3>2, <3>3, <3>4 DEF Workers
    <3> QED BY <2>2, <3>5 DEF SyncInv, InitsDiscovered, Devices
  <2> QED BY <2>5, <2>6 DEF SyncInv
<1> QED BY <1>1, <1>2, <1>3, <1>4, <1>5 DEF StepOne

\* The switches ds are told of a change of links or interfaces that concerns no others.
LEMMA TellingKeeps ==
  ASSUME SyncInv, UNCHANGED <<state, conf, pushing, job>>, NEW ds,
         Mark(ds), missed' = missed \cup Overtaken(ds),
         \A d \in Devices \ ds : Wanted(d)' = Wanted(d)
  PROVE  SyncInv'
<1>1. \A d \in ds \cap Devices : pushing[d] # None => d \in missed'
  BY DEF Overtaken
<1>2. \A d \in Devices : Settled(d)
  BY <1>1, MarkSettles DEF Settled
<1>3. SyncedIsGenerated' /\ SyncHolds'
  BY <1>1, <1>2, MarkSettles, SettledSteps DEF SyncInv, SyncHolds
<1>4. InitsDiscovered'
  BY DEF SyncInv, InitsDiscovered
<1> QED BY <1>3, <1>4 DEF SyncInv

LEMMA CablesKeepSync ==
  ASSUME TypeInv, SyncInv, NEW p, NEW q, Recable(p, q) \/ PostLink(p, q)
  PROVE  SyncInv'
<1>1. CASE Recable(p, q)
  BY <1>1, NothingChanges DEF Recable, SyncInv, InitsDiscovered
<1>2. CASE PostLink(p, q)
  <2>1. \A w \in New : job'[w] = job[w]
    BY <1>2, SwitchesAssumption DEF PostLink, TypeInv, JobShape, Workers, Devices
  <2> QED BY <1>2, <2>1, NothingChanges DEF PostLink, SyncInv, InitsDiscovered
<1> QED BY <1>1, <1>2

LEMMA DeleteKeepsSync ==
  ASSUME SyncInv, NEW l \in links, DeleteLink(l)
  PROVE  SyncInv'
<1>1. \A d \in Devices \ Ends(l) : Wanted(d)' = Wanted(d)
  <2> SUFFICES ASSUME NEW d \in Devices \ Ends(l) PROVE Wanted(d)' = Wanted(d)
    OBVIOUS
  <2>1. \A k : d \in Ends(k) => (k \in links <=> k \in links')
    BY DEF DeleteLink
  <2> QED BY <2>1, WantedSame DEF DeleteLink
<1> QED BY <1>1, TellingKeeps DEF DeleteLink

LEMMA PutKeepsSync ==
  ASSUME TypeInv, SyncInv, NEW l \in links, NEW p \in Handled, PutLink(l, p)
  PROVE  SyncInv'
<1>1. PICK new : /\ links' = (links \ {l}) \cup {new}
                 /\ new.a.dev = l.a.dev /\ new.b.dev = l.b.dev
  <2>1. l \in Link
    BY DEF TypeInv, DataTyped
  <2>2. p.dev = l.a.dev \/ p.dev = l.b.dev
    BY DEF PutLink, Ends
  <2> DEFINE x == [l EXCEPT !.a = p, !.hand = TRUE]
             y == [l EXCEPT !.b = p, !.hand = TRUE]
  <2>3. /\ x.a = p /\ x.b = l.b
        /\ y.a = l.a /\ y.b = p
    BY <2>1 DEF Link
  <2>4. links' = (links \ {l}) \cup {IF p.dev = l.a.dev THEN x ELSE y}
    BY DEF PutLink
  <2> HIDE DEF x, y
  <2> QED BY <2>2, <2>3, <2>4
<1>2. Ends(new) = Ends(l)
  BY <1>1 DEF Ends
<1>3. \A d \in Devices \ Ends(l) : Wanted(d)' = Wanted(d)
  <2> SUFFICES ASSUME NEW d \in Devices \ Ends(l) PROVE Wanted(d)' = Wanted(d)
    OBVIOUS
  <2>1. \A k : d \in Ends(k) => (k \in links <=> k \in links')
    BY <1>1, <1>2
  <2> QED BY <2>1, WantedSame DEF PutLink
<1> QED BY <1>3, TellingKeeps DEF PutLink

LEMMA InterfaceKeepsSync ==
  ASSUME TypeInv, SyncInv, NEW p \in Handled, NEW kind, PutInterface(p, kind)
  PROVE  SyncInv'
<1>1. \A d \in Devices \ {p.dev} : Wanted(d)' = Wanted(d)
  <2> SUFFICES ASSUME NEW d \in Devices \ {p.dev} PROVE Wanted(d)' = Wanted(d)
    OBVIOUS
  <2>1. \A r \in PortsOf(d) : intf'[r] = intf[r]
    BY DEF PutInterface, PortsOf, TypeInv, DataTyped
  <2> QED BY <2>1, WantedSame DEF PutInterface
<1> QED BY <1>1, TellingKeeps DEF PutInterface

LEMMA DevicesKeepSync ==
  ASSUME TypeInv, SyncInv, NEW d \in New, NEW replace,
         StepTwo(d) \/ UpdateInterfaces(d, replace) \/ DeleteInterfaces(d) \/ DeleteDevice(d)
  PROVE  SyncInv'
<1> USE DEF TypeInv
<1>1. d \in Devices
  BY DEF Devices
<1>2. CASE StepTwo(d)
  <2>1. /\ UNCHANGED <<links, intf, conf, pushing, job, missed>> /\ Mark({d})
        /\ \A e \in Devices : state'[e] = IF e = d THEN "MANAGED" ELSE state[e]
    BY <1>2 DEF StepTwo, hist, DataTyped
  <2>2. state[d] = "INIT"
    BY <1>2 DEF StepTwo
  <2>3. \A e \in Devices : Settled(e)
    BY <2>1, WantedSame DEF Settled
  <2>4. SyncedIsGenerated' /\ SyncHolds'
    <3>1. ~synced'[d] /\ \A e \in Devices : synced'[e] => synced[e]
      BY <1>1, <2>1 DEF Mark
    <3> QED BY <2>1, <2>3, <3>1, SettledSteps DEF SyncInv, SyncHolds
  <2>5. InitsDiscovered'
    BY <2>1, <2>2 DEF SyncInv, InitsDiscovered, Devices
  <2> QED BY <2>4, <2>5 DEF SyncInv
<1>3. ASSUME \A p \in Ports : p.dev # d => intf'[p] = intf[p], UNCHANGED links
      PROVE  \A e \in Devices \ {d} : Wanted(e)' = Wanted(e)
  <2> SUFFICES ASSUME NEW e \in Devices \ {d} PROVE Wanted(e)' = Wanted(e)
    OBVIOUS
  <2> QED BY <1>3, WantedSame DEF PortsOf
<1>4. CASE UpdateInterfaces(d, replace)
  <2>1. /\ \A p \in Ports : p.dev # d => intf'[p] = intf[p]
        /\ UNCHANGED <<links, state, conf, pushing, job>>
    BY <1>4 DEF UpdateInterfaces, PortsOf
  <2>2. CASE Mark({d}) /\ missed' = missed \cup Overtaken({d})
    BY <1>3, <2>1, <2>2, TellingKeeps
  <2>3. CASE {p \in PortsOf(d) : replace \/ intf[p] = "none"} = {} /\ UNCHANGED <<synced, missed>>
    <3>1. UNCHANGED intf
      BY <1>4, <2>3 DEF UpdateInterfaces, DataTyped
    <3> QED BY <2>1, <2>3, <3>1, NothingChanges DEF SyncInv, InitsDiscovered
  <2> QED BY <1>4, <2>2, <2>3 DEF UpdateInterfaces
<1>5. CASE DeleteInterfaces(d)
  <2>1. /\ \A p \in Ports : p.dev # d => intf'[p] = intf[p]
        /\ missed' = missed \cup {d}
        /\ UNCHANGED <<links, state, synced, conf, pushing, job>>
    BY <1>5 DEF DeleteInterfaces
  <2>2. \A e \in Devices : Settled(e)
    BY <1>3, <2>1 DEF Settled
  <2>3. SyncedIsGenerated' /\ SyncHolds'
    BY <2>1, <2>2, SettledSteps DEF SyncInv, SyncHolds
  <2> QED BY <2>1, <2>3 DEF SyncInv, InitsDiscovered
<1>6. CASE DeleteDevice(d)
  <2> DEFINE told == UNION {Ends(l) : l \in LinksAt(d)}
  <2>1. /\ \A p \in Ports : p.dev # d => intf'[p] = intf[p]
        /\ Mark(told \cup {d}) /\ missed' = (missed \cup Overtaken(told)) \ {d}
        /\ links' = links \ LinksAt(d)
        /\ UNCHANGED <<conf, pushing, job>>
        /\ pushing[d] = None /\ ~Busy(d)
        /\ \A e \in Devices : state'[e] = IF e = d THEN "GONE" ELSE state[e]
    BY <1>6 DEF DeleteDevice, DataTyped
  <2>2. \A e \in Devices \ (told \cup {d}) : Wanted(e)' = Wanted(e)
    <3> SUFFICES ASSUME NEW e \in Devices \ (told \cup {d}) PROVE Wanted(e)' = Wanted(e)
      OBVIOUS
    <3>1. \A k : e \in Ends(k) => (k \in links <=> k \in links')
      BY <2>1
    <3> HIDE DEF told
    <3> QED BY <2>1, <3>1, WantedSame DEF PortsOf
  <2> HIDE DEF told
  <2>3. \A e \in Devices : /\ Settled(e)
                           /\ synced'[e] => synced[e]
    BY <1>1, <2>1, <2>2 DEF Settled, Mark, Overtaken
  <2>4. SyncedIsGenerated' /\ SyncHolds'
    BY <2>1, <2>3, SettledSteps DEF SyncInv, SyncHolds
  <2>5. InitsDiscovered'
    BY <2>1 DEF SyncInv, InitsDiscovered, Busy, Devices
  <2> QED BY <2>4, <2>5 DEF SyncInv
<1> QED BY <1>2, <1>4, <1>5, <1>6

LEMMA SyncStep == TypeInv /\ SyncInv /\ [Next]_vars => SyncInv'
<1> SUFFICES ASSUME TypeInv, SyncInv, [Next]_vars PROVE SyncInv'
  OBVIOUS
<1>1. ASSUME NEW d \in New, \/ \E peer \in New \cup {None} : AccessCheck(d, peer)
                             \/ \E lt \in Fabric, named \in Named : FabricCheck(d, lt, named)
      PROVE  SyncInv'
  BY <1>1, ChecksKeepSync
<1>2. ASSUME NEW d \in New, \/ StepTwo(d)
                             \/ \E replace \in BOOLEAN : UpdateInterfaces(d, replace)
                             \/ DeleteInterfaces(d)
                             \/ DeleteDevice(d)
      PROVE  SyncInv'
  BY <1>2, DevicesKeepSync
<1>3. ASSUME NEW w \in Workers, StepOne(w)
      PROVE  SyncInv'
  BY <1>3, JobsKeepSync
<1>4. ASSUME NEW d \in Syncing, SyncRender(d) \/ SyncEnd(d)
      PROVE  SyncInv'
  BY <1>4, SyncKeeps, BoundsAssumption
<1>5. ASSUME NEW p \in Handled, NEW q \in Handled, Recable(p, q) \/ PostLink(p, q)
      PROVE  SyncInv'
  BY <1>5, CablesKeepSync
<1>6. ASSUME NEW l \in links, DeleteLink(l)
      PROVE  SyncInv'
  BY <1>6, DeleteKeepsSync
<1>7. ASSUME NEW l \in links, NEW p \in Handled, PutLink(l, p)
      PROVE  SyncInv'
  BY <1>7, PutKeepsSync
<1>8. ASSUME NEW p \in Handled, NEW kind, PutInterface(p, kind)
      PROVE  SyncInv'
  BY <1>8, InterfaceKeepsSync
<1>9. CASE UNCHANGED vars
  BY <1>9, NothingChanges DEF vars, hist, SyncInv, InitsDiscovered
<1>10. CASE Operator
  <2>1. CASE \E p, q \in Handled : Recable(p, q) \/ PostLink(p, q)
    BY <1>5, <2>1
  <2>2. CASE \E l \in links : DeleteLink(l) \/ \E p \in Handled : PutLink(l, p)
    BY <1>6, <1>7, <2>2
  <2>3. CASE \E p \in Handled, kind \in {"AUTO", "DOWNLINK", "SINGLE"} : PutInterface(p, kind)
    BY <1>8, <2>3
  <2>4. CASE \E d \in New : \/ \E replace \in BOOLEAN : UpdateInterfaces(d, replace)
                             \/ DeleteInterfaces(d) \/ DeleteDevice(d)
    BY <1>2, <2>4
  <2> QED BY <1>10, <2>1, <2>2, <2>3, <2>4 DEF Operator
<1> QED BY <1>1, <1>2, <1>3, <1>4, <1>9, <1>10 DEF Next

\* A managed switch that is shown as synchronized runs what its links and
\* interfaces say, but for changes that nobody is told of (update_linknets,
\* init_access_device_step1, InterfaceApi.put, SyncHistory.add_sync_event).
THEOREM FlagsFollowLinks == Spec => []SyncedIsGenerated
<1>1. Init => TypeInv /\ SyncInv
  BY TypeInit, SyncInit
<1>2. (TypeInv /\ SyncInv) /\ [Next]_vars => (TypeInv /\ SyncInv)'
  BY TypeStep, SyncStep
<1>3. TypeInv /\ SyncInv => SyncedIsGenerated
  BY DEF SyncInv
<1> QED BY <1>1, <1>2, <1>3, PTL DEF Spec
=============================================================================
