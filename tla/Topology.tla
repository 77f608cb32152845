------------------------------ MODULE Topology ------------------------------
(***************************************************************************)
(* The links between switches: the table of linknets, how the first step   *)
(* of initialisation reads the neighbours of a switch, judges them and     *)
(* replaces links one commit at a time, what operators do to links and     *)
(* interfaces, and the flag "synchronized" of the switches at both ends,   *)
(* whose configuration is generated from the links.                        *)
(*                                                                         *)
(* Addresses other than the /31 of a link, and the contact with the switch *)
(* that is initialised, are the subject of DeviceLifecycle.                *)
(***************************************************************************)
EXTENDS Naturals, FiniteSets

CONSTANTS Fixed,        \* switches managed from the start
          New,          \* switches discovered and to be initialised
          Types,        \* type of each fixed switch
          Ports,        \* [dev, no] of every physical port
          Class,        \* ifclass of each port in the settings, "none" without one
          Layouts,      \* ways to cable the ports: functions from some of them to their peers
          Domains,      \* management domains: sets of the switches that serve them
          Nets,         \* the /31 networks that links may be given, in order
          Handled,      \* bound: the ports whose cables, links and interfaces operators change
          Syncing,      \* bound: the switches that are synced
          Named,        \* bound: the neighbours that requests name, None for no list
          MaxTries,     \* bound: how often a switch is initialised
          MaxEvents,    \* bound: requests of operators and moved cables
          None

Devices == Fixed \cup New
Api == "api"
Fabric == {"CORE", "DIST"}

ASSUME SwitchesAssumption == Fixed \cap New = {} /\ Api \notin Devices /\ None \notin Devices \cup Domains
ASSUME TypesAssumption == Types \in [Fixed -> Fabric]
ASSUME PortsAssumption == /\ \A p \in Ports : p.dev \in Devices
                          /\ Class \in [Ports -> {"none", "fabric", "downlink", "single"}]
ASSUME FiniteAssumption == IsFiniteSet(Devices) /\ IsFiniteSet(Ports)
\* The domains that are given from the start are of switches that are managed then.
ASSUME DomainsAssumption == Domains \subseteq SUBSET Fixed
ASSUME NetsAssumption == Nets \subseteq Nat \ {0}
ASSUME LayoutsAssumption ==
  \A c \in Layouts : \A p \in DOMAIN c : /\ p \in Ports /\ c[p] \in DOMAIN c
                                      /\ c[c[p]] = p /\ c[p] # p
ASSUME BoundsAssumption == /\ Handled \subseteq Ports /\ Syncing \subseteq Devices
                           /\ MaxTries \in Nat /\ MaxEvents \in Nat

VARIABLES cable,        \* peer of each cabled port, as LLDP would tell
          links,        \* the table of linknets
          intf,         \* configtype of the interfaces in the database
          state, type,  \* state and device_type of each row
          domain,       \* management domain that an access switch has its address from
          synced,       \* flag synchronized
          conf,         \* what the running configuration of a switch says of its links
          pushing,      \* configuration generated by a running sync, None without one
          job,          \* first step of initialisation of a switch, or a POST of a link
          tries, events,
          missed,       \* history: switches that were not told of a link that changed
          raced,        \* history: networks chosen twice before either was stored
          crossed,      \* history: ports of links that were made at the same time
          moved         \* history: switches whose links changed during their initialisation

hist == <<missed, raced, crossed, moved>>
vars == <<cable, links, intf, state, type, domain, synced, conf, pushing, job, tries, events, hist>>

Link == [a: Ports, b: Ports, net: Nets \cup {0}, hand: BOOLEAN]
Idle == [at |-> "idle"]
Workers == New \cup {Api}
Kinds == {"none", "AUTO", "UPLINK", "MLAG_PEER", "DOWNLINK", "SINGLE"}
View(l, d) == IF l.a.dev = d THEN <<l.a, l.b, l.net>> ELSE <<l.b, l.a, l.net>>
Ends(l) == {l.a.dev, l.b.dev}
Settings == (Ports \X Ports \X (Nets \cup {0})) \cup (Ports \X Kinds)

TypeOK ==
  /\ \A p \in DOMAIN cable : p \in Ports /\ cable[cable[p]] = p
  /\ links \subseteq Link
  /\ intf \in [Ports -> Kinds]
  /\ state \in [Devices -> {"DISCOVERED", "INIT", "MANAGED", "GONE"}]
  /\ type \in [Devices -> Fabric \cup {"ACCESS", "UNKNOWN"}]
  /\ domain \in [Devices -> Domains \cup {None}]
  /\ synced \in [Devices -> BOOLEAN]
  /\ conf \in [Devices -> SUBSET Settings]
  /\ pushing \in [Devices -> (SUBSET Settings) \cup {None}]
  /\ \A w \in Workers :
       job[w] # Idle => /\ job[w].at \in {"read", "links", "choose", "add", "domain", "push"}
                        /\ job[w].who \in Devices
                        /\ job[w].net \in Nets \cup {0}
                        /\ job[w].at \in {"choose", "add"} <=> job[w].pair # <<>>
  /\ tries \in [New -> 0..MaxTries] /\ events \in 0..MaxEvents
  /\ missed \subseteq Devices /\ raced \subseteq Nets /\ crossed \subseteq Ports /\ moved \subseteq New

Init ==
  /\ cable \in Layouts
  /\ links = {} /\ intf = [p \in Ports |-> "none"]
  /\ state = [d \in Devices |-> IF d \in New THEN "DISCOVERED" ELSE "MANAGED"]
  /\ type = [d \in Devices |-> IF d \in New THEN "UNKNOWN" ELSE Types[d]]
  /\ domain = [d \in Devices |-> None]
  /\ synced = [d \in Devices |-> d \in Fixed]
  /\ conf = [d \in Devices |-> {}]
  /\ pushing = [d \in Devices |-> None]
  /\ job = [w \in Workers |-> Idle]
  /\ tries = [d \in New |-> 0] /\ events = 0
  /\ missed = {} /\ raced = {} /\ crossed = {} /\ moved = {}

(***************************************************************************)
(* Rules: what makes links and neighbours fit.                             *)
(***************************************************************************)
PortsOf(d) == {p \in Ports : p.dev = d}
LinksAt(d) == {l \in links : d \in Ends(l)}
Wanted(d) == {View(l, d) : l \in LinksAt(d)}
               \cup {<<p, intf[p]>> : p \in {q \in PortsOf(d) : intf[q] # "none"}}

\* Neighbours by LLDP that take part: the other half of a pair, and managed ones.
Neighbours(d, peer) ==
  {<<p, cable[p]>> : p \in {q \in PortsOf(d) \cap DOMAIN cable :
                              cable[q].dev = peer \/ state[cable[q].dev] = "MANAGED"}}

Compatible(lt, p, rt, q) ==
  /\ rt \in Fabric => Class[q] # "none"
  /\ lt \in Fabric => Class[p] # "none"
  /\ {lt, rt} \subseteq Fabric => Class[p] = "fabric" /\ Class[q] = "fabric"
  /\ lt = "ACCESS" /\ rt = "DIST" => Class[q] \in {"downlink", "single"}
  /\ lt = "ACCESS" /\ rt = "ACCESS" =>
       intf[q] \in {"MLAG_PEER", "DOWNLINK", "SINGLE"}

Redundant(p, rt, q) ==
  CASE rt = "DIST" -> Class[q] # "single"
    [] rt = "ACCESS" -> intf[q] # "SINGLE"
    [] OTHER -> TRUE

LocalOnly(p, q) == {l \in links : p \in {l.a, l.b}}
LookedUp(p, q) == {l \in links : {p, q} \cap {l.a, l.b} # {}}

\* Whether the update of links would get through, when nothing is stored.
DryRun(d, lt, peer) ==
  \A n \in Neighbours(d, peer) :
    /\ Compatible(lt, n[1], type[n[2].dev], n[2])
    /\ Cardinality(LookedUp(n[1], n[2])) <= 1

\* The links of the database, then those of LLDP that are not among them: only
\* the latter know whether a second link is required.
Known(d, peer) ==
  LET stored == {[ends |-> {l.a, l.b}, redundant |-> TRUE] :
                   l \in LinksAt(d) \cup (IF peer = None THEN {} ELSE LinksAt(peer))}
      seen == {[ends |-> {n[1], n[2]}, redundant |-> Redundant(n[1], type[n[2].dev], n[2])] :
                 n \in Neighbours(d, peer) \cup (IF peer = None THEN {} ELSE Neighbours(peer, d))}
  IN  stored \cup {k \in seen : \A s \in stored : s.ends # k.ends}
Far(k, d, peer) ==
  LET own == {p \in k.ends : p.dev = d}
      near == IF own # {} THEN own ELSE {p \in k.ends : p.dev = peer}
  IN  CHOOSE q \in k.ends : q \notin near \/ k.ends = near
Uplinks(d, peer) ==
  {k \in Known(d, peer) : LET q == Far(k, d, peer) IN
                          q.dev \notin {d, peer} /\ type[q.dev] \in {"ACCESS", "DIST"}}

\* Management domain for the switches at the end of n uplinks; None if there is none.
CoreDomains == {m \in Domains : \E d \in m : type[d] = "CORE"}
AnyOfPair(up) == {m \in Domains : m \cap up # {}}
PairDomains(up) == {m \in Domains : m = up}
FindMgmtdomain(n, up) ==
  CASE n = 1 -> LET d == CHOOSE e \in up : TRUE IN
                IF type[d] = "DIST" THEN AnyOfPair(up) ELSE {domain[d]}
    [] n = 2 /\ \A d \in up : type[d] = "DIST" ->
         IF PairDomains(up) # {} THEN PairDomains(up)
         ELSE IF CoreDomains = {} THEN {None}
         ELSE IF Cardinality(CoreDomains) = 1 THEN CoreDomains ELSE {}
    [] n = 2 /\ \A d \in up : type[d] = "ACCESS" ->
         {m \in {domain[d] : d \in up} \ {None} : \A d \in up : domain[d] = m}
    [] OTHER -> {}

AccessFits(d, peer) ==
  LET ups == Uplinks(d, peer)
      redundant == Cardinality({k \in ups : k.redundant})
  IN  /\ <<Cardinality(ups), redundant>> \in {<<1, 0>>, <<2, 2>>}
      /\ peer # None => Cardinality({k \in Known(d, peer) : Far(k, d, peer).dev = peer}) >= 2
      /\ FindMgmtdomain(Cardinality(ups), {Far(k, d, peer).dev : k \in ups}) # {}

\* Neighbours that the request names are found, one link each; or else two
\* links to switches of the opposite type are.
Verified(d, lt, named) ==
  {n \in Neighbours(d, None) :
     IF named # None THEN n[2].dev \in named
     ELSE type[n[2].dev] = (IF lt = "CORE" THEN "DIST" ELSE "CORE")}
FabricFits(d, lt, named) ==
  \/ named = {}
  \/ /\ Neighbours(d, None) # {}
     /\ IF named # None THEN Cardinality(Verified(d, lt, named)) = Cardinality(named)
        ELSE Cardinality(Verified(d, lt, named)) >= 2

(***************************************************************************)
(* The flag and the syncs.                                                 *)
(***************************************************************************)
\* A sync that is running will set the flags again that are cleared here.
Overtaken(ds) == {d \in ds : pushing[d] # None}
Mark(ds) == synced' = [d \in Devices |-> synced[d] /\ d \notin ds]

\* Only one sync holds the lock at a time; bound: it is of one switch.
SyncRender(d) ==
  /\ state[d] = "MANAGED" /\ ~synced[d] /\ \A e \in Devices : pushing[e] = None
  /\ pushing' = [pushing EXCEPT ![d] = Wanted(d)]
  /\ missed' = missed \ {d}
  /\ UNCHANGED <<cable, links, intf, state, type, domain, synced, conf, job, tries, events, raced, crossed, moved>>

SyncEnd(d) ==
  /\ pushing[d] # None
  /\ conf' = [conf EXCEPT ![d] = pushing[d]]
  /\ synced' = [synced EXCEPT ![d] = TRUE]
  /\ pushing' = [pushing EXCEPT ![d] = None]
  /\ UNCHANGED <<cable, links, intf, state, type, domain, job, tries, events, hist>>

(***************************************************************************)
(* The first step of initialisation: checks.                               *)
(***************************************************************************)
Task(w, kind, peer, ups) ==
  [at |-> "read", kind |-> kind, peer |-> peer, who |-> w, todo |-> {}, pair |-> <<>>,
   net |-> 0, ups |-> ups, domain |-> None]
Go(w, at) == job' = [job EXCEPT ![w].at = at]
Fail(w) == job' = [job EXCEPT ![w] = Idle]
At(w, at) == job[w] # Idle /\ job[w].at = at
Ready(d) == job[d] = Idle /\ state[d] = "DISCOVERED" /\ tries[d] < MaxTries
Begin(d, task) == job' = [job EXCEPT ![d] = task] /\ tries' = [tries EXCEPT ![d] = @ + 1]

Role(p, d, peer) ==
  IF \E k \in Uplinks(d, peer) : p \in k.ends THEN "UPLINK"
  ELSE IF \E k \in Known(d, peer) : p \in k.ends /\ {q.dev : q \in k.ends} = {d, peer}
  THEN "MLAG_PEER" ELSE "AUTO"

\* One uplink for each port, though links of the database and of LLDP may differ.
UplinkPorts(d, peer) ==
  {<<p, (CHOOSE k \in Uplinks(d, peer) : p \in k.ends)>> :
      p \in {q \in Ports : q.dev \in {d, peer} /\ \E k \in Uplinks(d, peer) : q \in k.ends}}
UplinkDevices(d, peer) == {<<u[1], Far(u[2], d, peer).dev>> : u \in UplinkPorts(d, peer)}

\* The interfaces are stored before the neighbours are judged, and stay.
AccessCheck(d, peer) ==
  /\ Ready(d)
  /\ peer # None => peer # d /\ state[peer] = "DISCOVERED"
  /\ IF DryRun(d, "ACCESS", peer) /\ (peer # None => DryRun(peer, "ACCESS", d))
     THEN /\ intf' = [p \in Ports |-> IF p.dev \in {d, peer} THEN Role(p, d, peer) ELSE intf[p]]
          /\ IF /\ AccessFits(d, peer)
                /\ \A u \in UplinkDevices(d, peer) : state[u[2]] = "MANAGED"
             THEN Begin(d, Task(d, "ACCESS", peer, UplinkDevices(d, peer)))
             ELSE UNCHANGED <<job, tries>>
     ELSE UNCHANGED <<intf, job, tries>>
  /\ UNCHANGED <<cable, links, state, type, domain, synced, conf, pushing, events, hist>>

FabricCheck(d, lt, named) ==
  /\ Ready(d)
  /\ IF /\ DryRun(d, lt, None) /\ FabricFits(d, lt, named)
        /\ \A n \in Verified(d, lt, named) : synced[n[2].dev]
     THEN /\ type' = [type EXCEPT ![d] = lt]
          /\ Begin(d, Task(d, lt, None, {}))
     ELSE UNCHANGED <<type, job, tries>>
  /\ UNCHANGED <<cable, links, intf, state, domain, synced, conf, pushing, events, hist>>

(***************************************************************************)
(* The first step of initialisation: links, one at a time.                 *)
(***************************************************************************)
ReadNeighbours(w) ==
  /\ At(w, "read")
  /\ LET j == job[w] IN
     job' = [job EXCEPT ![w].at = "links",
                        ![w].todo = Neighbours(j.who, IF j.who = w THEN j.peer ELSE None)]
  /\ UNCHANGED <<cable, links, intf, state, type, domain, synced, conf, pushing, tries, events, hist>>

\* Ports of the links that others have looked up and not stored yet.
Making(w) == UNION {{job[v].pair[1], job[v].pair[2]} :
                      v \in {x \in Workers \ {w} : At(x, "choose") \/ At(x, "add")}}

\* In the order of the ports. A link with the same ends the same way round is kept,
\* any other one on either port is deleted; the switch that loses it is not told.
LinkLookup(w) ==
  /\ At(w, "links")
  /\ \E n \in {m \in job[w].todo : \A k \in job[w].todo : m[1].no <= k[1].no} :
       LET old == LookedUp(n[1], n[2])
           same == \E l \in old : l.a = n[1] /\ l.b = n[2]
       IN  IF ~Compatible(job[w].kind, n[1], type[n[2].dev], n[2]) \/ Cardinality(old) > 1
           THEN Fail(w) /\ UNCHANGED <<links, missed, crossed>>
           ELSE /\ job' = [job EXCEPT ![w].todo = @ \ {n},
                                      ![w].at = IF same THEN "links" ELSE "choose",
                                      ![w].pair = IF same THEN <<>> ELSE n]
                /\ links' = IF same THEN links ELSE links \ old
                /\ crossed' = IF same THEN crossed ELSE crossed \cup ({n[1], n[2]} \cap Making(w))
                /\ missed' = IF same THEN missed ELSE missed \cup UNION {Ends(l) : l \in old}
  /\ UNCHANGED <<cable, intf, state, type, domain, synced, conf, pushing, tries, events, raced, moved>>

UsedByCore == {l.net : l \in {k \in links : type[k.a.dev] = "CORE"}}
Used == {l.net : l \in links}
PastTheLast == {1 + Cardinality(Used)}
FreeNets == Nets \ Used
TypeOf(w, d) == IF w # Api /\ d = job[w].who THEN job[w].kind ELSE type[d]

\* Only links within the fabric get a network; without a free one a link is
\* stored without, but for a request that is refused.
LinkChoose(w) ==
  /\ At(w, "choose")
  /\ LET fabric == \A p \in {job[w].pair[1], job[w].pair[2]} : TypeOf(w, p.dev) \in Fabric IN
     \E net \in IF ~fabric THEN {0}
                ELSE IF FreeNets = {} THEN {0}
                ELSE {m \in FreeNets : \A k \in FreeNets : m <= k} :
       /\ IF w = Api /\ fabric /\ net = 0
          THEN Fail(w)
          ELSE job' = [job EXCEPT ![w].at = "add", ![w].net = net]
       /\ raced' = raced \cup {m \in {net} \ {0} : \E v \in Workers \ {w} : At(v, "add") /\ job[v].net = m}
  /\ UNCHANGED <<cable, links, intf, state, type, domain, synced, conf, pushing, tries, events, missed, crossed, moved>>

Unique(l, others) == \A k \in others : k.a # l.a /\ k.b # l.b
Told(l) == {l.a.dev}
Tell(l) == Ends(l)
LinkAdd(w) ==
  /\ At(w, "add")
  /\ LET j == job[w]
         l == [a |-> j.pair[1], b |-> j.pair[2], net |-> j.net, hand |-> w = Api]
     IN  IF Unique(l, links) /\ \A d \in Ends(l) : state[d] # "GONE"
         THEN /\ links' = links \cup {l}
              /\ Mark(Tell(l)) /\ missed' = missed \cup Overtaken(Tell(l))
              /\ IF w = Api THEN Fail(w)
                 ELSE job' = [job EXCEPT ![w].at = "links", ![w].pair = <<>>, ![w].net = 0]
         ELSE Fail(w) /\ UNCHANGED <<links, synced, missed>>
  /\ UNCHANGED <<cable, intf, state, type, domain, conf, pushing, tries, events, raced, crossed, moved>>

LinksDone(w) ==
  /\ At(w, "links") /\ job[w].todo = {}
  /\ LET j == job[w] IN
     IF j.peer # None /\ j.who = w
     THEN job' = [job EXCEPT ![w].who = j.peer, ![w].at = "read"]
     ELSE Go(w, IF j.kind = "ACCESS" THEN "domain" ELSE "push")
  /\ UNCHANGED <<cable, links, intf, state, type, domain, synced, conf, pushing, tries, events, hist>>

(***************************************************************************)
(* The first step of initialisation: its end.                              *)
(***************************************************************************)
ChooseDomain(w) ==
  /\ At(w, "domain")
  /\ LET found == FindMgmtdomain(Cardinality(job[w].ups), {u[2] : u \in job[w].ups}) \ {None} IN
     IF found = {} THEN Fail(w)
     ELSE \E m \in found : job' = [job EXCEPT ![w].at = "push", ![w].domain = m]
  /\ UNCHANGED <<cable, links, intf, state, type, domain, synced, conf, pushing, tries, events, hist>>

\* No address is free, variables or settings are wrong: what is stored stays.
StepOneFails(w) ==
  /\ At(w, "push")
  /\ Fail(w)
  /\ UNCHANGED <<cable, links, intf, state, type, domain, synced, conf, pushing, tries, events, hist>>

\* The switch still answers on its old address.
PushRollback(w) ==
  /\ At(w, "push") /\ job[w].kind = "ACCESS"
  /\ links' = links \ LinksAt(w)
  /\ missed' = missed \cup UNION {Ends(l) : l \in LinksAt(w)}
  /\ intf' = [p \in Ports |-> IF p.dev = w /\ intf[p] = "UPLINK" THEN "AUTO" ELSE intf[p]]
  /\ Fail(w)
  /\ UNCHANGED <<cable, state, type, domain, synced, conf, pushing, tries, events, raced, crossed, moved>>

\* The other switch of a pair follows, with the uplinks of both and no checks.
PushDone(w) ==
  /\ At(w, "push")
  /\ LET j == job[w]
         next == [job EXCEPT ![w] = Idle]
     IN  /\ state' = [state EXCEPT ![w] = "INIT"]
         /\ type' = [type EXCEPT ![w] = j.kind]
         /\ domain' = [domain EXCEPT ![w] = j.domain]
         /\ job' = IF j.peer # None /\ job[j.peer] = Idle /\ state[j.peer] = "DISCOVERED"
                   THEN [next EXCEPT ![j.peer] = Task(j.peer, "ACCESS", None, j.ups)]
                   ELSE next
  /\ UNCHANGED <<cable, links, intf, synced, conf, pushing, tries, events, hist>>

StepTwo(d) ==
  /\ state[d] = "INIT"
  /\ state' = [state EXCEPT ![d] = "MANAGED"]
  /\ Mark({d})
  /\ UNCHANGED <<cable, links, intf, type, domain, conf, pushing, job, tries, events, hist>>

(***************************************************************************)
(* Operators.                                                              *)
(***************************************************************************)
Request == events < MaxEvents /\ events' = events + 1
Busy(d) == \E w \in New : job[w] # Idle /\ d \in {w, job[w].peer}

\* A cable is pulled at one end and plugged into a port that is free.
Recable(p, q) ==
  /\ Request
  /\ p \in DOMAIN cable /\ q \notin DOMAIN cable /\ q.dev # p.dev
  /\ cable' = [r \in (DOMAIN cable \ {cable[p]}) \cup {q} |->
                  IF r = p THEN q ELSE IF r = q THEN p ELSE cable[r]]
  /\ moved' = moved \cup ({p.dev, q.dev, cable[p].dev} \cap New)
  /\ UNCHANGED <<links, intf, state, type, domain, synced, conf, pushing, job, tries, missed, raced, crossed>>

PostLink(p, q) ==
  /\ Request /\ job[Api] = Idle
  /\ p.dev # q.dev /\ state[p.dev] # "GONE" /\ state[q.dev] # "GONE"
  /\ job' = [job EXCEPT ![Api] = [Task(p.dev, "POST", None, {}) EXCEPT !.at = "choose", !.pair = <<p, q>>]]
  /\ moved' = moved \cup ({p.dev, q.dev} \cap New)
  /\ UNCHANGED <<cable, links, intf, state, type, domain, synced, conf, pushing, tries, missed, raced, crossed>>

DeleteLink(l) ==
  /\ Request
  /\ links' = links \ {l}
  /\ Mark(Ends(l)) /\ missed' = missed \cup Overtaken(Ends(l))
  /\ UNCHANGED <<cable, intf, state, type, domain, conf, pushing, job, tries, raced, crossed, moved>>

\* Another port at one end; only the two keys of the table are checked.
PutLink(l, p) ==
  /\ Request /\ p.dev \in Ends(l)
  /\ LET new == IF p.dev = l.a.dev THEN [l EXCEPT !.a = p, !.hand = TRUE]
                                   ELSE [l EXCEPT !.b = p, !.hand = TRUE]
     IN  /\ new # l /\ Unique(new, links \ {l})
         /\ links' = (links \ {l}) \cup {new}
  /\ Mark(Ends(l)) /\ missed' = missed \cup Overtaken(Ends(l))
  /\ moved' = moved \cup (Ends(l) \cap New)
  /\ UNCHANGED <<cable, intf, state, type, domain, conf, pushing, job, tries, raced, crossed>>

PutInterface(p, kind) ==
  /\ Request /\ intf[p] \notin {"none", kind}
  /\ intf' = [intf EXCEPT ![p] = kind]
  /\ Mark({p.dev}) /\ missed' = missed \cup Overtaken({p.dev})
  /\ UNCHANGED <<cable, links, state, type, domain, conf, pushing, job, tries, raced, crossed, moved>>

\* From the links of the database: a pair's own links look like uplinks.
Rescan(p) ==
  IF \E l \in links : \E q \in {l.a, l.b} : p \in {l.a, l.b} \ {q} /\ type[q.dev] \in {"DIST", "ACCESS"}
  THEN "UPLINK" ELSE "AUTO"
UpdateInterfaces(d, replace) ==
  /\ Request /\ state[d] = "MANAGED" /\ type[d] = "ACCESS"
  /\ LET new == {p \in PortsOf(d) : replace \/ intf[p] = "none"} IN
     /\ intf' = [p \in Ports |-> IF p \in new THEN Rescan(p) ELSE intf[p]]
     /\ IF new = {} THEN UNCHANGED <<synced, missed>>
        ELSE Mark({d}) /\ missed' = missed \cup Overtaken({d})
  /\ UNCHANGED <<cable, links, state, type, domain, conf, pushing, job, tries, raced, crossed, moved>>

\* Nothing new is found, so nobody is told.
DeleteInterfaces(d) ==
  /\ Request /\ state[d] = "MANAGED" /\ type[d] = "ACCESS"
  /\ intf' = [p \in Ports |-> IF p.dev = d THEN "none" ELSE intf[p]]
  /\ missed' = missed \cup {d}
  /\ UNCHANGED <<cable, links, state, type, domain, synced, conf, pushing, job, tries, raced, crossed, moved>>

DeleteDevice(d) ==
  /\ Request /\ state[d] # "GONE" /\ ~Busy(d) /\ pushing[d] = None
  /\ LET told == UNION {Ends(l) : l \in LinksAt(d)} IN
     Mark(told \cup {d}) /\ missed' = (missed \cup Overtaken(told)) \ {d}
  /\ links' = links \ LinksAt(d)
  /\ intf' = [p \in Ports |-> IF p.dev = d THEN "none" ELSE intf[p]]
  /\ state' = [state EXCEPT ![d] = "GONE"]
  /\ UNCHANGED <<cable, type, domain, conf, pushing, job, tries, raced, crossed, moved>>

StepOne(w) ==
  \/ ReadNeighbours(w) \/ LinkLookup(w) \/ LinkChoose(w) \/ LinkAdd(w) \/ LinksDone(w)
  \/ ChooseDomain(w) \/ StepOneFails(w) \/ PushRollback(w) \/ PushDone(w)

Operator ==
  \/ \E p, q \in Handled : Recable(p, q) \/ PostLink(p, q)
  \/ \E l \in links : DeleteLink(l) \/ \E p \in Handled : PutLink(l, p)
  \/ \E p \in Handled, kind \in {"AUTO", "DOWNLINK", "SINGLE"} : PutInterface(p, kind)
  \/ \E d \in New : \/ \E replace \in BOOLEAN : UpdateInterfaces(d, replace)
                     \/ DeleteInterfaces(d) \/ DeleteDevice(d)

Next ==
  \/ \E d \in New : \/ \E peer \in New \cup {None} : AccessCheck(d, peer)
                     \/ \E lt \in Fabric, named \in Named : FabricCheck(d, lt, named)
                     \/ StepTwo(d)
  \/ \E w \in Workers : StepOne(w)
  \/ \E d \in Syncing : SyncRender(d) \/ SyncEnd(d)
  \/ Operator

Spec == Init /\ [][Next]_vars

(***************************************************************************)
(* Properties.                                                             *)
(***************************************************************************)
\* A port is the end of one link at most, through every update, but for links
\* that were given by hand or made at the same time: the update looks at both
\* ports and both ends, the table only has a key for each end (update_linknets).
PortOnce ==
  \A k, l \in links : k # l => \A p \in {k.a, k.b} \cap {l.a, l.b} :
    k.hand \/ l.hand \/ p \in crossed

\* Two links share a network only if it was chosen for both before either was
\* stored (find_free_infra_linknet).
NetOnce == \A k, l \in links : (k # l /\ k.net = l.net /\ k.net # 0) => k.net \in raced

\* A managed switch that is shown as synchronized runs what its links and
\* interfaces say, but for the changes that nobody is told of: a link replaced
\* or rolled back, interfaces deleted, a change while a sync was running.
SyncedIsGenerated ==
  \A d \in Devices : (state[d] = "MANAGED" /\ synced[d] /\ d \notin missed) => conf[d] = Wanted(d)

\* The management domain of an access switch serves the switches at the other
\* end of its links, unless cables or links were moved by hand: it is chosen
\* from the interfaces that were stored before the links were (find_mgmtdomain).
DomainFits ==
  \A l \in links : \A d \in Ends(l) \cap New : \A u \in Ends(l) \cap Fixed :
    (domain[d] # None /\ d \notin moved /\ type[u] = "DIST")
      => u \in domain[d] \/ domain[d] \in CoreDomains

=============================================================================
