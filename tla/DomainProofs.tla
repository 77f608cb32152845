---------------------------- MODULE DomainProofs ----------------------------
(***************************************************************************)
(* The theorem about the management domains of Topology, for any switches, *)
(* cabling, settings, domains and numbers of requests.                     *)
(***************************************************************************)
EXTENDS TopologyProofs

(***************************************************************************)
(* The domain of a switch serves the switches above it.                    *)
(***************************************************************************)
\* Two ports are joined by a cable, as long as nobody has moved the switches
\* that are initialised.
Joined(p, q) == p \in DOMAIN cable /\ cable[p] = q
Straight(p, q) == {p.dev, q.dev} \cap (New \ moved) # {} => Joined(p, q)

\* The distribution switches that a switch is cabled to.
Above(d) == {u \in Fixed : Types[u] = "DIST" /\ \E p \in PortsOf(d) \cap DOMAIN cable : cable[p].dev = u}
ServedByCore == {m \in Domains : \E u \in m : Types[u] = "CORE"}
Serves(m, d) == \A u \in Above(d) : u \in m \/ m \in ServedByCore
DomainFor(m, d) == (m # None /\ d \in New \ moved) => Serves(m, d)

\* A job only makes links that are cabled, has all the switches above among
\* the ends of its uplinks, and a domain that serves them once it has one.
Pairs(j) == j.todo \cup ({j.pair} \ {<<>>})
UpsKnown(j, d) == d \in New \ moved => Above(d) \subseteq {u[2] : u \in j.ups}
JobFits(j, w) ==
  j # Idle => /\ \A n \in Pairs(j) : Straight(n[1], n[2])
              /\ j.kind = "ACCESS" => UpsKnown(j, w) /\ UpsKnown(j, j.peer)
              /\ j.at = "domain" \/ j.peer # None => j.kind = "ACCESS"
              /\ DomainFor(j.domain, w)

FixedKept == \A u \in Fixed : type[u] = Types[u] /\ state[u] = "MANAGED"
LinksFit == \A l \in links : Straight(l.a, l.b)
JobsFit == \A w \in Workers : JobFits(job[w], w)
DomainsKept == \A d \in New : DomainFor(domain[d], d)
FitInv == FixedKept /\ LinksFit /\ JobsFit /\ DomainsKept

LEMMA FitInit == Init => FitInv
<1> SUFFICES ASSUME Init PROVE FitInv
  OBVIOUS
<1>1. FixedKept
  BY SwitchesAssumption DEF Init, FixedKept, Devices
<1>2. LinksFit /\ JobsFit /\ DomainsKept
  BY DEF Init, LinksFit, JobsFit, JobFits, DomainsKept, DomainFor, Devices
<1> QED BY <1>1, <1>2 DEF FitInv

\* The domains of core switches are those that the types tell.
LEMMA CoresKnown ==
  ASSUME FixedKept
  PROVE  CoreDomains = ServedByCore
BY DomainsAssumption DEF FixedKept, CoreDomains, ServedByCore

\* A link of a switch that is not moved joins it to a switch above.
LEMMA FitImplies == TypeInv /\ FitInv => DomainFits
<1> SUFFICES ASSUME TypeInv, FitInv,
                    NEW l \in links, NEW d \in Ends(l) \cap New, NEW u \in Ends(l) \cap Fixed,
                    domain[d] # None, d \notin moved, type[u] = "DIST"
             PROVE  u \in domain[d] \/ domain[d] \in CoreDomains
  BY DEF DomainFits
<1> USE DEF FitInv
<1>1. l.a \in Ports /\ l.b \in Ports /\ d \in {l.a.dev, l.b.dev} /\ u \in {l.a.dev, l.b.dev} /\ d # u
  BY SwitchesAssumption DEF TypeInv, DataTyped, Link, Ends
<1>2. Joined(l.a, l.b)
  BY <1>1 DEF LinksFit, Straight
<1>3. l.b \in DOMAIN cable /\ cable[l.b] = l.a
  BY <1>2 DEF Joined, TypeInv, Cabled
<1>4. \E p \in PortsOf(d) \cap DOMAIN cable : cable[p].dev = u
  <2>1. CASE l.a.dev = d
    BY <1>1, <1>2, <2>1 DEF PortsOf, Joined
  <2>2. CASE l.b.dev = d
    BY <1>1, <1>3, <2>2 DEF PortsOf
  <2> QED BY <1>1, <2>1, <2>2
<1>5. u \in Above(d)
  BY <1>4 DEF Above, FixedKept
<1>6. Serves(domain[d], d)
  BY DEF DomainsKept, DomainFor
<1> QED BY <1>5, <1>6, CoresKnown DEF Serves

-----------------------------------------------------------------------------
(* What cables tell stays true of the switches that stay unmoved. *)
Ground ==
  /\ moved \subseteq moved'
  /\ \A p, q : (Joined(p, q) /\ {p.dev, q.dev} \cap (New \ moved') # {}) => Joined(p, q)'
  /\ \A d \in New \ moved' : Above(d)' \subseteq Above(d)

LEMMA SameGround ==
  ASSUME cable' = cable, moved \subseteq moved'
  PROVE  Ground
<1>1. \A p, q : Joined(p, q) => Joined(p, q)'
  BY DEF Joined
<1>2. \A d : Above(d)' = Above(d)
  BY DEF Above
<1> QED BY <1>1, <1>2 DEF Ground

LEMMA RecableGround ==
  ASSUME TypeInv, NEW p, NEW q, Recable(p, q)
  PROVE  Ground
<1> DEFINE c == [r \in (DOMAIN cable \ {cable[p]}) \cup {q} |->
                   IF r = p THEN q ELSE IF r = q THEN p ELSE cable[r]]
<1>1. /\ p \in DOMAIN cable /\ q \notin DOMAIN cable /\ cable' = c
      /\ moved' = moved \cup ({p.dev, q.dev, cable[p].dev} \cap New)
  BY DEF Recable
<1>2. \A r : r.dev \in New \ moved' => r \notin {p, q, cable[p]}
  BY <1>1
<1>3. \A r \in DOMAIN cable \ {p, q, cable[p]} : r \in DOMAIN c /\ c[r] = cable[r]
  OBVIOUS
<1>4. \A r \in DOMAIN c : r \in {p, q} \/ (r \in DOMAIN cable /\ c[r] = cable[r])
  OBVIOUS
<1>5. ASSUME NEW x, NEW y, Joined(x, y), {x.dev, y.dev} \cap (New \ moved') # {}
      PROVE  Joined(x, y)'
  <2>1. x \in DOMAIN cable /\ cable[x] = y /\ cable[y] = x
    BY <1>5 DEF Joined, TypeInv, Cabled
  <2>2. x \notin {p, q, cable[p]}
    <3>1. CASE x.dev \in New \ moved'
      BY <1>2, <3>1
    <3>2. CASE y.dev \in New \ moved'
      <4>1. y \notin {p, q, cable[p]}
        BY <1>2, <3>2
      <4>2. cable[cable[p]] = p
        BY <1>1 DEF TypeInv, Cabled
      <4> QED BY <1>1, <2>1, <4>1, <4>2
    <3> QED BY <1>5, <3>1, <3>2
  <2> QED BY <1>1, <1>3, <2>1, <2>2 DEF Joined
<1>6. ASSUME NEW d \in New \ moved'
      PROVE  Above(d)' \subseteq Above(d)
  <2> SUFFICES ASSUME NEW r \in PortsOf(d), r \in DOMAIN c
               PROVE  r \in DOMAIN cable /\ c[r] = cable[r]
    BY <1>1 DEF Above, PortsOf
  <2>1. r.dev = d
    BY DEF PortsOf
  <2> QED BY <1>2, <1>4, <1>6, <2>1
<1> QED BY <1>1, <1>5, <1>6 DEF Ground

LEMMA StraightStays ==
  ASSUME Ground, NEW p, NEW q, Straight(p, q)
  PROVE  Straight(p, q)'
BY DEF Ground, Straight

LEMMA DomainStays ==
  ASSUME Ground, NEW m, NEW d, DomainFor(m, d)
  PROVE  DomainFor(m, d)'
BY DEF Ground, DomainFor, Serves, ServedByCore

LEMMA JobStays ==
  ASSUME Ground, NEW j, NEW w, JobFits(j, w)
  PROVE  JobFits(j, w)'
<1> SUFFICES ASSUME j # Idle PROVE JobFits(j, w)'
  BY DEF JobFits
<1>1. \A n \in Pairs(j) : Straight(n[1], n[2])'
  BY StraightStays DEF JobFits
<1>2. \A d : UpsKnown(j, d) => UpsKnown(j, d)'
  BY DEF UpsKnown, Ground
<1>3. DomainFor(j.domain, w)'
  BY DomainStays DEF JobFits
<1>4. Pairs(j)' = Pairs(j)
  BY DEF Pairs
<1> QED BY <1>1, <1>2, <1>3, <1>4 DEF JobFits

\* A step keeps what fits when its new links and jobs fit before it.
LEMMA FitKept ==
  ASSUME FitInv, Ground, UNCHANGED domain,
         \A u \in Fixed : type'[u] = type[u] /\ state'[u] = state[u],
         \A l \in links' : l \in links \/ Straight(l.a, l.b) \/ Straight(l.a, l.b)',
         \A w \in Workers : JobFits(job'[w], w) \/ (JobFits(job[w], w))'
  PROVE  FitInv'
<1> USE DEF FitInv
<1>1. FixedKept'
  BY DEF FixedKept
<1>2. LinksFit'
  BY StraightStays DEF LinksFit
<1>3. JobsFit'
  BY JobStays DEF JobsFit
<1>4. DomainsKept'
  BY DomainStays DEF DomainsKept
<1> QED BY <1>1, <1>2, <1>3, <1>4

-----------------------------------------------------------------------------
(* What a job does to its links. *)
LEMMA OneJobFits ==
  ASSUME TypeInv, FitInv, NEW w \in Workers, NEW x, JobFits(x, w), job' = [job EXCEPT ![w] = x]
  PROVE  \A v \in Workers : JobFits(job'[v], v)
<1>1. \A v \in Workers : job'[v] = IF v = w THEN x ELSE job[v]
  BY DEF TypeInv, JobShape
<1> QED BY <1>1 DEF FitInv, JobsFit

LEMMA FieldsFit ==
  ASSUME NEW j, NEW x, NEW w, JobFits(j, w), j # Idle,
         x.kind = j.kind, x.ups = j.ups, x.peer = j.peer, x.domain = j.domain,
         x.at = "domain" => x.kind = "ACCESS",
         \A n \in Pairs(x) : n \in Pairs(j) \/ Straight(n[1], n[2])
  PROVE  JobFits(x, w)
BY DEF JobFits, UpsKnown

LEMMA IdleFits ==
  ASSUME NEW w
  PROVE  JobFits(Idle, w)
BY DEF JobFits

\* The neighbours that are read are joined.
LEMMA NeighboursJoined ==
  ASSUME NEW d, NEW peer, NEW n \in Neighbours(d, peer)
  PROVE  n[1].dev = d /\ Joined(n[1], n[2])
BY DEF Neighbours, PortsOf, Joined

LEMMA ReadFits ==
  ASSUME TypeInv, FitInv, NEW w \in Workers, ReadNeighbours(w)
  PROVE  FitInv'
<1> DEFINE x == [job[w] EXCEPT !.at = "links",
                   !.todo = Neighbours(job[w].who, IF job[w].who = w THEN job[w].peer ELSE None)]
<1>1. job[w] \in Tasks /\ job[w].at = "read" /\ job[w].pair = <<>> /\ job[w] # Idle
  <2>1. At(w, "read")
    BY DEF ReadNeighbours
  <2>2. job[w] \in Tasks /\ job[w].at = "read" /\ job[w].pair = <<>>
    BY <2>1, JobTyped DEF TypeInv
  <2> QED BY <2>2, TaskFields
<1>2. job' = [job EXCEPT ![w] = x] /\ JobFits(job[w], w)
  BY DEF ReadNeighbours, FitInv, JobsFit
<1>3. /\ x.kind = job[w].kind /\ x.ups = job[w].ups /\ x.peer = job[w].peer /\ x.domain = job[w].domain
      /\ x.at = "links" /\ x.pair = <<>>
      /\ x.todo = Neighbours(job[w].who, IF job[w].who = w THEN job[w].peer ELSE None)
  BY <1>1 DEF Tasks
<1> HIDE DEF x
<1>4. \A n \in Pairs(x) : Straight(n[1], n[2])
  BY <1>3, NeighboursJoined DEF Pairs, Straight
<1>5. JobFits(x, w)
  BY <1>1, <1>2, <1>3, <1>4, FieldsFit
<1>6. \A v \in Workers : JobFits(job'[v], v)
  BY <1>2, <1>5, OneJobFits
<1> QED BY <1>6, FitKept, SameGround DEF ReadNeighbours, hist

LEMMA LookupFits ==
  ASSUME TypeInv, FitInv, NEW w \in Workers, LinkLookup(w)
  PROVE  FitInv'
<1>1. PICK n \in job[w].todo :
        \/ Fail(w) /\ UNCHANGED links
        \/ \E same \in BOOLEAN :
             /\ job' = [job EXCEPT ![w].todo = @ \ {n}, ![w].at = IF same THEN "links" ELSE "choose",
                                   ![w].pair = IF same THEN <<>> ELSE n]
             /\ links' \subseteq links
  BY DEF LinkLookup
<1>2. UNCHANGED <<cable, domain, type, state, moved>>
  BY DEF LinkLookup
<1>3. job[w] \in Tasks /\ job[w] # Idle /\ JobFits(job[w], w)
  BY JobTyped, TaskFields DEF LinkLookup, TypeInv, FitInv, JobsFit
<1>4. CASE Fail(w) /\ UNCHANGED links
  <2>1. \A v \in Workers : JobFits(job'[v], v)
    BY <1>4, OneJobFits, IdleFits DEF Fail
  <2> QED BY <1>2, <1>4, <2>1, FitKept, SameGround
<1>5. ASSUME NEW same \in BOOLEAN, links' \subseteq links,
             job' = [job EXCEPT ![w].todo = @ \ {n}, ![w].at = IF same THEN "links" ELSE "choose",
                                ![w].pair = IF same THEN <<>> ELSE n]
      PROVE  FitInv'
  <2> DEFINE x == [job[w] EXCEPT !.todo = @ \ {n}, !.at = IF same THEN "links" ELSE "choose",
                                 !.pair = IF same THEN <<>> ELSE n]
  <2>1. job' = [job EXCEPT ![w] = x]
    BY <1>5
  <2>2. /\ x.kind = job[w].kind /\ x.ups = job[w].ups /\ x.peer = job[w].peer /\ x.domain = job[w].domain
        /\ x.at \in {"links", "choose"} /\ x.pair \in {<<>>, n} /\ x.todo \subseteq job[w].todo
    BY <1>3 DEF Tasks
  <2> HIDE DEF x
  <2>3. Pairs(x) \subseteq Pairs(job[w])
    BY <2>2 DEF Pairs
  <2>4. JobFits(x, w)
    BY <1>3, <2>2, <2>3, FieldsFit
  <2>5. \A v \in Workers : JobFits(job'[v], v)
    BY <2>1, <2>4, OneJobFits
  <2> QED BY <1>2, <1>5, <2>5, FitKept, SameGround
<1> QED BY <1>1, <1>4, <1>5

LEMMA ChooseFits ==
  ASSUME TypeInv, FitInv, NEW w \in Workers, LinkChoose(w)
  PROVE  FitInv'
<1> DEFINE x(net) == [job[w] EXCEPT !.at = "add", !.net = net]
<1>1. Fail(w) \/ \E net \in Nets \cup {0} : job' = [job EXCEPT ![w] = x(net)]
  <2> DEFINE fabric == \A p \in {job[w].pair[1], job[w].pair[2]} : TypeOf(w, p.dev) \in Fabric
  <2>1. PICK net \in IF ~fabric THEN {0}
                     ELSE IF FreeNets = {} THEN {0}
                     ELSE {m \in FreeNets : \A k \in FreeNets : m <= k} :
          IF w = Api /\ fabric /\ net = 0
          THEN Fail(w)
          ELSE job' = [job EXCEPT ![w].at = "add", ![w].net = net]
    BY DEF LinkChoose
  <2> HIDE DEF fabric
  <2> QED BY <2>1 DEF FreeNets
<1>2. UNCHANGED <<cable, links, domain, type, state, moved>>
  BY DEF LinkChoose
<1>3. job[w] \in Tasks /\ job[w] # Idle /\ JobFits(job[w], w)
  BY JobTyped, TaskFields DEF LinkChoose, TypeInv, FitInv, JobsFit
<1>4. \A net : /\ x(net).kind = job[w].kind /\ x(net).ups = job[w].ups /\ x(net).peer = job[w].peer
               /\ x(net).domain = job[w].domain /\ x(net).at = "add"
               /\ x(net).pair = job[w].pair /\ x(net).todo = job[w].todo
  BY <1>3 DEF Tasks
<1> HIDE DEF x
<1>5. \A net : JobFits(x(net), w)
  BY <1>3, <1>4, FieldsFit DEF Pairs
<1>6. \A v \in Workers : JobFits(job'[v], v)
  BY <1>1, <1>5, OneJobFits, IdleFits DEF Fail
<1> QED BY <1>2, <1>6, FitKept, SameGround

LEMMA AddFits ==
  ASSUME TypeInv, FitInv, NEW w \in Workers, LinkAdd(w)
  PROVE  FitInv'
<1> DEFINE l == [a |-> job[w].pair[1], b |-> job[w].pair[2], net |-> job[w].net, hand |-> w = Api]
           x == [job[w] EXCEPT !.at = "links", !.pair = <<>>, !.net = 0]
<1>1. links' \subseteq links \cup {l} /\ (Fail(w) \/ job' = [job EXCEPT ![w] = x])
  BY DEF LinkAdd
<1>2. UNCHANGED <<cable, domain, type, state, moved>>
  BY DEF LinkAdd
<1>3. job[w] \in Tasks /\ job[w] # Idle /\ JobFits(job[w], w) /\ job[w].pair # <<>>
  BY JobTyped, TaskFields DEF LinkAdd, TypeInv, FitInv, JobsFit
<1>4. /\ x.kind = job[w].kind /\ x.ups = job[w].ups /\ x.peer = job[w].peer
      /\ x.domain = job[w].domain /\ x.at = "links" /\ x.pair = <<>> /\ x.todo = job[w].todo
  BY <1>3 DEF Tasks
<1>5. Straight(l.a, l.b)
  BY <1>3 DEF JobFits, Pairs
<1> HIDE DEF x, l
<1>6. JobFits(x, w)
  BY <1>3, <1>4, FieldsFit DEF Pairs
<1>7. \A v \in Workers : JobFits(job'[v], v)
  BY <1>1, <1>6, OneJobFits, IdleFits DEF Fail
<1> QED BY <1>1, <1>2, <1>5, <1>7, FitKept, SameGround

LEMMA EndsFit ==
  ASSUME TypeInv, FitInv, NEW w \in Workers, LinksDone(w) \/ StepOneFails(w) \/ PushRollback(w)
  PROVE  FitInv'
<1>1. UNCHANGED <<cable, domain, type, state, moved>> /\ links' \subseteq links
  BY DEF LinksDone, StepOneFails, PushRollback, hist
<1>2. \A v \in Workers : JobFits(job'[v], v)
  <2>1. CASE LinksDone(w)
    <3> DEFINE x == [job[w] EXCEPT !.who = job[w].peer, !.at = "read"]
               y == [job[w] EXCEPT !.at = IF job[w].kind = "ACCESS" THEN "domain" ELSE "push"]
    <3>1. job' = [job EXCEPT ![w] = y] \/ job' = [job EXCEPT ![w] = x]
      BY <2>1 DEF LinksDone, Go
    <3>2. job[w] \in Tasks /\ job[w] # Idle /\ JobFits(job[w], w)
      BY <2>1, JobTyped, TaskFields DEF LinksDone, TypeInv, FitInv, JobsFit
    <3>3. /\ x.kind = job[w].kind /\ x.ups = job[w].ups /\ x.peer = job[w].peer
          /\ x.domain = job[w].domain /\ x.at = "read" /\ x.pair = job[w].pair /\ x.todo = job[w].todo
      BY <3>2 DEF Tasks
    <3>4. /\ y.kind = job[w].kind /\ y.ups = job[w].ups /\ y.peer = job[w].peer
          /\ y.domain = job[w].domain /\ (y.at = "domain" => y.kind = "ACCESS")
          /\ y.pair = job[w].pair /\ y.todo = job[w].todo
      BY <3>2 DEF Tasks
    <3> HIDE DEF x, y
    <3>5. JobFits(x, w) /\ JobFits(y, w)
      BY <3>2, <3>3, <3>4, FieldsFit DEF Pairs
    <3> QED BY <3>1, <3>5, OneJobFits
  <2>2. CASE StepOneFails(w) \/ PushRollback(w)
    BY <2>2, OneJobFits, IdleFits DEF StepOneFails, PushRollback, Fail
  <2> QED BY <2>1, <2>2
<1> QED BY <1>1, <1>2, FitKept, SameGround

-----------------------------------------------------------------------------
(* What a job does to its domain. *)
\* The domain that is found for switches serves every distribution switch
\* among them, or is one of core switches.
LEMMA FoundServes ==
  ASSUME FixedKept, NEW ups, IsFiniteSet(ups),
         NEW m \in FindMgmtdomain(Cardinality(ups), {x[2] : x \in ups}) \ {None},
         NEW u \in {x[2] : x \in ups} \cap Fixed, Types[u] = "DIST"
  PROVE  u \in m \/ m \in ServedByCore
<1> DEFINE n == Cardinality(ups)
           up == {x[2] : x \in ups}
<1>1. type[u] = "DIST" /\ u \in up
  BY DEF FixedKept
<1>2. CASE n = 1
  <2>1. PICK x : ups = {x}
    BY <1>2, FS_Singleton
  <2>2. up = {u}
    BY <2>1
  <2>3. FindMgmtdomain(n, up) = AnyOfPair({u})
    <3> HIDE DEF up, n
    <3> QED BY <1>1, <1>2, <2>2 DEF FindMgmtdomain
  <2> QED BY <2>3 DEF AnyOfPair
<1>3. CASE n = 2 /\ \A d \in up : type[d] = "DIST"
  <2>1. FindMgmtdomain(n, up) \in {PairDomains(up), {None}, CoreDomains, {}}
    <3> HIDE DEF up, n
    <3>1. n # 1 /\ ~(\A d \in up : type[d] = "ACCESS")
      BY <1>1, <1>3
    <3> QED BY <1>3, <3>1 DEF FindMgmtdomain
  <2> QED BY <1>1, <2>1, CoresKnown DEF PairDomains
<1>4. CASE n # 1 /\ ~(n = 2 /\ \A d \in up : type[d] = "DIST")
  <2>1. FindMgmtdomain(n, up) = {}
    <3> HIDE DEF up, n
    <3>1. ~(\A d \in up : type[d] = "ACCESS")
      BY <1>1
    <3> QED BY <1>4, <3>1 DEF FindMgmtdomain
  <2> QED BY <2>1
<1> QED BY <1>2, <1>3, <1>4

LEMMA UpsFinite ==
  ASSUME NEW ups \in SUBSET (Ports \X Devices)
  PROVE  IsFiniteSet(ups)
<1>1. IsFiniteSet(Ports \X Devices)
  BY FiniteAssumption, FS_Product
<1> QED BY <1>1, FS_Subset

LEMMA DomainChosenFits ==
  ASSUME TypeInv, FitInv, NEW w \in Workers, ChooseDomain(w)
  PROVE  FitInv'
<1> DEFINE ups == job[w].ups
           found == FindMgmtdomain(Cardinality(ups), {u[2] : u \in ups}) \ {None}
           x(m) == [job[w] EXCEPT !.at = "push", !.domain = m]
<1>1. At(w, "domain") /\ UNCHANGED <<cable, links, domain, type, state, moved>>
  BY DEF ChooseDomain, hist
<1>2. Fail(w) \/ \E m \in found : job' = [job EXCEPT ![w] = x(m)]
  BY DEF ChooseDomain
<1>3. job[w] \in Tasks /\ job[w] # Idle /\ JobFits(job[w], w) /\ job[w].at = "domain"
  BY <1>1, JobTyped, TaskFields DEF TypeInv, FitInv, JobsFit
<1>4. UpsKnown(job[w], w) /\ UpsKnown(job[w], job[w].peer) /\ \A n \in Pairs(job[w]) : Straight(n[1], n[2])
  BY <1>3 DEF JobFits
<1>5. IsFiniteSet(ups)
  BY <1>3, UpsFinite DEF Tasks
<1>6. ASSUME NEW m \in found
      PROVE  JobFits(x(m), w)
  <2>5. job[w].peer # None => job[w].kind = "ACCESS"
    BY <1>3 DEF JobFits
  <2>1. /\ x(m).kind = job[w].kind /\ x(m).ups = job[w].ups /\ x(m).peer = job[w].peer
        /\ x(m).domain = m /\ x(m).at = "push" /\ x(m).pair = job[w].pair /\ x(m).todo = job[w].todo
    BY <1>3 DEF Tasks
  <2>2. DomainFor(m, w)
    <3> SUFFICES ASSUME w \in New \ moved, NEW u \in Above(w)
                 PROVE  u \in m \/ m \in ServedByCore
      BY DEF DomainFor, Serves
    <3>1. u \in {z[2] : z \in ups} /\ u \in Fixed /\ Types[u] = "DIST"
      BY <1>4 DEF UpsKnown, Above
    <3> HIDE DEF ups
    <3> QED BY <3>1, <1>5, FoundServes DEF FitInv
  <2> HIDE DEF x
  <2>3. Pairs(x(m)) = Pairs(job[w])
    BY <2>1 DEF Pairs
  <2>4. \A d : UpsKnown(job[w], d) => UpsKnown(x(m), d)
    BY <2>1 DEF UpsKnown
  <2> QED BY <1>3, <1>4, <2>1, <2>2, <2>3, <2>4, <2>5 DEF JobFits
<1> HIDE DEF x, found, ups
<1>7. \A v \in Workers : JobFits(job'[v], v)
  BY <1>2, <1>6, OneJobFits, IdleFits DEF Fail
<1> QED BY <1>1, <1>7, FitKept, SameGround

\* The switch gets the domain of its job, and the other one of a pair its uplinks.
LEMMA DoneFits ==
  ASSUME TypeInv, FitInv, NEW w \in Workers, PushDone(w)
  PROVE  FitInv'
<1> DEFINE p == job[w].peer
           next == [job EXCEPT ![w] = Idle]
           x == Task(p, "ACCESS", None, job[w].ups)
<1>1. At(w, "push") /\ UNCHANGED <<cable, links, moved>>
  BY DEF PushDone, hist
<1>2. job[w] \in Tasks /\ job[w] # Idle /\ w \in New /\ JobFits(job[w], w)
  <2>1. job[w] \in Tasks /\ w # Api /\ JobFits(job[w], w)
    BY <1>1, JobTyped DEF TypeInv, FitInv, JobsFit
  <2> QED BY <2>1, TaskFields DEF Workers
<1>3. Ground
  BY <1>1, SameGround
<1>4. FixedKept'
  <2>1. type' = [type EXCEPT ![w] = job[w].kind] /\ state' = [state EXCEPT ![w] = "INIT"]
    BY DEF PushDone
  <2> QED BY <1>2, <2>1, SwitchesAssumption DEF FitInv, FixedKept, TypeInv, DataTyped, Devices
<1>5. LinksFit'
  BY <1>1, <1>3, StraightStays DEF FitInv, LinksFit
<1>6. DomainsKept'
  <2>1. domain' = [domain EXCEPT ![w] = job[w].domain]
    BY DEF PushDone
  <2>2. \A d \in New : DomainFor(domain'[d], d)
    BY <1>2, <2>1 DEF FitInv, DomainsKept, JobFits, TypeInv, DataTyped, Devices
  <2> QED BY <1>3, <2>2, DomainStays DEF DomainsKept
<1>7. JobsFit'
  <2>1. /\ x.todo = {} /\ x.pair = <<>> /\ x.domain = None /\ x.at = "read"
        /\ x.peer = None /\ x.ups = job[w].ups
    BY DEF Task
  <2>2. CASE job' = next
    <3>1. \A v \in Workers : JobFits(job'[v], v)
      BY <2>2, OneJobFits, IdleFits
    <3> QED BY <1>3, <3>1, JobStays DEF JobsFit
  <2>3. CASE p # None /\ job[p] = Idle /\ state[p] = "DISCOVERED" /\ job' = [next EXCEPT ![p] = x]
    <3>1. p \in Workers
      BY <1>2, <2>3 DEF Tasks, Workers
    <3>2. UpsKnown(job[w], p)
      BY <1>2, <2>3 DEF JobFits
    <3>3. JobFits(x, p)
      <4>1. UpsKnown(x, p) /\ x.kind = "ACCESS" /\ Pairs(x) = {}
        BY <2>1, <3>2 DEF UpsKnown, Pairs, Task
      <4>2. UpsKnown(x, None) /\ DomainFor(None, p)
        BY SwitchesAssumption DEF UpsKnown, DomainFor, Devices
      <4> HIDE DEF x, p
      <4> QED BY <2>1, <4>1, <4>2 DEF JobFits
    <3>4. \A v \in Workers : job'[v] = IF v = p THEN x ELSE IF v = w THEN Idle ELSE job[v]
      <4> HIDE DEF x, p
      <4> QED BY <2>3, <3>1 DEF TypeInv, JobShape
    <3>5. \A v \in Workers : JobFits(job'[v], v)
      <4> HIDE DEF x, p
      <4> QED BY <3>3, <3>4, IdleFits DEF FitInv, JobsFit
    <3> QED BY <1>3, <3>5, JobStays DEF JobsFit
  <2> QED BY <2>2, <2>3 DEF PushDone
<1> QED BY <1>4, <1>5, <1>6, <1>7 DEF FitInv

-----------------------------------------------------------------------------
(* What the checks read. *)
\* What is known of a port of a switch that is not moved is its cable, from the
\* links of the database as from the neighbours.
LEMMA KnownCabled ==
  ASSUME TypeInv, FitInv, NEW d, NEW peer, NEW k \in Known(d, peer),
         NEW p \in k.ends, p.dev \in New \ moved
  PROVE  p \in DOMAIN cable /\ k.ends = {p, cable[p]}
<1>1. ASSUME NEW x, NEW y, k.ends = {x, y}, Joined(x, y)
      PROVE  p \in DOMAIN cable /\ k.ends = {p, cable[p]}
  BY <1>1 DEF Joined, TypeInv, Cabled
<1> DEFINE near == LinksAt(d) \cup (IF peer = None THEN {} ELSE LinksAt(peer))
           seen == Neighbours(d, peer) \cup (IF peer = None THEN {} ELSE Neighbours(peer, d))
<1>2. near \subseteq links /\ \A n \in seen : Joined(n[1], n[2])
  BY NeighboursJoined DEF LinksAt
<1>3. \/ \E l \in near : k = [ends |-> {l.a, l.b}, redundant |-> TRUE]
      \/ \E n \in seen : k = [ends |-> {n[1], n[2]}, redundant |-> Redundant(n[1], type[n[2].dev], n[2])]
  BY DEF Known
<1>4. CASE \E l \in near : k = [ends |-> {l.a, l.b}, redundant |-> TRUE]
  <2>1. PICK l \in links : k.ends = {l.a, l.b}
    BY <1>2, <1>4
  <2>2. Joined(l.a, l.b)
    BY <2>1 DEF FitInv, LinksFit, Straight
  <2> QED BY <1>1, <2>1, <2>2
<1>5. CASE \E n \in seen : k = [ends |-> {n[1], n[2]}, redundant |-> Redundant(n[1], type[n[2].dev], n[2])]
  <2>1. PICK n \in seen : k.ends = {n[1], n[2]}
    BY <1>5
  <2> QED BY <1>1, <1>2, <2>1
<1> QED BY <1>3, <1>4, <1>5

\* Among the links that are known is each cable to a switch above.
KnownAt(d, peer, p) == \E k \in Known(d, peer) : k.ends = {p, cable[p]}

LEMMA AboveKnown ==
  ASSUME TypeInv, FitInv, NEW d \in New, NEW peer \in New \cup {None}, NEW e \in New,
         e = d \/ e = peer,
         NEW p \in PortsOf(e) \cap DOMAIN cable, cable[p].dev \in Fixed
  PROVE  KnownAt(d, peer, p)
<1> DEFINE near == LinksAt(d) \cup (IF peer = None THEN {} ELSE LinksAt(peer))
           stored == {[ends |-> {l.a, l.b}, redundant |-> TRUE] : l \in near}
           both == Neighbours(d, peer) \cup (IF peer = None THEN {} ELSE Neighbours(peer, d))
           seen == {[ends |-> {n[1], n[2]}, redundant |-> Redundant(n[1], type[n[2].dev], n[2])] : n \in both}
<1>1. state[cable[p].dev] = "MANAGED"
  BY DEF FitInv, FixedKept
<1>2. <<p, cable[p]>> \in Neighbours(e, d) /\ <<p, cable[p]>> \in Neighbours(e, peer)
  BY <1>1 DEF Neighbours
<1>3. <<p, cable[p]>> \in both
  BY <1>2, SwitchesAssumption DEF Devices
<1>4. \E k \in seen : k.ends = {p, cable[p]}
  <2> DEFINE n == <<p, cable[p]>>
  <2>1. [ends |-> {n[1], n[2]}, redundant |-> Redundant(n[1], type[n[2].dev], n[2])] \in seen
    <3> HIDE DEF both
    <3> QED BY <1>3
  <2> QED BY <2>1
<1>5. Known(d, peer) = stored \cup {k \in seen : \A s \in stored : s.ends # k.ends}
  BY DEF Known
<1> HIDE DEF stored, seen
<1> QED BY <1>4, <1>5 DEF KnownAt

LEMMA FarAbove ==
  ASSUME NEW d, NEW peer, NEW k, NEW p, NEW q, k.ends = {p, q}, p.dev \in {d, peer}, q.dev \notin {d, peer}
  PROVE  Far(k, d, peer) = q
<1> DEFINE own == {r \in k.ends : r.dev = d}
           near == IF own # {} THEN own ELSE {r \in k.ends : r.dev = peer}
<1>1. near = {p} /\ p # q
  <2>1. CASE p.dev = d
    <3>1. own = {p}
      BY <2>1
    <3> QED BY <3>1
  <2>2. CASE p.dev # d
    <3>1. own = {} /\ {r \in k.ends : r.dev = peer} = {p}
      BY <2>2
    <3> QED BY <3>1
  <2> QED BY <2>1, <2>2
<1>2. Far(k, d, peer) = CHOOSE r \in k.ends : r \notin near \/ k.ends = near
  BY DEF Far
<1> HIDE DEF near
<1>3. \A r \in k.ends : (r \notin near \/ k.ends = near) <=> r = q
  BY <1>1
<1> QED BY <1>2, <1>3

LEMMA UpsKnownAtFirst ==
  ASSUME TypeInv, FitInv, NEW d \in New, NEW peer \in New \cup {None}, NEW e \in {d, peer},
         e \in New \ moved, NEW u \in Above(e)
  PROVE  u \in {x[2] : x \in UplinkDevices(d, peer)}
<1>1. PICK p \in PortsOf(e) \cap DOMAIN cable : cable[p].dev = u
  BY DEF Above
<1> DEFINE q == cable[p]
           good == {k \in Uplinks(d, peer) : p \in k.ends}
           chosen == CHOOSE k \in Uplinks(d, peer) : p \in k.ends
<1>2. u \in Fixed /\ type[u] = "DIST" /\ u \notin {d, peer} /\ p \in Ports /\ p.dev = e
  BY SwitchesAssumption DEF Above, FitInv, FixedKept, PortsOf, Devices
<1>3. PICK k \in Known(d, peer) : k.ends = {p, q}
  <2>1. e \in New /\ (e = d \/ e = peer) /\ cable[p].dev \in Fixed
    BY <1>1, <1>2
  <2>2. KnownAt(d, peer, p)
    <3> HIDE DEF q, good, chosen
    <3> QED BY <2>1, AboveKnown
  <2> QED BY <2>2 DEF KnownAt
<1>4. \A m \in Known(d, peer) : p \in m.ends => m.ends = {p, q}
  BY <1>2, KnownCabled
<1>5. \A m : m.ends = {p, q} => Far(m, d, peer) = q
  BY <1>1, <1>2, FarAbove
<1>6. k \in Uplinks(d, peer)
  BY <1>1, <1>2, <1>3, <1>5 DEF Uplinks
<1>7. chosen \in Uplinks(d, peer) /\ p \in chosen.ends
  BY <1>3, <1>6
<1>8. Far(chosen, d, peer) = q
  BY <1>4, <1>5, <1>7 DEF Uplinks
<1>9. <<p, chosen>> \in UplinkPorts(d, peer)
  BY <1>2, <1>7 DEF UplinkPorts
<1>10. <<p, q.dev>> \in UplinkDevices(d, peer)
  <2> DEFINE v == <<p, chosen>>
  <2>1. v[1] = p /\ Far(v[2], d, peer).dev = q.dev
    BY <1>8
  <2>2. <<v[1], Far(v[2], d, peer).dev>> \in UplinkDevices(d, peer)
    BY <1>9 DEF UplinkDevices
  <2> QED BY <2>1, <2>2
<1> QED BY <1>1, <1>10

LEMMA ChecksFit ==
  ASSUME TypeInv, FitInv, NEW d \in New,
         \/ \E peer \in New \cup {None} : AccessCheck(d, peer)
         \/ \E lt \in Fabric, named \in Named : FabricCheck(d, lt, named)
  PROVE  FitInv'
<1>1. UNCHANGED <<cable, links, domain, moved, state>> /\ d \in Workers
  BY DEF AccessCheck, FabricCheck, hist, Workers
<1>2. \A u \in Fixed : type'[u] = type[u]
  BY SwitchesAssumption DEF AccessCheck, FabricCheck, TypeInv, DataTyped, Devices
<1>3. \/ UNCHANGED job
      \/ \E peer \in New \cup {None} : job' = [job EXCEPT ![d] = Task(d, "ACCESS", peer, UplinkDevices(d, peer))]
      \/ \E lt \in Fabric : job' = [job EXCEPT ![d] = Task(d, lt, None, {})]
  BY DEF AccessCheck, FabricCheck, Begin
<1>4. ASSUME NEW peer \in New \cup {None}
      PROVE  JobFits(Task(d, "ACCESS", peer, UplinkDevices(d, peer)), d)
  <2> DEFINE x == Task(d, "ACCESS", peer, UplinkDevices(d, peer))
  <2>1. /\ x.todo = {} /\ x.pair = <<>> /\ x.domain = None /\ x.at = "read" /\ x.kind = "ACCESS"
        /\ x.peer = peer /\ x.ups = UplinkDevices(d, peer)
    BY DEF Task
  <2> HIDE DEF x
  <2>2. \A e \in {d, peer} : UpsKnown(x, e)
    BY <2>1, UpsKnownAtFirst DEF UpsKnown
  <2>3. Pairs(x) = {}
    BY <2>1 DEF Pairs
  <2>4. UpsKnown(x, d) /\ UpsKnown(x, x.peer)
    BY <2>1, <2>2
  <2>5. DomainFor(x.domain, d)
    BY <2>1 DEF DomainFor
  <2>6. JobFits(x, d)
    BY <2>1, <2>3, <2>4, <2>5 DEF JobFits
  <2> QED BY <2>6 DEF x
<1>5. ASSUME NEW lt \in Fabric
      PROVE  JobFits(Task(d, lt, None, {}), d)
  BY DEF JobFits, Pairs, Task, DomainFor, Fabric
<1>6. \A v \in Workers : JobFits(job'[v], v)
  BY <1>1, <1>3, <1>4, <1>5, OneJobFits DEF FitInv, JobsFit
<1> QED BY <1>1, <1>2, <1>6, FitKept, SameGround

-----------------------------------------------------------------------------
(* What others do. *)
LEMMA OthersFit ==
  ASSUME TypeInv, FitInv, NEW d, NEW p, NEW q, NEW kind, NEW l, NEW replace,
         \/ SyncRender(d) \/ SyncEnd(d) \/ Recable(p, q) \/ DeleteLink(l) \/ PutInterface(p, kind)
         \/ UpdateInterfaces(d, replace) \/ DeleteInterfaces(d)
  PROVE  FitInv'
<1>1. UNCHANGED <<domain, state, type, job>> /\ links' \subseteq links
  BY DEF SyncRender, SyncEnd, Recable, DeleteLink, PutInterface, UpdateInterfaces, DeleteInterfaces
<1>2. Ground
  <2>1. CASE Recable(p, q)
    BY <2>1, RecableGround
  <2>2. CASE UNCHANGED <<cable, moved>>
    BY <2>2, SameGround
  <2> QED BY <2>1, <2>2 DEF SyncRender, SyncEnd, DeleteLink, PutInterface, UpdateInterfaces, DeleteInterfaces, hist
<1>3. \A v \in Workers : JobFits(job'[v], v)
  BY <1>1 DEF FitInv, JobsFit
<1> QED BY <1>1, <1>2, <1>3, FitKept

LEMMA DevicesFit ==
  ASSUME TypeInv, FitInv, NEW d \in New, StepTwo(d) \/ DeleteDevice(d)
  PROVE  FitInv'
<1>1. UNCHANGED <<cable, domain, type, job, moved>> /\ links' \subseteq links
  BY DEF StepTwo, DeleteDevice, hist
<1>2. \A u \in Fixed : state'[u] = state[u]
  BY SwitchesAssumption DEF StepTwo, DeleteDevice, TypeInv, DataTyped, Devices
<1>3. \A v \in Workers : JobFits(job'[v], v)
  BY <1>1 DEF FitInv, JobsFit
<1> QED BY <1>1, <1>2, <1>3, FitKept, SameGround

\* The switches at the ends of a link that is given by hand count as moved.
LEMMA PostFits ==
  ASSUME TypeInv, FitInv, NEW p \in Handled, NEW q \in Handled, PostLink(p, q)
  PROVE  FitInv'
<1> DEFINE x == [Task(p.dev, "POST", None, {}) EXCEPT !.at = "choose", !.pair = <<p, q>>]
<1>1. UNCHANGED <<cable, links, domain, state, type>> /\ job' = [job EXCEPT ![Api] = x] /\ Api \in Workers
      /\ moved' = moved \cup ({p.dev, q.dev} \cap New)
  BY DEF PostLink, Workers
<1>2. /\ x.todo = {} /\ x.pair = <<p, q>> /\ x.domain = None /\ x.at = "choose" /\ x.kind = "POST"
      /\ x.peer = None
  BY DEF Task
<1> HIDE DEF x
<1>3. Ground
  BY <1>1, SameGround
<1>4. JobFits(x, Api)'
  <2>1. \A n \in Pairs(x)' : Straight(n[1], n[2])'
    BY <1>1, <1>2 DEF Pairs, Straight
  <2> QED BY <1>2, <2>1 DEF JobFits, DomainFor
<1>5. \A v \in Workers : JobFits(job'[v], v) \/ (JobFits(job[v], v))'
  <2>1. \A v \in Workers : job'[v] = IF v = Api THEN x ELSE job[v]
    BY <1>1 DEF TypeInv, JobShape
  <2>2. (JobFits(job[Api], Api))'
    BY <1>1, <1>4, <2>1
  <2> QED BY <2>1, <2>2 DEF FitInv, JobsFit
<1> QED BY <1>1, <1>3, <1>5, FitKept

LEMMA PutFits ==
  ASSUME TypeInv, FitInv, NEW l \in links, NEW p \in Handled, PutLink(l, p)
  PROVE  FitInv'
<1>1. PICK new \in {[l EXCEPT !.a = p, !.hand = TRUE], [l EXCEPT !.b = p, !.hand = TRUE]} :
        /\ links' = (links \ {l}) \cup {new}
        /\ p.dev = l.a.dev => new = [l EXCEPT !.a = p, !.hand = TRUE]
        /\ p.dev # l.a.dev => new = [l EXCEPT !.b = p, !.hand = TRUE]
  BY DEF PutLink
<1>2. UNCHANGED <<cable, domain, state, type, job>> /\ moved' = moved \cup (Ends(l) \cap New) /\ p.dev \in Ends(l)
  BY DEF PutLink
<1>3. l \in Link
  BY DEF TypeInv, DataTyped
<1>4. new.a.dev \in Ends(l) /\ new.b.dev \in Ends(l)
  BY <1>1, <1>2, <1>3 DEF Link, Ends
<1>5. Straight(new.a, new.b)'
  BY <1>2, <1>4 DEF Straight
<1>6. \A v \in Workers : JobFits(job'[v], v)
  BY <1>2 DEF FitInv, JobsFit
<1>7. Ground
  BY <1>2, SameGround
<1> QED BY <1>1, <1>2, <1>5, <1>6, <1>7, FitKept

LEMMA FitStep == TypeInv /\ FitInv /\ [Next]_vars => FitInv'
<1> SUFFICES ASSUME TypeInv, FitInv, [Next]_vars PROVE FitInv'
  OBVIOUS
<1>1. ASSUME NEW d \in New, \/ \E peer \in New \cup {None} : AccessCheck(d, peer)
                             \/ \E lt \in Fabric, named \in Named : FabricCheck(d, lt, named)
      PROVE  FitInv'
  BY <1>1, ChecksFit
<1>2. ASSUME NEW w \in Workers, StepOne(w)
      PROVE  FitInv'
  BY <1>2, ReadFits, LookupFits, ChooseFits, AddFits, EndsFit, DomainChosenFits, DoneFits DEF StepOne
<1>3. CASE UNCHANGED vars
  <2>1. UNCHANGED <<cable, links, domain, state, type, job, moved>>
    BY <1>3 DEF vars, hist
  <2>2. \A v \in Workers : JobFits(job'[v], v)
    BY <2>1 DEF FitInv, JobsFit
  <2> QED BY <2>1, <2>2, FitKept, SameGround
<1>4. ASSUME NEW d \in Syncing, SyncRender(d) \/ SyncEnd(d)
      PROVE  FitInv'
  BY <1>4, OthersFit
<1>5. ASSUME NEW d \in New, StepTwo(d)
      PROVE  FitInv'
  BY <1>5, DevicesFit
<1>6. CASE Operator
  <2>1. CASE \E p, q \in Handled : Recable(p, q) \/ PostLink(p, q)
    BY <2>1, OthersFit, PostFits
  <2>2. CASE \E l \in links : DeleteLink(l) \/ \E p \in Handled : PutLink(l, p)
    BY <2>2, OthersFit, PutFits
  <2>3. CASE \E p \in Handled, kind \in {"AUTO", "DOWNLINK", "SINGLE"} : PutInterface(p, kind)
    BY <2>3, OthersFit
  <2>4. CASE \E d \in New : \/ \E replace \in BOOLEAN : UpdateInterfaces(d, replace)
                             \/ DeleteInterfaces(d) \/ DeleteDevice(d)
    BY <2>4, OthersFit, DevicesFit
  <2> QED BY <1>6, <2>1, <2>2, <2>3, <2>4 DEF Operator
<1> QED BY <1>1, <1>2, <1>3, <1>4, <1>5, <1>6 DEF Next

\* The management domain of an access switch serves the distribution switches
\* that its links lead to, or is one of core switches, unless cables or links
\* were changed by hand (find_mgmtdomain, update_linknets, init_access_device_step1).
THEOREM DomainsServe == Spec => []DomainFits
<1>1. Init => TypeInv /\ FitInv
  BY TypeInit, FitInit
<1>2. (TypeInv /\ FitInv) /\ [Next]_vars => (TypeInv /\ FitInv)'
  BY TypeStep, FitStep
<1>3. TypeInv /\ FitInv => DomainFits
  BY FitImplies
<1> QED BY <1>1, <1>2, <1>3, PTL DEF Spec
=============================================================================
