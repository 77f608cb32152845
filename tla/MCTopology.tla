----------------------------- MODULE MCTopology -----------------------------
\* A core switch, three distribution switches and two switches to initialise,
\* cabled as a fabric, with redundant uplinks, as a pair or one behind the other.
EXTENDS Topology, TLC

CONSTANTS c1, d1, d2, d3, n1, n2

P(d, n) == [dev |-> d, no |-> n]
MCTypes == c1 :> "CORE" @@ d1 :> "DIST" @@ d2 :> "DIST" @@ d3 :> "DIST"
MCPorts == {P(c1, 1), P(c1, 2), P(d1, 1), P(d1, 2), P(d2, 1)}
             \cup {P(n, i) : n \in {n1, n2}, i \in 1..3}
MCClass == [p \in MCPorts |-> IF p.dev \in {d1, d2} THEN IF p.no = 2 THEN "single" ELSE "downlink"
                              ELSE "fabric"]
Both(pairs) == [p \in UNION {{x[1], x[2]} : x \in pairs} |->
                  CHOOSE q \in UNION {{x[1], x[2]} : x \in pairs} : q # p /\ \E x \in pairs : {x[1], x[2]} = {p, q}]
Rack == Both({<<P(n1, 1), P(c1, 1)>>, <<P(n2, 1), P(c1, 2)>>})
Pair == Both({<<P(n1, 1), P(d1, 1)>>, <<P(n2, 1), P(d2, 1)>>,
              <<P(n1, 2), P(n2, 2)>>, <<P(n1, 3), P(n2, 3)>>})
Twin == Both({<<P(n1, 1), P(d1, 1)>>, <<P(n1, 2), P(d2, 1)>>, <<P(n2, 1), P(d1, 2)>>})
Chain == Both({<<P(n1, 1), P(d1, 2)>>, <<P(n2, 1), P(n1, 2)>>})
MCLayouts == {Rack, Pair, Twin, Chain}
MCHandled == {P(n1, 2), P(d1, 2)}
MCSyncing == {c1, n1}
MCNamed == {None, {}, {c1}}
MCDomains == {{d1, d2}, {d2, d3}}
=============================================================================
