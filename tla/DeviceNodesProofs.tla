------------------------ MODULE DeviceNodesProofs ------------------------
(***************************************************************************)
(* Theorems about the operators that go through the nodes of a device, for *)
(* any nodes under any convention: what _advertise() has said when it gets *)
(* somewhere, and whom __handleNodeProperty finds for a set command.       *)
(***************************************************************************)
EXTENDS Advertisement, SetCommand, SequenceTheorems, WellFoundedInduction, TLAPS

-----------------------------------------------------------------------------
(* The announcement.  Said is what there is of it up to a progress; one    *)
(* call adds to it what the call attempts, and at the end it is the whole. *)

\* A progress _advertise() can be at.
Positions ==
  [done : BOOLEAN, global : 1..Len(GlobalSteps),
   nodeStep : {"$name", "$type", "$array", "elements", "$properties",
               "attributes"},
   node : Nat, element : Int, property : Nat,
   propertyStep : 1..Len(PropertySteps)]

Reachable(p) ==
  /\ p \in Positions
  /\ p.done => p.global = Len(GlobalSteps)
  /\ IF GlobalSteps[p.global] = "nodes"
       THEN /\ p.node \in 1..Len(Nodes)
            /\ p.nodeStep = "elements" =>
                 Node(p).range /\ p.element \in Node(p).lower..Node(p).upper
            /\ p.nodeStep = "attributes" => p.property \in DOMAIN Node(p).properties
       ELSE p.nodeStep = "$name" /\ p.node = 1

\* The attributes of the device up to the k-th step, and the whole of n nodes.
DeviceSaid(k) ==
  {Device(GlobalSteps[h]) : h \in {g \in 1..k : GlobalSteps[g] # "nodes"}}

NodesSaid(n) == UNION {NodeAnnouncement(i) : i \in 1..n}

\* What has been said of the node in hand: its own attributes, ...
HeadSaid(p) ==
  {OfNode(what, p.node) : what \in
     CASE p.nodeStep = "$name"    -> {}
       [] p.nodeStep = "$type"    -> {"$name"}
       [] p.nodeStep = "$array"   -> {"$name", "$type"}
       [] p.nodeStep = "elements" -> {"$name", "$type", "$array"}
       [] p.nodeStep = "$properties" ->
            {"$name", "$type"} \cup (IF Node(p).range THEN {"$array"} ELSE {})
       [] p.nodeStep = "attributes" ->
            {"$name", "$type", "$properties"}
            \cup (IF Node(p).range THEN {"$array"} ELSE {})}

\* ... its elements, ...
ElementsSaid(p) ==
  {OfElement(p.node, k) : k \in
     CASE p.nodeStep = "elements" -> Node(p).lower..(p.element - 1)
       [] p.nodeStep \in {"$properties", "attributes"} /\ Node(p).range ->
            Node(p).lower..Node(p).upper
       [] OTHER -> {}}

\* ... and the attributes of its properties.
AttributeSaid(p, j, a) ==
  /\ p.nodeStep = "attributes"
  /\ j < p.property \/ (j = p.property /\ a < p.propertyStep)
  /\ Advertises(Node(p).properties[j], PropertySteps[a])

PropertiesSaid(p) ==
  UNION {{OfProperty(PropertySteps[a], p.node, j) :
            a \in {b \in 1..Len(PropertySteps) : AttributeSaid(p, j, b)}} :
         j \in DOMAIN Node(p).properties}

NodeSaid(p) == HeadSaid(p) \cup ElementsSaid(p) \cup PropertiesSaid(p)

\* All that was said on the way to a progress.
Said(p) ==
  DeviceSaid(IF p.done THEN p.global ELSE p.global - 1)
  \cup IF GlobalSteps[p.global] = "nodes"
         THEN NodesSaid(p.node - 1) \cup NodeSaid(p)
       ELSE IF \E h \in 1..(p.global - 1) : GlobalSteps[h] = "nodes"
         THEN NodesSaid(Len(Nodes))
       ELSE {}

-----------------------------------------------------------------------------
(* The global steps.                                                       *)

\* The steps there are under one convention or another.
Steps == {Init_, "$description", "$homie", "$name", "$mac", "$localip", "$nodes",
          "$extensions", "$stats", "$stats/interval", "$fw/name", "$fw/version",
          "$fw/checksum", "$implementation", "config", "version",
          "reset/reason", "wifi/reason", "mqtt/reason", "ota/enabled", "nodes",
          "firmware/+", "reset", "config/set", "+/+/set", "$broadcast", Ready_}

\* A list of steps without one of them.
Without(s, step) == s \in Seq(Steps) /\ \A i \in 1..Len(s) : s[i] # step

\* A step that is in neither list is not in the two of them put together.
LEMMA WithoutConcat ==
  ASSUME NEW step, NEW s, NEW t, Without(s, step), Without(t, step)
  PROVE  Without(s \o t, step)
<1>1. s \in Seq(Steps) /\ t \in Seq(Steps)
  BY DEF Without
<1>2. /\ s \o t \in Seq(Steps)
      /\ Len(s \o t) = Len(s) + Len(t)
      /\ \A i \in 1..(Len(s) + Len(t)) :
           (s \o t)[i] = IF i <= Len(s) THEN s[i] ELSE t[i - Len(s)]
  BY <1>1, ConcatProperties
<1>3. ASSUME NEW i \in 1..Len(s \o t) PROVE (s \o t)[i] # step
  <2>1. CASE i <= Len(s)
    BY <1>1, <1>2, <2>1 DEF Without
  <2>2. CASE ~(i <= Len(s))
    <3>1. i - Len(s) \in 1..Len(t)
      BY <1>1, <1>2, <2>2
    <3> QED
      BY <1>2, <2>2, <3>1 DEF Without
  <2> QED
    BY <2>1, <2>2
<1> QED
  BY <1>2, <1>3 DEF Without

\* The steps before the nodes, and the place of the nodes.
BeforeNodes ==
  <<Init_>>
  \o (IF convention = 5 THEN <<"$description">> ELSE <<"$homie", "$name">>)
  \o <<"$mac", "$localip">>
  \o (CASE convention = 3 -> <<"$nodes">>
        [] convention = 4 -> <<"$nodes", "$extensions">>
        [] convention = 5 -> <<>>)
  \o <<"$stats", "$stats/interval", "$fw/name", "$fw/version",
       "$fw/checksum", "$implementation", "config", "version",
       "reset/reason", "wifi/reason", "mqtt/reason", "ota/enabled">>

NodesPlace == IF convention = 5 \/ Nodes = <<>> THEN <<>> ELSE <<"nodes">>

\* The list of steps in four parts.
LEMMA GlobalStepsAre ==
  ASSUME convention \in Conventions
  PROVE  GlobalSteps = ((BeforeNodes \o NodesPlace) \o Subscriptions) \o <<Ready_>>
  BY DEF GlobalSteps, StepsUnder, BeforeNodes, NodesPlace, Nodes

\* The first part starts with $state=init; neither the nodes nor ready are in it.
LEMMA BeforeNodesIs ==
  ASSUME convention \in Conventions
  PROVE  /\ BeforeNodes \in Seq(Steps)
         /\ Len(BeforeNodes) >= 1 /\ BeforeNodes[1] = Init_
         /\ Without(BeforeNodes, "nodes")
         /\ Without(BeforeNodes, Ready_)
<1> DEFINE a == <<Init_>>
           b == IF convention = 5 THEN <<"$description">> ELSE <<"$homie", "$name">>
           c == <<"$mac", "$localip">>
           d == CASE convention = 3 -> <<"$nodes">>
                  [] convention = 4 -> <<"$nodes", "$extensions">>
                  [] convention = 5 -> <<>>
           e == <<"$stats", "$stats/interval", "$fw/name", "$fw/version",
                  "$fw/checksum", "$implementation", "config", "version",
                  "reset/reason", "wifi/reason", "mqtt/reason", "ota/enabled">>
<1>1. convention \in {3, 4, 5}
  BY NodesAssumption
<1>2. ASSUME NEW step \in {"nodes", Ready_}
      PROVE  /\ Without(a, step) /\ Without(b, step) /\ Without(c, step)
             /\ Without(d, step) /\ Without(e, step)
  <2>1. Without(a, step) /\ Without(c, step)
    BY DEF Without, Init_, Ready_, Steps
  <2>2. Without(b, step)
    <3>1. CASE convention = 5
      BY <3>1 DEF Without, Ready_, Steps
    <3>2. CASE convention # 5
      BY <3>2 DEF Without, Ready_, Steps
    <3> QED
      BY <3>1, <3>2
  <2>3. Without(d, step)
    <3>1. CASE convention = 3
      BY <3>1 DEF Without, Ready_, Steps
    <3>2. CASE convention = 4
      BY <3>2 DEF Without, Ready_, Steps
    <3>3. CASE convention = 5
      BY <3>3 DEF Without, Ready_, Steps
    <3> QED
      BY <1>1, <3>1, <3>2, <3>3
  <2>4. Without(e, step)
    BY DEF Without, Ready_, Steps
  <2> QED
    BY <2>1, <2>2, <2>3, <2>4
<1>3. BeforeNodes = ((((a \o b) \o c) \o d) \o e)
  BY DEF BeforeNodes
<1>4. ASSUME NEW step \in {"nodes", Ready_} PROVE Without(BeforeNodes, step)
  <2> HIDE DEF a, b, c, d, e
  <2>1. Without(a \o b, step)
    BY <1>2, WithoutConcat
  <2>2. Without((a \o b) \o c, step)
    BY <1>2, <2>1, WithoutConcat
  <2>3. Without(((a \o b) \o c) \o d, step)
    BY <1>2, <2>2, WithoutConcat
  <2>4. Without((((a \o b) \o c) \o d) \o e, step)
    BY <1>2, <2>3, WithoutConcat
  <2> QED
    BY <1>3, <2>4
<1>5. Len(a) = 1 /\ a[1] = Init_ /\ a \in Seq(Steps)
  BY DEF Init_, Steps
<1>6. Len(BeforeNodes) >= 1 /\ BeforeNodes[1] = Init_
  <2> HIDE DEF a, b, c, d, e
  <2>1. /\ b \in Seq(Steps) /\ c \in Seq(Steps)
        /\ d \in Seq(Steps) /\ e \in Seq(Steps)
    BY <1>2 DEF Without
  <2>2. ASSUME NEW s \in Seq(Steps), Len(s) >= 1, s[1] = Init_,
               NEW t \in Seq(Steps)
        PROVE  s \o t \in Seq(Steps) /\ Len(s \o t) >= 1 /\ (s \o t)[1] = Init_
    BY <2>2, ConcatProperties
  <2>3. a \o b \in Seq(Steps) /\ Len(a \o b) >= 1 /\ (a \o b)[1] = Init_
    BY <1>5, <2>1, <2>2
  <2>4. /\ (a \o b) \o c \in Seq(Steps) /\ Len((a \o b) \o c) >= 1
        /\ ((a \o b) \o c)[1] = Init_
    BY <2>1, <2>2, <2>3
  <2>5. /\ ((a \o b) \o c) \o d \in Seq(Steps) /\ Len(((a \o b) \o c) \o d) >= 1
        /\ (((a \o b) \o c) \o d)[1] = Init_
    BY <2>1, <2>2, <2>4
  <2> QED
    BY <1>3, <2>1, <2>2, <2>5
<1> QED
  BY <1>4, <1>6 DEF Without

\* $state=init is the first step, $state=ready the last and no other, and the
\* nodes, where a device lists them one by one, have one step.
LEMMA GlobalStepsShape ==
  ASSUME convention \in Conventions
  PROVE  /\ GlobalSteps \in Seq(Steps) /\ Len(GlobalSteps) \in Nat
         /\ Len(GlobalSteps) >= 2
         /\ GlobalSteps[1] = Init_
         /\ GlobalSteps[Len(GlobalSteps)] = Ready_
         /\ \A i \in 1..(Len(GlobalSteps) - 1) : GlobalSteps[i] # Ready_
         /\ IF convention = 5 \/ Nodes = <<>>
              THEN \A i \in 1..Len(GlobalSteps) : GlobalSteps[i] # "nodes"
              ELSE \E n \in 1..Len(GlobalSteps) :
                     /\ GlobalSteps[n] = "nodes"
                     /\ \A i \in 1..Len(GlobalSteps) :
                          GlobalSteps[i] = "nodes" => i = n
<1> DEFINE h == BeforeNodes
           m == NodesPlace
           s == Subscriptions
           r == <<Ready_>>
           g == ((h \o m) \o s) \o r
<1>1. /\ Without(h, "nodes") /\ Without(h, Ready_) /\ Len(h) >= 1 /\ h[1] = Init_
      /\ h \in Seq(Steps) /\ Len(h) \in Nat
  BY BeforeNodesIs
<1>2. /\ s = <<"firmware/+", "reset", "config/set", "+/+/set", "$broadcast">>
      /\ Without(s, "nodes") /\ Without(s, Ready_) /\ s \in Seq(Steps)
      /\ Len(s) = 5
  BY DEF Subscriptions, Without, Ready_, Steps
<1>3. m \in Seq(Steps) /\ Without(m, Ready_)
      /\ IF convention = 5 \/ Nodes = <<>>
           THEN m = <<>> /\ Len(m) = 0 /\ Without(m, "nodes")
           ELSE Len(m) = 1 /\ m[1] = "nodes"
  <2>1. CASE convention = 5 \/ Nodes = <<>>
    BY <2>1 DEF NodesPlace, Without, Steps
  <2>2. CASE ~(convention = 5 \/ Nodes = <<>>)
    BY <2>2 DEF NodesPlace, Without, Ready_, Steps
  <2> QED
    BY <2>1, <2>2
<1>4. r \in Seq(Steps) /\ Len(r) = 1 /\ r[1] = Ready_ /\ Without(r, "nodes")
  BY DEF Ready_, Without, Steps
<1> HIDE DEF h, m, s, r
<1>5. /\ g \in Seq(Steps)
      /\ Len(g) = Len(h) + Len(m) + Len(s) + 1
      /\ \A i \in 1..Len(h) : g[i] = h[i]
      /\ \A i \in 1..Len(m) : g[Len(h) + i] = m[i]
      /\ \A i \in 1..Len(s) : g[Len(h) + Len(m) + i] = s[i]
      /\ g[Len(g)] = Ready_
  <2>1. Len(h) \in Nat /\ Len(m) \in Nat /\ Len(s) \in Nat
    BY <1>1, <1>2, <1>3
  <2>2. /\ h \o m \in Seq(Steps) /\ Len(h \o m) = Len(h) + Len(m)
        /\ \A i \in 1..(Len(h) + Len(m)) :
             (h \o m)[i] = IF i <= Len(h) THEN h[i] ELSE m[i - Len(h)]
    BY <1>1, <1>3, ConcatProperties
  <2>3. /\ (h \o m) \o s \in Seq(Steps)
        /\ Len((h \o m) \o s) = Len(h) + Len(m) + Len(s)
        /\ \A i \in 1..(Len(h \o m) + Len(s)) :
             ((h \o m) \o s)[i] = IF i <= Len(h \o m) THEN (h \o m)[i]
                                  ELSE s[i - Len(h \o m)]
    BY <1>2, <2>2, ConcatProperties
  <2>4. /\ g \in Seq(Steps) /\ Len(g) = Len(h) + Len(m) + Len(s) + 1
        /\ \A i \in 1..(Len((h \o m) \o s) + 1) :
             g[i] = IF i <= Len((h \o m) \o s) THEN ((h \o m) \o s)[i]
                    ELSE r[i - Len((h \o m) \o s)]
    <3> DEFINE p == (h \o m) \o s
    <3>1. p \in Seq(Steps) /\ Len(p) = Len(h) + Len(m) + Len(s)
      BY <2>3
    <3> HIDE DEF p
    <3>2. /\ p \o r \in Seq(Steps) /\ Len(p \o r) = Len(p) + Len(r)
          /\ \A i \in 1..(Len(p) + Len(r)) :
               (p \o r)[i] = IF i <= Len(p) THEN p[i] ELSE r[i - Len(p)]
      BY <1>4, <3>1, ConcatProperties
    <3> QED
      BY <1>4, <3>1, <3>2 DEF p
  <2> HIDE DEF g
  <2>5. ASSUME NEW i \in 1..Len(h) PROVE g[i] = h[i]
    BY <2>1, <2>2, <2>3, <2>4, <2>5
  <2>6. ASSUME NEW i \in 1..Len(m) PROVE g[Len(h) + i] = m[i]
    <3>1. Len(h) + i \in 1..(Len(h) + Len(m)) /\ ~(Len(h) + i <= Len(h))
          /\ (Len(h) + i) - Len(h) = i
      BY <2>1, <2>6
    <3> QED
      BY <2>1, <2>2, <2>3, <2>4, <3>1
  <2>7. ASSUME NEW i \in 1..Len(s) PROVE g[Len(h) + Len(m) + i] = s[i]
    <3> DEFINE k == Len(h) + Len(m) + i
    <3>1. k \in 1..(Len(h) + Len(m) + Len(s)) /\ ~(k <= Len(h) + Len(m))
          /\ k - (Len(h) + Len(m)) = i
      BY <2>1, <2>7
    <3> QED
      BY <2>1, <2>2, <2>3, <2>4, <3>1
  <2>8. g[Len(g)] = Ready_
    BY <2>1, <2>3, <2>4, <1>4
  <2> QED
    BY <2>4, <2>5, <2>6, <2>7, <2>8
<1>6. GlobalSteps = g
  BY GlobalStepsAre DEF h, m, s, r
<1> HIDE DEF g
<1>7. ASSUME NEW i \in 1..(Len(g) - 1) PROVE g[i] # Ready_
  <2>1. CASE i \in 1..Len(h)
    BY <2>1, <1>5, <1>1 DEF Without
  <2>2. CASE \E k \in 1..Len(m) : i = Len(h) + k
    BY <2>2, <1>5, <1>3 DEF Without
  <2>3. CASE \E k \in 1..Len(s) : i = Len(h) + Len(m) + k
    BY <2>3, <1>5, <1>2 DEF Without
  <2> QED
    <3>1. Len(h) \in Nat /\ Len(m) \in Nat /\ Len(s) \in Nat
          /\ i \in 1..(Len(h) + Len(m) + Len(s))
      BY <1>1, <1>2, <1>3, <1>5
    <3>2. CASE i > Len(h) /\ i <= Len(h) + Len(m)
      <4>1. i - Len(h) \in 1..Len(m) /\ i = Len(h) + (i - Len(h))
        BY <3>1, <3>2
      <4> QED
        BY <4>1, <2>2
    <3>3. CASE i > Len(h) + Len(m)
      <4>1. i - (Len(h) + Len(m)) \in 1..Len(s)
            /\ i = Len(h) + Len(m) + (i - (Len(h) + Len(m)))
        BY <3>1, <3>3
      <4> QED
        BY <4>1, <2>3
    <3>4. CASE i <= Len(h)
      BY <2>1, <3>1, <3>4
    <3> QED
      BY <3>1, <3>2, <3>3, <3>4
<1>8. ASSUME NEW i \in 1..Len(g), g[i] = "nodes"
      PROVE  i = Len(h) + 1 /\ Len(m) = 1
  <2>1. Len(h) \in Nat /\ Len(m) \in Nat /\ Len(s) \in Nat
        /\ i \in 1..(Len(h) + Len(m) + Len(s) + 1)
    BY <1>1, <1>2, <1>3, <1>5
  <2>2. i # Len(g)
    BY <1>5, <1>8 DEF Ready_
  <2>3. ~(i <= Len(h))
    BY <2>1, <1>5, <1>8, <1>1 DEF Without
  <2>4. ~(i > Len(h) + Len(m))
    <3> SUFFICES ASSUME i > Len(h) + Len(m) PROVE FALSE
      OBVIOUS
    <3>1. i - (Len(h) + Len(m)) \in 1..Len(s)
          /\ i = Len(h) + Len(m) + (i - (Len(h) + Len(m)))
      BY <2>1, <2>2, <1>5
    <3> QED
      BY <3>1, <1>5, <1>8, <1>2 DEF Without
  <2>5. CASE Len(m) = 0
    BY <2>1, <2>3, <2>4, <2>5
  <2>6. CASE Len(m) = 1
    BY <2>1, <2>3, <2>4, <2>6
  <2> QED
    BY <1>3, <2>5, <2>6
<1>9. CASE convention = 5 \/ Nodes = <<>>
  BY <1>1, <1>2, <1>3, <1>5, <1>6, <1>7, <1>8, <1>9
<1>10. CASE ~(convention = 5 \/ Nodes = <<>>)
  <2>1. Len(h) + 1 \in 1..Len(g) /\ g[Len(h) + 1] = "nodes"
    <3>1. Len(m) = 1 /\ m[1] = "nodes" /\ Len(h) \in Nat /\ Len(s) = 5
      BY <1>1, <1>2, <1>3, <1>10
    <3>2. g[Len(h) + 1] = "nodes"
      BY <1>5, <3>1
    <3>3. Len(g) = Len(h) + 1 + 5 + 1
      BY ONLY <1>5, <3>1, SMT
    <3>4. Len(h) + 1 \in 1..Len(g)
      BY ONLY <3>1, <3>3, SMT
    <3> QED
      BY ONLY <3>2, <3>4
  <2>2. \A i \in 1..Len(g) : g[i] = "nodes" => i = Len(h) + 1
    BY ONLY <1>8
  <2>3. \E n \in 1..Len(g) :
          g[n] = "nodes" /\ \A i \in 1..Len(g) : g[i] = "nodes" => i = n
    BY ONLY <2>1, <2>2
  <2>4. /\ g \in Seq(Steps) /\ Len(g) \in Nat /\ Len(g) >= 2
        /\ g[1] = Init_ /\ g[Len(g)] = Ready_
    <3>1. 1 \in 1..Len(h)
      BY <1>1
    <3>2. Len(h) \in Nat /\ Len(m) \in Nat /\ Len(s) \in Nat
      BY <1>1, <1>2, <1>3
    <3> QED
      BY <1>1, <1>5, <3>1, <3>2
  <2> QED
    BY ONLY <1>6, <1>7, <1>10, <2>3, <2>4
<1> QED
  BY <1>9, <1>10

\* The first call says $state=init, if it can say anything.
LEMMA StartSaysInit ==
  ASSUME convention \in Conventions
  PROVE  Attempt(Start) = {Device(Init_)}
  BY GlobalStepsShape DEF Attempt, Start, Init_

-----------------------------------------------------------------------------
(* The way through the nodes.                                              *)

\* What the assumption on the nodes says of a vector.
LEMMA SequenceIs ==
  ASSUME NEW s, IsSequence(s)
  PROVE  Len(s) \in Nat /\ DOMAIN s = 1..Len(s) /\ (s = <<>> <=> Len(s) = 0)
<1> DEFINE S == {s[i] : i \in DOMAIN s}
<1>1. s \in Seq(S)
  BY DEF IsSequence
<1> HIDE DEF S
<1> QED
  BY <1>1, EmptySeq

\* What it says of the nodes of this firmware.
LEMMA NodesAre ==
  ASSUME convention \in Conventions
  PROVE  /\ Len(Nodes) \in Nat /\ DOMAIN Nodes = 1..Len(Nodes)
         /\ Nodes = <<>> <=> Len(Nodes) = 0
         /\ \A i \in 1..Len(Nodes) :
              /\ Nodes[i].range \in BOOLEAN
              /\ Nodes[i].lower \in Nat /\ Nodes[i].upper \in Nat
              /\ Nodes[i].range => Nodes[i].lower <= Nodes[i].upper
              /\ Len(Nodes[i].properties) \in Nat
              /\ DOMAIN Nodes[i].properties = 1..Len(Nodes[i].properties)
              /\ Nodes[i].properties = <<>> <=> Len(Nodes[i].properties) = 0
<1>1. /\ IsSequence(Nodes)
      /\ \A i \in DOMAIN Nodes :
           /\ IsSequence(Nodes[i].properties)
           /\ Nodes[i].range \in BOOLEAN
           /\ Nodes[i].lower \in Nat /\ Nodes[i].upper \in Nat
           /\ Nodes[i].range => Nodes[i].lower <= Nodes[i].upper
  BY NodesAssumption DEF Nodes
<1> QED
  BY <1>1, SequenceIs

\* _resetAdvertisementProgress leaves a progress in order, ...
LEMMA StartIsReachable ==
  ASSUME convention \in Conventions
  PROVE  Reachable(Start)
<1>1. Len(PropertySteps) = 6 /\ GlobalSteps[1] # "nodes"
  BY GlobalStepsShape DEF PropertySteps, Init_
<1> QED
  BY <1>1, GlobalStepsShape DEF Start, Reachable, Positions

\* ... so does the end of a global step, ...
LEMMA NextGlobalIsReachable ==
  ASSUME convention \in Conventions, NEW p, Reachable(p),
         p.nodeStep = "$name", p.node = 1
  PROVE  Reachable(NextGlobal(p))
<1>1. CASE p.global = Len(GlobalSteps)
  <2>1. GlobalSteps[p.global] # "nodes"
    BY <1>1, GlobalStepsShape DEF Ready_
  <2> QED
    BY <1>1, <2>1 DEF NextGlobal, Reachable, Positions
<1>2. CASE p.global # Len(GlobalSteps)
  <2> DEFINE q == [p EXCEPT !.global = @ + 1]
  <2>1. /\ p.global + 1 \in 1..Len(GlobalSteps) /\ ~p.done
    BY <1>2, GlobalStepsShape DEF Reachable, Positions
  <2>3. /\ q \in Positions /\ q.nodeStep = "$name" /\ q.node = 1
        /\ ~q.done /\ q.global = p.global + 1
    BY <2>1 DEF Reachable, Positions
  <2>2. GlobalSteps[q.global] = "nodes" => 1 \in 1..Len(Nodes)
    <3>1. q.global \in 1..Len(GlobalSteps)
      BY <2>1, <2>3
    <3> QED
      BY <3>1, GlobalStepsShape, NodesAre
  <2>4. NextGlobal(p) = q
    BY <1>2 DEF NextGlobal
  <2> QED
    BY <2>2, <2>3, <2>4 DEF Reachable
<1> QED
  BY <1>1, <1>2

\* A step within the nodes changes some of the fields and leaves a position.
LEMMA Moved ==
  ASSUME NEW p \in Positions, NEW e \in Int, NEW j \in Nat,
         NEW a \in 1..Len(PropertySteps)
  PROVE  /\ [p EXCEPT !.nodeStep = "$name", !.property = 1, !.propertyStep = a]
              \in Positions
         /\ [p EXCEPT !.nodeStep = "elements", !.element = e] \in Positions
         /\ [p EXCEPT !.element = e, !.nodeStep = "$properties"] \in Positions
         /\ [p EXCEPT !.nodeStep = "attributes", !.propertyStep = a,
                      !.property = 1] \in Positions
         /\ [p EXCEPT !.property = j, !.propertyStep = a] \in Positions
  BY DEF Positions

\* ... the end of a node, which leads to the next node or past them all, ...
LEMMA AfterNodeIsReachable ==
  ASSUME convention \in Conventions, NEW p, Reachable(p),
         GlobalSteps[p.global] = "nodes"
  PROVE  /\ Reachable(AfterNode(p))
         /\ p.node < Len(Nodes) =>
              /\ AfterNode(p).nodeStep = "$name"
              /\ AfterNode(p).node = p.node + 1
              /\ AfterNode(p).done = p.done /\ AfterNode(p).global = p.global
         /\ ~(p.node < Len(Nodes)) =>
              \E l : /\ AfterNode(p) = NextGlobal(l)
                     /\ Reachable(l) /\ l.nodeStep = "$name" /\ l.node = 1
                     /\ l.global = p.global
<1> DEFINE fresh == [p EXCEPT !.nodeStep = "$name", !.property = 1,
                              !.propertyStep = 1]
           last  == [fresh EXCEPT !.node = 1]
           next  == [fresh EXCEPT !.node = @ + 1]
<1>1. 1 \in 1..Len(PropertySteps)
  BY DEF PropertySteps
<1>2. p.node \in 1..Len(Nodes) /\ Len(Nodes) \in Nat /\ p \in Positions
  BY NodesAre DEF Reachable
<1>3. CASE p.node < Len(Nodes)
  <2>0. /\ next \in Positions /\ next.nodeStep = "$name"
        /\ next.node = p.node + 1 /\ next.done = p.done /\ next.global = p.global
    <3>1. next \in Positions
      <4>1. fresh \in Positions
        <5>1. p \in Positions /\ 0 \in Int /\ 1 \in Nat
          BY <1>2
        <5> QED
          BY <1>1, <5>1, Moved, Zenon
      <4>2. fresh.node + 1 \in Nat
        BY <1>2 DEF Positions
      <4>3. \A q \in Positions : \A n \in Nat : [q EXCEPT !.node = n] \in Positions
        BY DEF Positions
      <4> HIDE DEF fresh
      <4>4. next = [fresh EXCEPT !.node = fresh.node + 1]
        OBVIOUS
      <4> QED
        BY <4>1, <4>2, <4>3, <4>4
    <3>2. /\ next.nodeStep = "$name"
          /\ next.node = p.node + 1 /\ next.done = p.done /\ next.global = p.global
      BY <1>1, <1>2 DEF Positions
    <3> QED
      BY <3>1, <3>2
  <2>1. Reachable(next)
    BY <1>2, <1>3, <2>0 DEF Reachable
  <2>2. AfterNode(p) = next
    BY <1>3 DEF AfterNode
  <2> QED
    BY <1>3, <2>0, <2>1, <2>2
<1>4. CASE ~(p.node < Len(Nodes))
  <2>0. /\ last \in Positions /\ last.nodeStep = "$name"
        /\ last.node = 1 /\ last.done = p.done /\ last.global = p.global
    <3>1. last \in Positions
      BY <1>1, <1>2 DEF Positions
    <3>2. /\ last.nodeStep = "$name"
          /\ last.node = 1 /\ last.done = p.done /\ last.global = p.global
      BY <1>1, <1>2 DEF Positions
    <3> QED
      BY <3>1, <3>2
  <2>1. Reachable(last) /\ last.nodeStep = "$name" /\ last.node = 1
    BY <1>2, <2>0 DEF Reachable
  <2>2. Reachable(NextGlobal(last))
    BY <2>1, NextGlobalIsReachable
  <2>3. AfterNode(p) = NextGlobal(last)
    BY <1>4 DEF AfterNode
  <2> QED
    BY <1>4, <2>0, <2>1, <2>2, <2>3
<1> QED
  BY <1>3, <1>4

\* ... and every call that gets through.
LEMMA AdvanceIsReachable ==
  ASSUME convention \in Conventions, NEW p, Reachable(p)
  PROVE  Reachable(Advance(p))
<1>1. CASE GlobalSteps[p.global] # "nodes"
  BY <1>1, NextGlobalIsReachable DEF Advance, Reachable
<1>2. CASE GlobalSteps[p.global] = "nodes"
  <2>1. /\ p.node \in 1..Len(Nodes)
        /\ p.nodeStep \in {"$name", "$type", "$array", "elements", "$properties",
                           "attributes"}
        /\ Node(p).range \in BOOLEAN /\ Node(p).lower \in Nat /\ Node(p).upper \in Nat
        /\ Node(p).range => Node(p).lower <= Node(p).upper
        /\ Len(Node(p).properties) \in Nat
        /\ DOMAIN Node(p).properties = 1..Len(Node(p).properties)
        /\ Node(p).properties = <<>> <=> Len(Node(p).properties) = 0
    BY <1>2, NodesAre DEF Reachable, Positions, Node
  <2>0. p \in Positions
    BY DEF Reachable
  <2>9. /\ 1 \in 1..Len(PropertySteps)
        /\ p.property + 1 \in Nat /\ p.property \in Nat /\ p.propertyStep \in Nat
        /\ Node(p).lower \in Int
    BY <2>0, <2>1 DEF PropertySteps, Positions
  <2>2. Advance(p) = AfterNodeStep(p)
    BY <1>2 DEF Advance
  <2>3. Len(PropertySteps) = 6
    BY DEF PropertySteps
  <2>4. CASE p.nodeStep \in {"$name", "$type"}
    BY <1>2, <2>2, <2>4 DEF AfterNodeStep, Reachable, Positions
  <2>5. CASE p.nodeStep = "$array"
    <3>1. CASE Node(p).range
      <4> DEFINE q == [p EXCEPT !.nodeStep = "elements", !.element = Node(p).lower]
      <4>1. AfterNodeStep(p) = q
        BY <2>5, <3>1 DEF AfterNodeStep
      <4>2. /\ q \in Positions /\ q.node = p.node /\ Node(q) = Node(p)
            /\ q.done = p.done /\ q.global = p.global
            /\ q.nodeStep = "elements" /\ q.element = Node(p).lower
        <5>1. q \in Positions
          BY <2>0, <2>1, <2>9, Moved
        <5>2. /\ q.node = p.node /\ Node(q) = Node(p)
              /\ q.done = p.done /\ q.global = p.global
              /\ q.nodeStep = "elements" /\ q.element = Node(p).lower
          BY <2>0, <2>1 DEF Node, Positions
        <5> QED
          BY <5>1, <5>2
      <4>3. Reachable(q)
        BY <1>2, <2>1, <3>1, <4>2 DEF Reachable
      <4> QED
        BY <2>2, <4>1, <4>3
    <3>2. CASE ~Node(p).range
      BY <1>2, <2>2, <2>5, <3>2 DEF AfterNodeStep, Reachable, Positions
    <3> QED
      BY <3>1, <3>2
  <2>6. CASE p.nodeStep = "elements"
    <3>1. CASE p.element < Node(p).upper
      <4> DEFINE q == [p EXCEPT !.element = @ + 1]
      <4>1. AfterNodeStep(p) = q
        BY <2>6, <3>1 DEF AfterNodeStep
      <4>2. /\ q \in Positions /\ q.node = p.node /\ Node(q) = Node(p)
            /\ q.done = p.done /\ q.global = p.global
            /\ q.nodeStep = "elements" /\ q.element = p.element + 1
        <5>1. q \in Positions
          BY <2>1, <2>6 DEF Node, Reachable, Positions
        <5>2. /\ q.node = p.node /\ Node(q) = Node(p)
              /\ q.done = p.done /\ q.global = p.global
              /\ q.nodeStep = "elements" /\ q.element = p.element + 1
          BY <2>1, <2>6 DEF Node, Reachable, Positions
        <5> QED
          BY <5>1, <5>2
      <4>3. Reachable(q)
        BY <1>2, <2>1, <2>6, <3>1, <4>2 DEF Reachable
      <4> QED
        BY <2>2, <4>1, <4>3
    <3>2. CASE ~(p.element < Node(p).upper)
      <4> DEFINE q == [p EXCEPT !.element = Node(p).lower,
                                !.nodeStep = "$properties"]
      <4>1. AfterNodeStep(p) = q
        BY <2>6, <3>2 DEF AfterNodeStep
      <4>2. /\ q \in Positions /\ q.node = p.node /\ q.nodeStep = "$properties"
            /\ q.done = p.done /\ q.global = p.global
        <5>1. q \in Positions
          BY <2>0, <2>1, <2>9, Moved
        <5>2. /\ q.node = p.node /\ q.nodeStep = "$properties"
              /\ q.done = p.done /\ q.global = p.global
          BY <2>0, <2>1 DEF Positions
        <5> QED
          BY <5>1, <5>2
      <4>3. Reachable(q)
        BY <1>2, <2>1, <4>2 DEF Reachable
      <4> QED
        BY <2>2, <4>1, <4>3
    <3> QED
      BY <3>1, <3>2
  <2>7. CASE p.nodeStep = "$properties"
    <3>1. CASE Node(p).properties # <<>>
      <4> DEFINE q == [p EXCEPT !.nodeStep = "attributes", !.propertyStep = 1,
                                !.property = 1]
      <4>1. AfterNodeStep(p) = q
        BY <2>7, <3>1 DEF AfterNodeStep
      <4>2. /\ q \in Positions /\ q.node = p.node /\ Node(q) = Node(p)
            /\ q.done = p.done /\ q.global = p.global
            /\ q.nodeStep = "attributes" /\ q.property = 1
        <5>1. q \in Positions
          BY <2>0, <2>9, Moved
        <5>2. /\ q.node = p.node /\ Node(q) = Node(p)
              /\ q.done = p.done /\ q.global = p.global
              /\ q.nodeStep = "attributes" /\ q.property = 1
          BY <2>0, <2>3 DEF Node, Positions
        <5> QED
          BY <5>1, <5>2
      <4>3. Reachable(q)
        BY <1>2, <2>1, <2>3, <3>1, <4>2 DEF Reachable
      <4> QED
        BY <2>2, <4>1, <4>3
    <3>2. CASE Node(p).properties = <<>>
      BY <1>2, <2>2, <2>7, <3>2, AfterNodeIsReachable DEF AfterNodeStep
    <3> QED
      BY <3>1, <3>2
  <2>8. CASE p.nodeStep = "attributes"
    <3>0. AfterNodeStep(p) = AfterAttribute(p)
      BY <2>8 DEF AfterNodeStep
    <3>1. CASE p.propertyStep < Len(PropertySteps)
      <4> DEFINE q == [p EXCEPT !.propertyStep = @ + 1]
      <4>1. AfterAttribute(p) = q
        BY <3>1 DEF AfterAttribute
      <4>2. /\ q \in Positions /\ q.node = p.node /\ Node(q) = Node(p)
            /\ q.done = p.done /\ q.global = p.global
            /\ q.nodeStep = "attributes" /\ q.property = p.property
        <5>1. q \in Positions
          BY <2>0, <2>3, <3>1, <2>8 DEF Node, Positions
        <5>2. /\ q.node = p.node /\ Node(q) = Node(p)
              /\ q.done = p.done /\ q.global = p.global
              /\ q.nodeStep = "attributes" /\ q.property = p.property
          BY <2>0, <2>3, <3>1, <2>8 DEF Node, Positions
        <5> QED
          BY <5>1, <5>2
      <4>3. Reachable(q)
        BY <1>2, <2>1, <2>3, <2>8, <3>1, <4>2 DEF Reachable
      <4> QED
        BY <2>2, <3>0, <4>1, <4>3
    <3>2. CASE ~(p.propertyStep < Len(PropertySteps))
               /\ p.property < Len(Node(p).properties)
      <4> DEFINE q == [p EXCEPT !.property = @ + 1, !.propertyStep = 1]
      <4>1. AfterAttribute(p) = q
        BY <3>2 DEF AfterAttribute
      <4>2. /\ q \in Positions /\ q.node = p.node /\ Node(q) = Node(p)
            /\ q.done = p.done /\ q.global = p.global
            /\ q.nodeStep = "attributes" /\ q.property = p.property + 1
        <5>1. q \in Positions
          BY <2>0, <2>9, Moved
        <5>2. /\ q.node = p.node /\ Node(q) = Node(p)
              /\ q.done = p.done /\ q.global = p.global
              /\ q.nodeStep = "attributes" /\ q.property = p.property + 1
          BY <2>0, <2>8 DEF Node, Positions
        <5> QED
          BY <5>1, <5>2
      <4>3. Reachable(q)
        BY <1>2, <2>1, <2>3, <2>8, <3>2, <4>2 DEF Reachable
      <4> QED
        BY <2>2, <3>0, <4>1, <4>3
    <3>3. CASE ~(p.propertyStep < Len(PropertySteps))
               /\ ~(p.property < Len(Node(p).properties))
      BY <1>2, <2>2, <3>0, <3>3, AfterNodeIsReachable DEF AfterAttribute
    <3> QED
      BY <3>1, <3>2, <3>3
  <2> QED
    BY <2>1, <2>4, <2>5, <2>6, <2>7, <2>8
<1> QED
  BY <1>1, <1>2

-----------------------------------------------------------------------------
(* What has been said on the way.                                          *)

\* One more step of the device, ...
LEMMA DeviceSaidNext ==
  ASSUME NEW k \in Nat \ {0}
  PROVE  DeviceSaid(k) = DeviceSaid(k - 1)
           \cup IF GlobalSteps[k] = "nodes" THEN {} ELSE {Device(GlobalSteps[k])}
<1>1. 1..k = 1..(k - 1) \cup {k}
  OBVIOUS
<1> QED
  BY <1>1 DEF DeviceSaid

\* ... and one more node.
LEMMA NodesSaidNext ==
  /\ NodesSaid(0) = {}
  /\ \A k \in Nat \ {0} : NodesSaid(k) = NodesSaid(k - 1) \cup NodeAnnouncement(k)
<1>1. ASSUME NEW k \in Nat \ {0} PROVE 1..k = 1..(k - 1) \cup {k}
  OBVIOUS
<1>2. 1..0 = {}
  OBVIOUS
<1> QED
  BY <1>1, <1>2 DEF NodesSaid

\* One by one, the attributes of a node before its properties ...
LEMMA HeadIs ==
  ASSUME NEW p
  PROVE  /\ p.nodeStep = "$name" => HeadSaid(p) = {}
         /\ p.nodeStep = "$type" => HeadSaid(p) = {OfNode("$name", p.node)}
         /\ p.nodeStep = "$array" =>
              HeadSaid(p) = {OfNode("$name", p.node), OfNode("$type", p.node)}
         /\ p.nodeStep = "elements" =>
              HeadSaid(p) = {OfNode("$name", p.node), OfNode("$type", p.node),
                             OfNode("$array", p.node)}
         /\ p.nodeStep = "$properties" =>
              HeadSaid(p) = {OfNode("$name", p.node), OfNode("$type", p.node)}
                \cup (IF Node(p).range THEN {OfNode("$array", p.node)} ELSE {})
         /\ p.nodeStep = "attributes" =>
              HeadSaid(p) = {OfNode("$name", p.node), OfNode("$type", p.node),
                             OfNode("$properties", p.node)}
                \cup (IF Node(p).range THEN {OfNode("$array", p.node)} ELSE {})
  BY DEF HeadSaid

\* ... and its elements.
LEMMA ElementsAre ==
  ASSUME NEW p
  PROVE  /\ p.nodeStep \in {"$name", "$type", "$array"} => ElementsSaid(p) = {}
         /\ p.nodeStep = "elements" =>
              ElementsSaid(p) = {OfElement(p.node, k) :
                                   k \in Node(p).lower..(p.element - 1)}
         /\ p.nodeStep \in {"$properties", "attributes"} =>
              ElementsSaid(p) =
                IF Node(p).range
                  THEN {OfElement(p.node, k) : k \in Node(p).lower..Node(p).upper}
                  ELSE {}
  BY DEF ElementsSaid

\* What has been said of its properties, if anything.
LEMMA PropertiesAre ==
  ASSUME NEW p
  PROVE  /\ p.nodeStep # "attributes" => PropertiesSaid(p) = {}
         /\ \A x : x \in PropertiesSaid(p) <=>
              \E j \in DOMAIN Node(p).properties, a \in 1..Len(PropertySteps) :
                AttributeSaid(p, j, a) /\ x = OfProperty(PropertySteps[a], p.node, j)
<1>1. \A x : x \in PropertiesSaid(p) <=>
              \E j \in DOMAIN Node(p).properties, a \in 1..Len(PropertySteps) :
                AttributeSaid(p, j, a) /\ x = OfProperty(PropertySteps[a], p.node, j)
  BY DEF PropertiesSaid
<1> QED
  BY <1>1 DEF AttributeSaid

\* A call in the middle of a node adds what it attempts.
LEMMA WithinNode ==
  ASSUME convention \in Conventions, NEW p, Reachable(p),
         GlobalSteps[p.global] = "nodes", NEW q, Reachable(q),
         q = AfterNodeStep(p), p.nodeStep # "attributes",
         p.nodeStep = "$properties" => Node(p).properties # <<>>
  PROVE  /\ NodeSaid(q) = NodeSaid(p) \cup Attempt(p)
         /\ q.node = p.node /\ q.global = p.global /\ q.done = p.done
<1>0. p \in Positions /\ q \in Positions
  BY DEF Reachable
<1>1. /\ Node(p).lower \in Nat /\ Node(p).upper \in Nat
      /\ Node(p).range => Node(p).lower <= Node(p).upper
  BY NodesAre DEF Reachable, Node
<1>2. CASE p.nodeStep = "$name"
  <2>1. /\ q.nodeStep = "$type" /\ q.node = p.node
        /\ q.global = p.global /\ q.done = p.done
    BY <1>0, <1>2 DEF AfterNodeStep, Positions
  <2>2. Attempt(p) = {OfNode("$name", p.node)}
    BY <1>2 DEF Attempt
  <2> QED
    BY <1>2, <2>1, <2>2, HeadIs, ElementsAre, PropertiesAre DEF NodeSaid
<1>3. CASE p.nodeStep = "$type"
  <2>1. /\ q.nodeStep = "$array" /\ q.node = p.node
        /\ q.global = p.global /\ q.done = p.done
    BY <1>0, <1>3 DEF AfterNodeStep, Positions
  <2>2. Attempt(p) = {OfNode("$type", p.node)}
    BY <1>3 DEF Attempt
  <2> QED
    BY <1>3, <2>1, <2>2, HeadIs, ElementsAre, PropertiesAre DEF NodeSaid
<1>4. CASE p.nodeStep = "$array" /\ Node(p).range
  <2>1. /\ q.nodeStep = "elements" /\ q.node = p.node
        /\ q.global = p.global /\ q.done = p.done /\ q.element = Node(p).lower
        /\ Node(q) = Node(p)
    BY <1>0, <1>4 DEF AfterNodeStep, Positions, Node
  <2>2. Attempt(p) = {OfNode("$array", p.node)}
    BY <1>4 DEF Attempt
  <2>3. ElementsSaid(q) = {}
    <3>1. Node(p).lower..(Node(p).lower - 1) = {}
      BY <1>1
    <3> QED
      BY <2>1, <3>1, ElementsAre
  <2> QED
    BY <1>4, <2>1, <2>2, <2>3, HeadIs, ElementsAre, PropertiesAre DEF NodeSaid
<1>5. CASE p.nodeStep = "$array" /\ ~Node(p).range
  <2>1. /\ q.nodeStep = "$properties" /\ q.node = p.node
        /\ q.global = p.global /\ q.done = p.done
        /\ Node(q) = Node(p)
    BY <1>0, <1>5 DEF AfterNodeStep, Positions, Node
  <2>2. Attempt(p) = {}
    BY <1>5 DEF Attempt
  <2> QED
    BY <1>5, <2>1, <2>2, HeadIs, ElementsAre, PropertiesAre DEF NodeSaid
<1>6. CASE p.nodeStep = "elements"
  <2>0. Node(p).range /\ p.element \in Node(p).lower..Node(p).upper
    BY <1>6 DEF Reachable
  <2>1. Attempt(p) = {OfElement(p.node, p.element)}
    BY <1>6 DEF Attempt
  <2>2. ElementsSaid(p) \cup Attempt(p)
          = {OfElement(p.node, k) : k \in Node(p).lower..p.element}
    <3>1. Node(p).lower..p.element = Node(p).lower..(p.element - 1) \cup {p.element}
      BY <1>1, <2>0
    <3> QED
      BY <1>6, <2>1, <3>1, ElementsAre
  <2>3. CASE p.element < Node(p).upper
    <3>1. /\ q.nodeStep = "elements" /\ q.node = p.node
          /\ q.global = p.global /\ q.done = p.done /\ q.element = p.element + 1
          /\ Node(q) = Node(p)
      BY <1>0, <1>6, <2>3 DEF AfterNodeStep, Positions, Node
    <3>2. q.element - 1 = p.element
      BY <1>1, <2>0, <3>1
    <3>3. ElementsSaid(q) = ElementsSaid(p) \cup Attempt(p)
      BY <2>2, <3>1, <3>2, ElementsAre
    <3> QED
      BY <1>6, <3>1, <3>3, HeadIs, PropertiesAre DEF NodeSaid
  <2>4. CASE ~(p.element < Node(p).upper)
    <3>1. /\ q.nodeStep = "$properties" /\ q.node = p.node
          /\ q.global = p.global /\ q.done = p.done
          /\ Node(q) = Node(p)
      BY <1>0, <1>6, <2>4 DEF AfterNodeStep, Positions, Node
    <3>2. p.element = Node(p).upper
      BY <1>1, <2>0, <2>4
    <3>3. ElementsSaid(q) = ElementsSaid(p) \cup Attempt(p)
      BY <2>0, <2>2, <3>1, <3>2, ElementsAre
    <3> QED
      BY <1>6, <2>0, <3>1, <3>3, HeadIs, PropertiesAre DEF NodeSaid
  <2> QED
    BY <2>3, <2>4
<1>7. CASE p.nodeStep = "$properties"
  <2>1. /\ q.nodeStep = "attributes" /\ q.node = p.node
        /\ q.global = p.global /\ q.done = p.done
        /\ q.property = 1 /\ q.propertyStep = 1 /\ Node(q) = Node(p)
    BY <1>0, <1>7 DEF AfterNodeStep, Positions, Node
  <2>2. Attempt(p) = {OfNode("$properties", p.node)}
    BY <1>7 DEF Attempt
  <2>3. PropertiesSaid(q) = {}
    <3>1. /\ Len(Node(p).properties) \in Nat
          /\ DOMAIN Node(p).properties = 1..Len(Node(p).properties)
      BY NodesAre DEF Reachable, Node
    <3>2. Len(PropertySteps) = 6
      BY DEF PropertySteps
    <3>3. \A j \in DOMAIN Node(q).properties, a \in 1..Len(PropertySteps) :
            ~AttributeSaid(q, j, a)
      BY <2>1, <3>1, <3>2 DEF AttributeSaid
    <3> QED
      BY <3>3, PropertiesAre
  <2> QED
    BY <1>7, <2>1, <2>2, <2>3, HeadIs, ElementsAre, PropertiesAre DEF NodeSaid
<1> QED
  BY <1>0, <1>2, <1>3, <1>4, <1>5, <1>6, <1>7 DEF Positions

\* The same for the attributes of its properties, in the middle ...
LEMMA WithinProperties ==
  ASSUME convention \in Conventions, NEW p, Reachable(p),
         GlobalSteps[p.global] = "nodes", NEW q, q = AfterNodeStep(p),
         p.nodeStep = "attributes",
         \/ p.propertyStep < Len(PropertySteps)
         \/ p.property < Len(Node(p).properties)
  PROVE  /\ NodeSaid(q) = NodeSaid(p) \cup Attempt(p)
         /\ q.node = p.node /\ q.global = p.global /\ q.done = p.done
<1> DEFINE attribute == PropertySteps[p.propertyStep]
<1>0. /\ p \in Positions /\ Len(PropertySteps) = 6
      /\ p.property \in DOMAIN Node(p).properties
      /\ p.propertyStep \in 1..Len(PropertySteps)
  BY DEF Reachable, Positions, PropertySteps
<1>1. /\ Len(Node(p).properties) \in Nat
      /\ DOMAIN Node(p).properties = 1..Len(Node(p).properties)
  BY NodesAre DEF Reachable, Node
<1>2. /\ q.nodeStep = "attributes" /\ q.node = p.node /\ Node(q) = Node(p)
      /\ q.global = p.global /\ q.done = p.done
      /\ \/ q.property = p.property /\ q.propertyStep = p.propertyStep + 1
         \/ /\ q.property = p.property + 1 /\ q.propertyStep = 1
            /\ p.propertyStep = Len(PropertySteps)
  <2>1. q = AfterAttribute(p)
    BY DEF AfterNodeStep
  <2>2. CASE p.propertyStep < Len(PropertySteps)
    <3>1. q = [p EXCEPT !.propertyStep = @ + 1]
      BY <2>1, <2>2 DEF AfterAttribute
    <3> QED
      BY <1>0, <3>1 DEF Positions, Node
  <2>3. CASE ~(p.propertyStep < Len(PropertySteps))
    <3>1. q = [p EXCEPT !.property = @ + 1, !.propertyStep = 1]
      BY <2>1, <2>3 DEF AfterAttribute
    <3>2. p.propertyStep = Len(PropertySteps)
      BY <1>0, <2>3
    <3> QED
      BY <1>0, <3>1, <3>2 DEF Positions, Node
  <2> QED
    BY <2>2, <2>3
<1>3. ASSUME NEW j \in DOMAIN Node(p).properties, NEW a \in 1..Len(PropertySteps)
      PROVE  AttributeSaid(q, j, a) <=>
               \/ AttributeSaid(p, j, a)
               \/ /\ j = p.property /\ a = p.propertyStep
                  /\ Advertises(Property(p), attribute)
  <2>1. (j < q.property \/ (j = q.property /\ a < q.propertyStep)) <=>
          \/ j < p.property \/ (j = p.property /\ a < p.propertyStep)
          \/ j = p.property /\ a = p.propertyStep
    BY <1>0, <1>1, <1>2, <1>3
  <2> QED
    BY <1>2, <2>1 DEF AttributeSaid, Property
<1>4. Attempt(p) = IF Advertises(Property(p), attribute)
                     THEN {OfProperty(attribute, p.node, p.property)} ELSE {}
  BY DEF Attempt
<1>5. PropertiesSaid(q) = PropertiesSaid(p) \cup Attempt(p)
  <2>1. ASSUME NEW x
        PROVE  x \in PropertiesSaid(q) <=> x \in PropertiesSaid(p) \cup Attempt(p)
    <3>1. x \in PropertiesSaid(q) <=>
            \E j \in DOMAIN Node(p).properties, a \in 1..Len(PropertySteps) :
              AttributeSaid(q, j, a) /\ x = OfProperty(PropertySteps[a], p.node, j)
      BY <1>2, PropertiesAre
    <3>2. x \in PropertiesSaid(p) <=>
            \E j \in DOMAIN Node(p).properties, a \in 1..Len(PropertySteps) :
              AttributeSaid(p, j, a) /\ x = OfProperty(PropertySteps[a], p.node, j)
      BY PropertiesAre
    <3>3. x \in Attempt(p) <=>
            Advertises(Property(p), attribute)
            /\ x = OfProperty(PropertySteps[p.propertyStep], p.node, p.property)
      BY <1>4
    <3> QED
      BY <1>0, <1>3, <3>1, <3>2, <3>3
  <2> QED
    BY <2>1
<1>6. HeadSaid(q) = HeadSaid(p)
  <2>1. HeadSaid(q) = {OfNode("$name", q.node), OfNode("$type", q.node),
                       OfNode("$properties", q.node)}
          \cup (IF Node(q).range THEN {OfNode("$array", q.node)} ELSE {})
    BY <1>2, HeadIs
  <2>2. HeadSaid(p) = {OfNode("$name", p.node), OfNode("$type", p.node),
                       OfNode("$properties", p.node)}
          \cup (IF Node(p).range THEN {OfNode("$array", p.node)} ELSE {})
    BY HeadIs
  <2> QED
    BY <1>2, <2>1, <2>2
<1>7. ElementsSaid(q) = ElementsSaid(p)
  <2>1. ElementsSaid(q) =
          IF Node(q).range
            THEN {OfElement(q.node, k) : k \in Node(q).lower..Node(q).upper}
            ELSE {}
    BY <1>2, ElementsAre
  <2>2. ElementsSaid(p) =
          IF Node(p).range
            THEN {OfElement(p.node, k) : k \in Node(p).lower..Node(p).upper}
            ELSE {}
    BY ElementsAre
  <2> QED
    BY <1>2, <2>1, <2>2
<1> QED
  BY <1>2, <1>5, <1>6, <1>7 DEF NodeSaid

\* ... and at the end, when all of the node has been said.
LEMMA NodeAnnounced ==
  ASSUME convention \in Conventions, NEW p, Reachable(p),
         GlobalSteps[p.global] = "nodes",
         \/ p.nodeStep = "$properties" /\ Node(p).properties = <<>>
         \/ /\ p.nodeStep = "attributes"
            /\ p.propertyStep = Len(PropertySteps)
            /\ p.property = Len(Node(p).properties)
  PROVE  NodeSaid(p) \cup Attempt(p) = NodeAnnouncement(p.node)
<1> DEFINE head == {OfNode(what, p.node) : what \in {"$name", "$type", "$properties"}}
           elements == IF Node(p).range
                         THEN {OfNode("$array", p.node)} \cup
                              {OfElement(p.node, k) :
                                 k \in Node(p).lower..Node(p).upper}
                         ELSE {}
           attributes == UNION {{OfProperty(a, p.node, j) :
                                   a \in {b \in ToSet(PropertySteps) :
                                     Advertises(Node(p).properties[j], b)}} :
                                j \in DOMAIN Node(p).properties}
<1>0. NodeAnnouncement(p.node) = head \cup elements \cup attributes
  BY DEF NodeAnnouncement, Node
<1>1. /\ Len(Node(p).properties) \in Nat
      /\ DOMAIN Node(p).properties = 1..Len(Node(p).properties)
      /\ Node(p).properties = <<>> <=> Len(Node(p).properties) = 0
  BY NodesAre DEF Reachable, Node
<1>2. Len(PropertySteps) = 6 /\ DOMAIN PropertySteps = 1..Len(PropertySteps)
  BY DEF PropertySteps
<1>3. \A x : x \in attributes <=>
             \E j \in DOMAIN Node(p).properties, a \in 1..Len(PropertySteps) :
               /\ Advertises(Node(p).properties[j], PropertySteps[a])
               /\ x = OfProperty(PropertySteps[a], p.node, j)
  BY <1>2 DEF ToSet
<1>4. CASE p.nodeStep = "$properties" /\ Node(p).properties = <<>>
  <2>1. Attempt(p) = {OfNode("$properties", p.node)}
    BY <1>4 DEF Attempt
  <2>2. attributes = {}
    <3>1. DOMAIN Node(p).properties = {}
      BY <1>1, <1>4
    <3> QED
      BY <1>3, <3>1
  <2>3. HeadSaid(p) \cup ElementsSaid(p) \cup Attempt(p) = head \cup elements
    BY <1>4, <2>1, HeadIs, ElementsAre
  <2> QED
    BY <1>0, <1>4, <2>2, <2>3, PropertiesAre DEF NodeSaid
<1>5. CASE /\ p.nodeStep = "attributes"
           /\ p.propertyStep = Len(PropertySteps)
           /\ p.property = Len(Node(p).properties)
  <2>1. Attempt(p) = IF Advertises(Property(p), PropertySteps[p.propertyStep])
                       THEN {OfProperty(PropertySteps[p.propertyStep], p.node,
                                        p.property)} ELSE {}
    BY <1>5 DEF Attempt
  <2>2. ASSUME NEW j \in DOMAIN Node(p).properties, NEW a \in 1..Len(PropertySteps)
        PROVE  Advertises(Node(p).properties[j], PropertySteps[a]) <=>
                 \/ AttributeSaid(p, j, a)
                 \/ /\ j = p.property /\ a = p.propertyStep
                    /\ Advertises(Property(p), PropertySteps[p.propertyStep])
    <3>1. \/ j < p.property \/ (j = p.property /\ a < p.propertyStep)
          \/ j = p.property /\ a = p.propertyStep
      BY <1>1, <1>2, <1>5, <2>2
    <3> QED
      BY <1>5, <3>1 DEF AttributeSaid, Property
  <2>3. p.property \in DOMAIN Node(p).properties
        /\ p.propertyStep \in 1..Len(PropertySteps)
    BY <1>5 DEF Reachable, Positions
  <2>4. PropertiesSaid(p) \cup Attempt(p) = attributes
    <3>1. ASSUME NEW x
          PROVE  x \in PropertiesSaid(p) \cup Attempt(p) <=> x \in attributes
      <4>1. x \in PropertiesSaid(p) <=>
              \E j \in DOMAIN Node(p).properties, a \in 1..Len(PropertySteps) :
                AttributeSaid(p, j, a) /\ x = OfProperty(PropertySteps[a], p.node, j)
        BY PropertiesAre
      <4>2. x \in Attempt(p) <=>
              Advertises(Property(p), PropertySteps[p.propertyStep])
              /\ x = OfProperty(PropertySteps[p.propertyStep], p.node, p.property)
        BY <2>1
      <4> HIDE DEF attributes
      <4> QED
        BY <1>3, <2>2, <2>3, <4>1, <4>2
    <3> HIDE DEF attributes
    <3> QED
      BY <3>1
  <2>5. HeadSaid(p) \cup ElementsSaid(p) = head \cup elements
    BY <1>5, HeadIs, ElementsAre
  <2> HIDE DEF head, elements, attributes
  <2> QED
    BY <1>0, <2>4, <2>5 DEF NodeSaid
<1> QED
  BY <1>4, <1>5

\* A global step done, the device has said what it stands for.
LEMMA NextGlobalSays ==
  ASSUME convention \in Conventions, NEW p, Reachable(p),
         p.nodeStep = "$name", p.node = 1
  PROVE  Said(NextGlobal(p)) =
           DeviceSaid(p.global)
           \cup IF \E h \in 1..p.global : GlobalSteps[h] = "nodes"
                  THEN NodesSaid(Len(Nodes)) ELSE {}
<1> DEFINE q == NextGlobal(p)
<1>0. /\ p \in Positions /\ p.global \in 1..Len(GlobalSteps)
      /\ Len(GlobalSteps) \in Nat /\ p.done \in BOOLEAN
  BY GlobalStepsShape DEF Reachable, Positions
<1>1. CASE p.global = Len(GlobalSteps)
  <2>1. q.done /\ q.global = p.global
    BY <1>0, <1>1 DEF NextGlobal, Positions
  <2>2. GlobalSteps[p.global] # "nodes"
    BY <1>1, GlobalStepsShape DEF Ready_
  <2>3. 1..p.global = 1..(p.global - 1) \cup {p.global}
    BY <1>0
  <2>4. (\E h \in 1..(p.global - 1) : GlobalSteps[h] = "nodes")
          <=> \E h \in 1..p.global : GlobalSteps[h] = "nodes"
    BY <2>2, <2>3
  <2> QED
    BY <2>1, <2>2, <2>4 DEF Said
<1>2. CASE p.global # Len(GlobalSteps)
  <2>1. ~p.done
    BY <1>2 DEF Reachable
  <2>2. /\ ~q.done /\ q.global = p.global + 1 /\ q.nodeStep = "$name"
        /\ q.node = 1 /\ q.global \in 1..Len(GlobalSteps)
        /\ q.global - 1 = p.global
    BY <1>0, <1>2, <2>1 DEF NextGlobal, Positions
  <2>3. NodeSaid(q) = {}
    BY <2>2, HeadIs, ElementsAre, PropertiesAre DEF NodeSaid
  <2>4. CASE GlobalSteps[q.global] = "nodes"
    <3>1. ~\E h \in 1..p.global : GlobalSteps[h] = "nodes"
      BY <1>0, <2>2, <2>4, GlobalStepsShape
    <3> HIDE DEF q
    <3>2. Said(q) = DeviceSaid(q.global - 1)
                      \cup (NodesSaid(q.node - 1) \cup NodeSaid(q))
      BY <2>2, <2>4 DEF Said
    <3>3. q.node - 1 = 0
      BY <2>2
    <3>4. Said(q) = DeviceSaid(p.global)
      BY <2>2, <2>3, <3>2, <3>3, NodesSaidNext
    <3> QED
      BY <3>1, <3>4 DEF q
  <2>5. CASE GlobalSteps[q.global] # "nodes"
    <3> HIDE DEF q
    <3>1. Said(q) = DeviceSaid(q.global - 1)
            \cup IF \E h \in 1..(q.global - 1) : GlobalSteps[h] = "nodes"
                   THEN NodesSaid(Len(Nodes)) ELSE {}
      BY <2>2, <2>5 DEF Said
    <3> QED
      BY <2>2, <3>1 DEF q
  <2> QED
    BY <2>4, <2>5
<1> QED
  BY <1>1, <1>2

\* One call moves on over exactly what it attempts to say.
LEMMA AdvanceSays ==
  ASSUME convention \in Conventions, NEW p, Reachable(p)
  PROVE  Said(Advance(p)) = Said(p) \cup Attempt(p)
<1> DEFINE q == Advance(p)
<1>0. /\ p \in Positions /\ p.global \in 1..Len(GlobalSteps)
      /\ Len(GlobalSteps) \in Nat /\ p.global \in Nat \ {0}
  BY GlobalStepsShape DEF Reachable, Positions
<1>1. CASE GlobalSteps[p.global] # "nodes"
  <2>1. q = NextGlobal(p) /\ p.nodeStep = "$name" /\ p.node = 1
    BY <1>1 DEF Advance, Reachable
  <2>2. Attempt(p) = {Device(GlobalSteps[p.global])}
    BY <1>1 DEF Attempt
  <2>3. (\E h \in 1..(p.global - 1) : GlobalSteps[h] = "nodes")
          <=> \E h \in 1..p.global : GlobalSteps[h] = "nodes"
    <3>1. 1..p.global = 1..(p.global - 1) \cup {p.global}
      BY <1>0
    <3> QED
      BY <1>1, <3>1
  <2>4. DeviceSaid(p.global) = DeviceSaid(p.global - 1) \cup Attempt(p)
    BY <1>0, <1>1, <2>2, DeviceSaidNext
  <2>5. Said(p) = DeviceSaid(IF p.done THEN p.global ELSE p.global - 1)
          \cup IF \E h \in 1..p.global : GlobalSteps[h] = "nodes"
                 THEN NodesSaid(Len(Nodes)) ELSE {}
    BY <1>1, <2>3 DEF Said
  <2>6. Said(q) = DeviceSaid(p.global)
          \cup IF \E h \in 1..p.global : GlobalSteps[h] = "nodes"
                 THEN NodesSaid(Len(Nodes)) ELSE {}
    BY <2>1, NextGlobalSays
  <2> DEFINE nodes == IF \E h \in 1..p.global : GlobalSteps[h] = "nodes"
                        THEN NodesSaid(Len(Nodes)) ELSE {}
  <2>7. Said(p) = DeviceSaid(p.global) \cup nodes
        \/ Said(p) = DeviceSaid(p.global - 1) \cup nodes
    BY <2>5
  <2>8. Said(q) = DeviceSaid(p.global) \cup nodes
    BY <2>6
  <2> HIDE DEF q, nodes
  <2> QED
    BY <2>4, <2>7, <2>8 DEF q
<1>2. CASE GlobalSteps[p.global] = "nodes"
  <2>0. /\ q = AfterNodeStep(p) /\ Reachable(q) /\ ~p.done
        /\ p.node \in 1..Len(Nodes) /\ Len(Nodes) \in Nat
        /\ p.node \in Nat \ {0}
    <3>1. p.global # Len(GlobalSteps)
      BY <1>2, GlobalStepsShape DEF Ready_
    <3> QED
      BY <1>2, <3>1, AdvanceIsReachable, NodesAre DEF Advance, Reachable
  <2>1. Said(p) = DeviceSaid(p.global - 1) \cup NodesSaid(p.node - 1)
                    \cup NodeSaid(p)
    BY <1>2, <2>0 DEF Said
  <2>2. CASE NodeSaid(q) = NodeSaid(p) \cup Attempt(p) /\ q.node = p.node
             /\ q.global = p.global /\ q.done = p.done
    <3>1. Said(q) = DeviceSaid(p.global - 1) \cup NodesSaid(p.node - 1)
                      \cup NodeSaid(q)
      <4> HIDE DEF q
      <4> QED
        BY <1>2, <2>0, <2>2 DEF Said
    <3> QED
      BY <2>1, <2>2, <3>1
  <2>3. CASE p.nodeStep # "attributes"
             /\ (p.nodeStep = "$properties" => Node(p).properties # <<>>)
    BY <1>2, <2>0, <2>2, <2>3, WithinNode
  <2>4. CASE /\ p.nodeStep = "attributes"
             /\ \/ p.propertyStep < Len(PropertySteps)
                \/ p.property < Len(Node(p).properties)
    BY <1>2, <2>0, <2>2, <2>4, WithinProperties
  <2>5. CASE \/ p.nodeStep = "$properties" /\ Node(p).properties = <<>>
             \/ /\ p.nodeStep = "attributes"
                /\ ~(p.propertyStep < Len(PropertySteps))
                /\ ~(p.property < Len(Node(p).properties))
    <3>1. q = AfterNode(p)
      BY <2>0, <2>5 DEF AfterNodeStep, AfterAttribute
    <3>2. p.nodeStep = "attributes" /\ ~(p.propertyStep < Len(PropertySteps))
            /\ ~(p.property < Len(Node(p).properties)) =>
            p.propertyStep = Len(PropertySteps)
            /\ p.property = Len(Node(p).properties)
      <4>1. /\ Len(Node(p).properties) \in Nat /\ Len(PropertySteps) = 6
            /\ DOMAIN Node(p).properties = 1..Len(Node(p).properties)
        BY <2>0, NodesAre DEF Node, PropertySteps
      <4> QED
        BY <1>0, <1>2, <4>1 DEF Reachable, Positions
    <3>3. NodeSaid(p) \cup Attempt(p) = NodeAnnouncement(p.node)
      BY <1>2, <2>5, <3>2, NodeAnnounced
    <3>4. Said(p) \cup Attempt(p) = DeviceSaid(p.global - 1) \cup NodesSaid(p.node)
      BY <2>0, <2>1, <3>3, NodesSaidNext
    <3>5. CASE p.node < Len(Nodes)
      <4>1. /\ q.nodeStep = "$name" /\ q.node = p.node + 1
            /\ ~q.done /\ q.global = p.global /\ q.node - 1 = p.node
        <5>1. /\ q.nodeStep = "$name" /\ q.node = p.node + 1
              /\ q.done = p.done /\ q.global = p.global
          BY <1>2, <3>1, <3>5, AfterNodeIsReachable
        <5> HIDE DEF q
        <5> QED
          BY <2>0, <5>1
      <4>2. NodeSaid(q) = {}
        BY <4>1, HeadIs, ElementsAre, PropertiesAre DEF NodeSaid
      <4>3. Said(q) = DeviceSaid(p.global - 1) \cup NodesSaid(p.node)
        <5> HIDE DEF q
        <5> QED
          BY <1>2, <4>1, <4>2 DEF Said
      <4> QED
        BY <3>4, <4>3
    <3>6. CASE ~(p.node < Len(Nodes))
      <4>1. PICK l : /\ q = NextGlobal(l)
                     /\ Reachable(l) /\ l.nodeStep = "$name" /\ l.node = 1
                     /\ l.global = p.global
        BY <1>2, <3>1, <3>6, AfterNodeIsReachable
      <4>2. Said(q) = DeviceSaid(p.global) \cup NodesSaid(Len(Nodes))
        <5>1. \E h \in 1..p.global : GlobalSteps[h] = "nodes"
          BY <1>0, <1>2
        <5> HIDE DEF q
        <5> QED
          BY <4>1, <5>1, NextGlobalSays
      <4>3. p.node = Len(Nodes)
        BY <2>0, <3>6
      <4>4. DeviceSaid(p.global) = DeviceSaid(p.global - 1)
        BY <1>0, <1>2, DeviceSaidNext
      <4> QED
        BY <3>4, <4>2, <4>3, <4>4
    <3> QED
      BY <3>5, <3>6
  <2> QED
    BY <2>3, <2>4, <2>5
<1> QED
  BY <1>1, <1>2

\* Nothing has been said at the start.
LEMMA StartSaysNothing ==
  ASSUME convention \in Conventions
  PROVE  Said(Start) = {}
<1>1. GlobalSteps[1] # "nodes"
  BY GlobalStepsShape DEF Init_
<1>2. 1..0 = {}
  OBVIOUS
<1>3. Start.global = 1 /\ ~Start.done /\ Start.global - 1 = 0
  BY DEF Start
<1> QED
  BY <1>1, <1>2, <1>3 DEF Said, DeviceSaid

\* Once _advertise() is done it has said it all.
LEMMA DoneIsAnnounced ==
  ASSUME convention \in Conventions, NEW p, Reachable(p), p.done
  PROVE  Said(p) = Announcement
<1>1. /\ p.global = Len(GlobalSteps) /\ GlobalSteps[p.global] # "nodes"
      /\ GlobalSteps \in Seq(Steps) /\ Len(GlobalSteps) \in Nat
  BY GlobalStepsShape DEF Reachable, Ready_
<1>2. DeviceSaid(p.global) = {Device(what) : what \in ToSet(GlobalSteps) \ {"nodes"}}
  <2>1. DOMAIN GlobalSteps = 1..Len(GlobalSteps)
    BY <1>1
  <2> QED
    BY <1>1, <2>1 DEF DeviceSaid, ToSet
<1>3. NodesSaid(Len(Nodes)) = UNION {NodeAnnouncement(i) : i \in DOMAIN Nodes}
  BY NodesAre DEF NodesSaid
<1>4. CASE convention = 5
  <2>1. ~\E h \in 1..(p.global - 1) : GlobalSteps[h] = "nodes"
    BY <1>1, <1>4, GlobalStepsShape
  <2> QED
    BY <1>1, <1>2, <1>4, <2>1 DEF Said, Announcement
<1>5. CASE convention # 5 /\ Nodes = <<>>
  <2>1. ~\E h \in 1..(p.global - 1) : GlobalSteps[h] = "nodes"
    BY <1>1, <1>5, GlobalStepsShape
  <2>2. UNION {NodeAnnouncement(i) : i \in DOMAIN Nodes} = {}
    BY <1>5, NodesAre
  <2> QED
    BY <1>1, <1>2, <1>5, <2>1, <2>2 DEF Said, Announcement
<1>6. CASE convention # 5 /\ Nodes # <<>>
  <2>1. \E h \in 1..(p.global - 1) : GlobalSteps[h] = "nodes"
    <3>1. PICK n \in 1..Len(GlobalSteps) : GlobalSteps[n] = "nodes"
      BY <1>6, GlobalStepsShape
    <3> QED
      BY <1>1, <3>1
  <2> QED
    BY <1>1, <1>2, <1>3, <1>6, <2>1 DEF Said, Announcement
<1> QED
  BY <1>4, <1>5, <1>6

\* What is said of a node is not said of the device.
LEMMA NodeIsNotDevice ==
  ASSUME NEW i \in Nat \ {0}, NEW what
  PROVE  Device(what) \notin NodeAnnouncement(i)
<1>1. Device(what)[2] = 0
  BY DEF Device
<1>2. ASSUME NEW x \in NodeAnnouncement(i) PROVE x[2] = i
  <2>1. \/ \E w : x = OfNode(w, i)
        \/ \E k : x = OfElement(i, k)
        \/ \E w, j : x = OfProperty(w, i, j)
    BY <1>2, Zenon DEF NodeAnnouncement
  <2>2. \A w, j : /\ OfNode(w, i)[2] = i /\ OfElement(i, j)[2] = i
                 /\ OfProperty(w, i, j)[2] = i
    BY DEF OfNode, OfElement, OfProperty
  <2> QED
    BY <2>1, <2>2
<1> QED
  BY <1>1, <1>2

\* The same for the part of a node that has been said.
LEMMA NodeSaidIsNotDevice ==
  ASSUME NEW p, p.node \in Nat \ {0}, NEW what
  PROVE  Device(what) \notin NodeSaid(p)
<1>1. Device(what)[2] = 0
  BY DEF Device
<1>2. \A x \in HeadSaid(p) : x[2] = p.node
  BY DEF HeadSaid, OfNode
<1>3. ASSUME NEW x \in ElementsSaid(p) PROVE x[2] = p.node
  <2>1. \E k : x = OfElement(p.node, k)
    BY <1>3, Zenon DEF ElementsSaid
  <2>2. \A k : OfElement(p.node, k)[2] = p.node
    BY DEF OfElement
  <2> QED
    BY <2>1, <2>2
<1>4. \A x \in PropertiesSaid(p) : x[2] = p.node
  BY DEF PropertiesSaid, OfProperty
<1> QED
  BY <1>1, <1>2, <1>3, <1>4 DEF NodeSaid

\* What has been said, wherever the device is, is what AnnouncedInFull asks for.
LEMMA SaidInFull ==
  ASSUME convention \in Conventions, NEW p, Reachable(p)
  PROVE  /\ Said(p) # {} => Device(Init_) \in Said(p)
         /\ Device(Ready_) \in Said(p) => Said(p) = Announcement
         /\ p.done => Device(Ready_) \in Said(p)
<1> DEFINE k == IF p.done THEN p.global ELSE p.global - 1
<1>0. /\ p \in Positions /\ p.global \in 1..Len(GlobalSteps)
      /\ Len(GlobalSteps) \in Nat /\ p.done \in BOOLEAN
      /\ Len(GlobalSteps) >= 2 /\ k \in Nat
  BY GlobalStepsShape DEF Reachable, Positions
<1>1. DeviceSaid(k) \subseteq Said(p)
  BY DEF Said
<1>2. ASSUME NEW what, Device(what) \in Said(p)
      PROVE  Device(what) \in DeviceSaid(k)
  <2>1. \A n \in Nat : Device(what) \notin NodesSaid(n)
    BY NodeIsNotDevice DEF NodesSaid
  <2>2. CASE GlobalSteps[p.global] = "nodes"
    <3>1. p.node \in Nat \ {0} /\ p.node - 1 \in Nat
      BY <2>2, NodesAre DEF Reachable
    <3> QED
      BY <1>2, <2>1, <2>2, <3>1, NodeSaidIsNotDevice DEF Said
  <2>3. CASE GlobalSteps[p.global] # "nodes"
    BY <1>2, <2>1, <2>3, NodesAre DEF Said
  <2> QED
    BY <2>2, <2>3
<1>3. ASSUME Said(p) # {} PROVE Device(Init_) \in Said(p)
  <2>1. CASE k = 0
    <3>1. ~p.done /\ p.global = 1 /\ p.global - 1 = 0
      BY <1>0, <2>1
    <3>2. GlobalSteps[p.global] # "nodes"
      BY <3>1, GlobalStepsShape DEF Init_
    <3>3. 1..0 = {}
      OBVIOUS
    <3>4. Said(p) = {}
      BY <3>1, <3>2, <3>3 DEF Said, DeviceSaid
    <3> QED
      BY <1>3, <3>4
  <2>2. CASE k # 0
    <3>1. 1 \in 1..k
      BY <1>0, <2>2
    <3>2. Device(GlobalSteps[1]) \in DeviceSaid(k)
      <4> HIDE DEF k
      <4> QED
        BY <3>1, GlobalStepsShape DEF DeviceSaid, Init_
    <3> QED
      BY <1>1, <3>2, GlobalStepsShape
  <2> QED
    BY <2>1, <2>2
<1>4. Device(Ready_) \in Said(p) => p.done
  <2>1. ASSUME ~p.done PROVE Device(Ready_) \notin DeviceSaid(k)
    <3>1. k \in 0..(Len(GlobalSteps) - 1)
      BY <1>0, <2>1
    <3> HIDE DEF k
    <3>2. \A h \in 1..k : GlobalSteps[h] # Ready_
      BY <1>0, <3>1, GlobalStepsShape
    <3> QED
      BY <3>2 DEF DeviceSaid, Device
  <2> QED
    BY <1>2, <2>1
<1>5. p.done => Device(Ready_) \in Said(p)
  <2> SUFFICES ASSUME p.done PROVE Device(Ready_) \in Said(p)
    OBVIOUS
  <2>1. k = Len(GlobalSteps) /\ k \in 1..k
    BY <1>0 DEF Reachable
  <2>2. Device(GlobalSteps[k]) \in DeviceSaid(k)
    <3> HIDE DEF k
    <3> QED
      BY <2>1, GlobalStepsShape DEF DeviceSaid, Ready_
  <2> QED
    BY <1>1, <2>1, <2>2, GlobalStepsShape
<1>6. p.done => Said(p) = Announcement
  BY DoneIsAnnounced
<1> QED
  BY <1>3, <1>4, <1>5, <1>6

\* The convention is built in: a step changes nothing but the progress.
LEMMA SaidAfter ==
  ASSUME UNCHANGED convention
  PROVE  /\ Said(progress)' = Said(progress')
         /\ Reachable(progress)' = Reachable(progress')
         /\ UNCHANGED Announcement
<1>1. UNCHANGED <<GlobalSteps, Nodes>>
  BY DEF GlobalSteps, Nodes
<1>2. Reachable(progress)' = Reachable(progress')
  BY <1>1 DEF Reachable, Positions, Node
<1>3. \A i : NodeAnnouncement(i)' = NodeAnnouncement(i)
  BY <1>1 DEF NodeAnnouncement, Advertises
<1>4. UNCHANGED Announcement
  BY <1>1, <1>3 DEF Announcement
<1>5. \A k : DeviceSaid(k)' = DeviceSaid(k) /\ NodesSaid(k)' = NodesSaid(k)
  BY <1>1, <1>3 DEF DeviceSaid, NodesSaid
<1>6. NodeSaid(progress)' = NodeSaid(progress')
  BY <1>1 DEF NodeSaid, HeadSaid, ElementsSaid, PropertiesSaid, AttributeSaid,
     Node, Advertises
<1> QED
  BY <1>1, <1>2, <1>4, <1>5, <1>6 DEF Said

-----------------------------------------------------------------------------
(* Set commands: for nodes with unambiguous names, the property found is   *)
(* the one that was addressed.                                             *)

\* The lookups stop at the least element of what they look for.
LEMMA FirstIsLeast ==
  ASSUME NEW S, S \subseteq Nat, S # {}
  PROVE  First(S) \in S /\ \A j \in S : First(S) <= j
<1> DEFINE R == OpToRel(<, Nat)
<1>1. \A x, y \in Nat : <<y, x>> \in R <=> y < x
  BY DEF OpToRel
<1>2. IsWellFoundedOn(R, Nat)
  BY NatLessThanWellFounded
<1> HIDE DEF R
<1>3. PICK x \in S : \A y \in S : ~(<<y, x>> \in R)
  BY <1>2, WFMin
<1>4. ASSUME NEW y \in S PROVE x <= y
  <2>1. x \in Nat /\ y \in Nat
    OBVIOUS
  <2>2. ~(y < x)
    BY <1>1, <1>3, <2>1
  <2> QED
    BY <2>1, <2>2
<1> QED
  BY <1>4 DEF First

\* What the assumptions on the nodes say of two of them.
LEMMA NodesHave ==
  ASSUME NEW c \in Conventions, NEW i \in DOMAIN NodesUnder[c]
  PROVE  LET nodes == NodesUnder[c] IN
           /\ DOMAIN nodes \subseteq Nat \ {0}
           /\ DOMAIN nodes[i].properties \subseteq Nat \ {0}
           /\ nodes[i].range \in BOOLEAN
           /\ nodes[i].lower \in Nat /\ nodes[i].upper \in Nat
<1>1. ASSUME NEW s, IsSequence(s) PROVE DOMAIN s \subseteq Nat \ {0}
  <2> DEFINE S == {s[k] : k \in DOMAIN s}
  <2>1. s \in Seq(S)
    BY <1>1 DEF IsSequence
  <2> HIDE DEF S
  <2> QED
    BY <2>1
<1>2. /\ IsSequence(NodesUnder[c]) /\ IsSequence(NodesUnder[c][i].properties)
      /\ NodesUnder[c][i].range \in BOOLEAN
      /\ NodesUnder[c][i].lower \in Nat /\ NodesUnder[c][i].upper \in Nat
  BY NodesAssumption
<1> QED
  BY <1>1, <1>2

\* ... and those on their names.
LEMMA NamesHave ==
  ASSUME NEW c \in Conventions,
         NEW i \in DOMAIN NodesUnder[c], NEW j \in DOMAIN NodesUnder[c]
  PROVE  LET nodes == NodesUnder[c] IN
           /\ nodes[i].id = nodes[j].id => i = j
           /\ i <= j => Suffix[<<nodes[j].id, nodes[i].id>>] = Absent
           /\ nodes[i].range => Suffix[<<nodes[j].id, nodes[i].id>>]
                                \notin nodes[i].lower..nodes[i].upper
           /\ \A k, l \in DOMAIN nodes[i].properties :
                nodes[i].properties[k].id = nodes[i].properties[l].id => k = l
  BY NamesAssumption DEF Unambiguous

\* What a text says of a node's id.
LEMMA SuffixHas ==
  ASSUME NEW c \in Conventions, NEW command \in Addressed,
         NEW i \in DOMAIN NodesUnder[c], NEW j \in DOMAIN NodesUnder[c]
  PROVE  LET nodes == NodesUnder[c] IN
           /\ Suffix[<<command.text, nodes[i].id>>] \in Nat \cup {Absent, NotANumber}
           /\ /\ Suffix[<<command.text, nodes[i].id>>] \in Nat
              /\ Suffix[<<command.text, nodes[j].id>>] # Absent
              => i = j \/ Suffix[<<nodes[i].id, nodes[j].id>>] # Absent
  BY NamesAssumption DEF Legible

\* What the bare id of a node is looked up as: that node, without an index.
LEMMA IdFindsNode ==
  ASSUME NEW c \in Conventions, NEW i \in DOMAIN NodesUnder[c]
  PROVE  LookUp(c, NodesUnder[c][i].id) = Found(i, FALSE, 0)
<1> DEFINE nodes  == NodesUnder[c]
           text   == nodes[i].id
           plain  == {k \in DOMAIN nodes : nodes[k].id = text}
           behind == {k \in DOMAIN nodes : /\ Suffix[<<text, nodes[k].id>>] # Absent
                                           /\ c = 5 => nodes[k].range}
<1>1. DOMAIN nodes \subseteq Nat \ {0}
  BY NodesHave
<1>2. plain = {i}
  BY NamesHave
<1>3. ASSUME NEW k \in behind PROVE i <= k
  <2>1. k \in DOMAIN nodes /\ Suffix[<<nodes[i].id, nodes[k].id>>] # Absent
    BY <1>3
  <2>2. ~(k <= i)
    BY <2>1, NamesHave
  <2> QED
    BY <1>1, <2>1, <2>2
<1>4. plain \cup behind \subseteq Nat
  BY <1>1
<1>5. First(plain \cup behind) = i
  <2> HIDE DEF plain, behind
  <2>1. /\ First(plain \cup behind) \in plain \cup behind
        /\ First(plain \cup behind) <= i
    BY <1>2, <1>4, FirstIsLeast
  <2>2. i <= First(plain \cup behind)
    BY <1>1, <1>2, <1>3, <2>1
  <2> QED
    BY <1>1, <1>4, <2>1, <2>2
<1>6. LookUp(c, text) = IF plain \cup behind = {} THEN NotFound
        ELSE IF First(plain \cup behind) \in plain
          THEN Found(First(plain \cup behind), FALSE, 0)
        ELSE IF Suffix[<<text, nodes[First(plain \cup behind)].id>>] = NotANumber
          THEN NotFound
        ELSE Found(First(plain \cup behind), TRUE,
                   Suffix[<<text, nodes[First(plain \cup behind)].id>>])
  BY DEF LookUp
<1> HIDE DEF plain, behind
<1> QED
  BY <1>2, <1>5, <1>6

\* What the name of an element of a range node is looked up as: the node, with the
\* element's index.
LEMMA ElementFindsRange ==
  ASSUME NEW c \in Conventions, NEW i \in DOMAIN NodesUnder[c],
         NEW command \in Addressed,
         NodesUnder[c][i].range,
         NEW index \in NodesUnder[c][i].lower..NodesUnder[c][i].upper,
         Suffix[<<command.text, NodesUnder[c][i].id>>] = index
  PROVE  LookUp(c, command.text) = Found(i, TRUE, index)
<1> DEFINE nodes  == NodesUnder[c]
           text   == command.text
           plain  == {k \in DOMAIN nodes : nodes[k].id = text}
           behind == {k \in DOMAIN nodes : /\ Suffix[<<text, nodes[k].id>>] # Absent
                                           /\ c = 5 => nodes[k].range}
<1>1. /\ DOMAIN nodes \subseteq Nat \ {0}
      /\ nodes[i].lower \in Nat /\ nodes[i].upper \in Nat
  BY NodesHave
<1>2. index \in Nat /\ index # Absent /\ index # NotANumber
  BY <1>1 DEF Absent, NotANumber
<1>3. ASSUME NEW k \in DOMAIN nodes PROVE nodes[k].id # text
  BY NamesHave
<1>4. i \in behind /\ plain = {}
  BY <1>2, <1>3
<1>5. ASSUME NEW k \in behind PROVE i <= k
  <2>1. k \in DOMAIN nodes /\ Suffix[<<text, nodes[k].id>>] # Absent
    BY <1>5
  <2>2. i = k \/ Suffix[<<nodes[i].id, nodes[k].id>>] # Absent
    BY <1>2, <2>1, SuffixHas
  <2>3. i = k \/ ~(k <= i)
    BY <2>1, <2>2, NamesHave
  <2> QED
    BY <1>1, <2>1, <2>3
<1>6. plain \cup behind \subseteq Nat
  BY <1>1
<1>7. First(plain \cup behind) = i
  <2> HIDE DEF plain, behind
  <2>1. /\ First(plain \cup behind) \in plain \cup behind
        /\ First(plain \cup behind) <= i
    BY <1>4, <1>6, FirstIsLeast
  <2>2. i <= First(plain \cup behind)
    BY <1>4, <1>5, <2>1
  <2> QED
    BY <1>1, <1>6, <2>1, <2>2
<1>8. LookUp(c, text) = IF plain \cup behind = {} THEN NotFound
        ELSE IF First(plain \cup behind) \in plain
          THEN Found(First(plain \cup behind), FALSE, 0)
        ELSE IF Suffix[<<text, nodes[First(plain \cup behind)].id>>] = NotANumber
          THEN NotFound
        ELSE Found(First(plain \cup behind), TRUE,
                   Suffix[<<text, nodes[First(plain \cup behind)].id>>])
  BY DEF LookUp
<1> HIDE DEF plain, behind
<1> QED
  BY <1>2, <1>4, <1>7, <1>8

\* A node the lookup comes up with is one of the device's, the index an integer.
LEMMA FoundIsNode ==
  ASSUME NEW c \in Conventions, NEW command \in Addressed,
         LookUp(c, command.text) # NotFound
  PROVE  /\ LookUp(c, command.text).node \in DOMAIN NodesUnder[c]
         /\ LookUp(c, command.text).index \in Int
<1> DEFINE nodes  == NodesUnder[c]
           text   == command.text
           plain  == {k \in DOMAIN nodes : nodes[k].id = text}
           behind == {k \in DOMAIN nodes : /\ Suffix[<<text, nodes[k].id>>] # Absent
                                           /\ c = 5 => nodes[k].range}
           i      == First(plain \cup behind)
<1>1. LookUp(c, text) = IF plain \cup behind = {} THEN NotFound
        ELSE IF i \in plain THEN Found(i, FALSE, 0)
        ELSE IF Suffix[<<text, nodes[i].id>>] = NotANumber THEN NotFound
        ELSE Found(i, TRUE, Suffix[<<text, nodes[i].id>>])
  BY DEF LookUp
<1>2. ASSUME plain \cup behind # {} PROVE i \in DOMAIN nodes
  <2>1. PICK k \in DOMAIN nodes : TRUE
    BY <1>2
  <2>2. DOMAIN nodes \subseteq Nat
    BY NodesHave
  <2> QED
    BY <1>2, <2>2, FirstIsLeast
<1> HIDE DEF plain, behind, i
<1>3. plain \cup behind # {} => Suffix[<<text, nodes[i].id>>] \in Int
  <2> SUFFICES ASSUME plain \cup behind # {}
               PROVE  Suffix[<<text, nodes[i].id>>] \in Int
    OBVIOUS
  <2>1. i \in DOMAIN nodes
    BY <1>2
  <2>2. Suffix[<<command.text, nodes[i].id>>] \in Nat \cup {Absent, NotANumber}
    BY <2>1, SuffixHas
  <2> QED
    BY <2>2 DEF Absent, NotANumber
<1> QED
  BY <1>1, <1>2, <1>3 DEF Found

\* A set command for a settable property of an announced node or element calls the
\* handlers with just that; no other property and no element that was not announced
\* is ever handed to the sketch.
THEOREM CommandsReach == \A c \in Conventions : ReachesItsProperty[c]
<1> SUFFICES ASSUME NEW c \in Conventions, NEW command \in Addressed
             PROVE
    LET nodes == NodesUnder[c]
        call  == Resolve(c, command)
    IN /\ command.retained /\ c # 3 => call = NoCall
       /\ \A i \in DOMAIN nodes : \A j \in DOMAIN nodes[i].properties :
            \A index \in {0} \cup nodes[i].lower..nodes[i].upper :
              /\ NameOf(c, command.text, i, index)
              /\ nodes[i].properties[j].id = command.property
              /\ nodes[i].properties[j].settable
              /\ command.retained => c = 3
              => call = [node |-> i, ranged |-> nodes[i].range,
                         index |-> index, property |-> j]
       /\ call # NoCall =>
            /\ nodes[call.node].properties[call.property].settable
            /\ nodes[call.node].range =>
                 call.index \in nodes[call.node].lower..nodes[call.node].upper
  BY DEF ReachesItsProperty
<1> DEFINE nodes == NodesUnder[c]
           call  == Resolve(c, command)
           found == LookUp(c, command.text)
           node  == nodes[found.node]
           matches == {j \in DOMAIN node.properties :
                         node.properties[j].id = command.property}
<1>1. command.retained /\ c # 3 => call = NoCall
  BY NodesAssumption DEF Resolve
<1>2. ASSUME NEW i \in DOMAIN nodes, NEW j \in DOMAIN nodes[i].properties,
             NEW index \in {0} \cup nodes[i].lower..nodes[i].upper,
             NameOf(c, command.text, i, index),
             nodes[i].properties[j].id = command.property,
             nodes[i].properties[j].settable,
             command.retained => c = 3
      PROVE  call = [node |-> i, ranged |-> nodes[i].range,
                     index |-> index, property |-> j]
  <2>1. /\ nodes[i].range \in BOOLEAN /\ i \in Nat \ {0}
        /\ DOMAIN nodes[i].properties \subseteq Nat
        /\ nodes[i].lower \in Nat /\ nodes[i].upper \in Nat
    BY NodesHave
  <2>2. found = Found(i, nodes[i].range, index)
    <3>1. CASE nodes[i].range
      <4>1. /\ index \in nodes[i].lower..nodes[i].upper
            /\ Suffix[<<command.text, nodes[i].id>>] = index
        BY <1>2, <3>1 DEF NameOf
      <4>2. found = Found(i, TRUE, index)
        BY <3>1, <4>1, ElementFindsRange
      <4> QED
        BY <2>1, <3>1, <4>2
    <3>2. CASE ~nodes[i].range
      BY <1>2, <2>1, <3>2, IdFindsNode DEF NameOf
    <3> QED
      BY <3>1, <3>2
  <2>3. found.node = i /\ found.ranged = nodes[i].range /\ found.index = index
        /\ found # NotFound
    BY <2>1, <2>2 DEF Found, NotFound
  <2>4. matches = {j}
    <3>1. \A k \in DOMAIN nodes[i].properties :
            nodes[i].properties[k].id = nodes[i].properties[j].id => k = j
      BY NamesHave
    <3>2. matches = {k \in DOMAIN nodes[i].properties :
                       nodes[i].properties[k].id = command.property}
      BY <2>3
    <3> QED
      BY <1>2, <3>1, <3>2
  <2>5. First(matches) = j
    BY <2>1, <2>4, FirstIsLeast
  <2>6. node.range => InBounds(node, found.index)
    BY <1>2, <2>1, <2>3 DEF NameOf, InBounds
  <2>7. ~(command.retained /\ c \in {4, 5})
    BY <1>2
  <2> HIDE DEF found, matches
  <2> QED
    BY <1>2, <2>3, <2>4, <2>5, <2>6, <2>7 DEF Resolve, found, matches
<1>3. ASSUME call # NoCall
      PROVE  /\ nodes[call.node].properties[call.property].settable
             /\ nodes[call.node].range =>
                  call.index \in nodes[call.node].lower..nodes[call.node].upper
  <2>1. /\ call = [node |-> found.node, ranged |-> found.ranged,
                   index |-> found.index, property |-> First(matches)]
        /\ ~(node.range /\ ~InBounds(node, found.index))
        /\ found # NotFound
        /\ node.properties[First(matches)].settable
    BY <1>3 DEF Resolve
  <2>2. found.index \in Int
    BY <2>1, FoundIsNode
  <2> HIDE DEF call
  <2>3. call.node = found.node /\ call.index = found.index
        /\ call.property = First(matches)
    BY <2>1
  <2>4. ASSUME node.range
        PROVE  found.index \in nodes[found.node].lower..nodes[found.node].upper
    <3>1. found.node \in DOMAIN nodes
      BY <2>1, FoundIsNode
    <3>2. node.lower \in Nat /\ node.upper \in Nat
      BY <3>1, NodesHave
    <3>3. InBounds(node, found.index)
      BY <2>1, <2>4
    <3> HIDE DEF found
    <3> QED
      BY <2>2, <3>2, <3>3 DEF InBounds
  <2> QED
    BY <2>1, <2>3, <2>4
<1> QED
  BY <1>1, <1>2, <1>3
=============================================================================
