--------------------------- MODULE Advertisement ---------------------------
(***************************************************************************)
(* What a device says about itself after it connects: _advertise() makes   *)
(* one publication or subscription per call and moves on when the client   *)
(* accepted it, through the device, then each node, then each property of  *)
(* it, then the subscriptions, up to $state = ready.                       *)
(*                                                                         *)
(* The convention is chosen when the firmware is built.  Under v5 the      *)
(* nodes are part of $description.                                         *)
(***************************************************************************)
EXTENDS DeviceNodes, SequencesExt

VARIABLES
  convention,
  progress,   \* AdvertisementProgress
  announced   \* what the broker has accepted over this connection

advertisement == <<progress, announced>>

Nodes == NodesUnder[convention]

-----------------------------------------------------------------------------
Device(what)           == <<what, 0, 0>>
OfNode(what, i)        == <<what, i, 0>>
OfElement(i, k)        == <<"element $name", i, k>>
OfProperty(what, i, j) == <<what, i, j>>

Init_   == "$state=init"
Ready_  == "$state=ready"

Subscriptions == <<"firmware/+", "reset", "config/set", "+/+/set", "$broadcast">>

\* AdvertisementProgress::GlobalStep, in the order of the transitions.
StepsUnder ==
  [c \in Conventions |->
     <<Init_>>
     \o (IF c = 5 THEN <<"$description">> ELSE <<"$homie", "$name">>)
     \o <<"$mac", "$localip">>
     \o (CASE c = 3 -> <<"$nodes">>
           [] c = 4 -> <<"$nodes", "$extensions">>
           [] c = 5 -> <<>>)
     \o <<"$stats", "$stats/interval", "$fw/name", "$fw/version",
          "$fw/checksum", "$implementation", "config", "version",
          "reset/reason", "wifi/reason", "mqtt/reason", "ota/enabled">>
     \o (IF c = 5 \/ NodesUnder[c] = <<>> THEN <<>> ELSE <<"nodes">>)
     \o Subscriptions
     \o <<Ready_>>]

GlobalSteps == StepsUnder[convention]

PropertySteps ==
  <<"$name", "$settable", "$retained", "$datatype", "$unit", "$format">>

\* Which attributes a property publishes; a v4 property falls back to its id
\* for a name.
Advertises(property, attribute) ==
  CASE attribute = "$name"     -> property.named \/ convention = 4
    [] attribute = "$settable" -> property.settable
    [] attribute = "$retained" -> ~property.retained
    [] attribute = "$datatype" -> property.datatype
    [] attribute = "$unit"     -> property.unit
    [] attribute = "$format"   -> property.format

-----------------------------------------------------------------------------
\* _resetAdvertisementProgress
Start == [done |-> FALSE, global |-> 1, nodeStep |-> "$name", node |-> 1,
          element |-> 0, property |-> 1, propertyStep |-> 1]

Node(p)     == Nodes[p.node]
Property(p) == Node(p).properties[p.property]

\* What a call with this progress publishes or subscribes to, if anything.
Attempt(p) ==
  IF GlobalSteps[p.global] # "nodes" THEN {Device(GlobalSteps[p.global])}
  ELSE CASE p.nodeStep = "$array" ->
              IF Node(p).range THEN {OfNode("$array", p.node)} ELSE {}
         [] p.nodeStep = "elements" -> {OfElement(p.node, p.element)}
         [] p.nodeStep = "attributes" ->
              LET attribute == PropertySteps[p.propertyStep] IN
                IF Advertises(Property(p), attribute)
                  THEN {OfProperty(attribute, p.node, p.property)} ELSE {}
         [] OTHER -> {OfNode(p.nodeStep, p.node)}

NextGlobal(p) ==
  IF p.global = Len(GlobalSteps) THEN [p EXCEPT !.done = TRUE]
  ELSE [p EXCEPT !.global = @ + 1]

\* The last node was the last registered one, or there is another.
AfterNodeMutant(p) ==
  LET fresh == [p EXCEPT !.nodeStep = "$name", !.property = 1, !.propertyStep = 1]
  IN IF p.node + 1 < Len(Nodes) THEN [fresh EXCEPT !.node = @ + 1]
     ELSE NextGlobal([fresh EXCEPT !.node = 1])
AfterNode(p) ==
  LET fresh == [p EXCEPT !.nodeStep = "$name", !.property = 1, !.propertyStep = 1]
  IN IF p.node < Len(Nodes) THEN [fresh EXCEPT !.node = @ + 1]
     ELSE NextGlobal([fresh EXCEPT !.node = 1])

AfterAttribute(p) ==
  IF p.propertyStep < Len(PropertySteps)
    THEN [p EXCEPT !.propertyStep = @ + 1]
  ELSE IF p.property < Len(Node(p).properties)
    THEN [p EXCEPT !.property = @ + 1, !.propertyStep = 1]
  ELSE AfterNode(p)

AfterNodeStep(p) ==
  CASE p.nodeStep = "$name" -> [p EXCEPT !.nodeStep = "$type"]
    [] p.nodeStep = "$type" -> [p EXCEPT !.nodeStep = "$array"]
    [] p.nodeStep = "$array" ->
         IF Node(p).range
           THEN [p EXCEPT !.nodeStep = "elements", !.element = Node(p).lower]
           ELSE [p EXCEPT !.nodeStep = "$properties"]
    [] p.nodeStep = "elements" ->
         IF p.element < Node(p).upper
           THEN [p EXCEPT !.element = @ + 1]
           ELSE [p EXCEPT !.element = Node(p).lower, !.nodeStep = "$properties"]
    [] p.nodeStep = "$properties" ->
         IF Node(p).properties # <<>>
           THEN [p EXCEPT !.nodeStep = "attributes", !.propertyStep = 1,
                          !.property = 1]
           ELSE AfterNode(p)
    [] p.nodeStep = "attributes" -> AfterAttribute(p)

Advance(p) ==
  IF GlobalSteps[p.global] = "nodes" THEN AfterNodeStep(p) ELSE NextGlobal(p)

\* One call of _advertise().  Progress stays when the client refuses (it always
\* does unless it is connected) or a buffer cannot be allocated.
AdvertiseCall(connected) ==
  \/ UNCHANGED advertisement
  \/ /\ connected \/ Attempt(progress) = {}
     /\ announced' = announced \cup Attempt(progress)
     /\ progress' = Advance(progress)

Subscribed(filter) == Device(filter) \in announced

-----------------------------------------------------------------------------
(* What the conventions ask for, apart from how the code goes about it.    *)

NodeAnnouncement(i) ==
  LET node == Nodes[i] IN
    {OfNode(what, i) : what \in {"$name", "$type", "$properties"}}
    \cup (IF node.range THEN {OfNode("$array", i)} \cup
                             {OfElement(i, k) : k \in node.lower..node.upper}
          ELSE {})
    \cup UNION {{OfProperty(a, i, j) : a \in {b \in ToSet(PropertySteps) :
                                     Advertises(node.properties[j], b)}} :
                j \in DOMAIN node.properties}

Announcement ==
  {Device(what) : what \in ToSet(GlobalSteps) \ {"nodes"}}
  \cup IF convention = 5 THEN {} ELSE UNION {NodeAnnouncement(i) : i \in DOMAIN Nodes}

\* A device that says it is ready has, over this very connection, said all
\* there is to say: $state=init before anything else, every node with its
\* elements and attributes, every subscription commands arrive through, however
\* often publications were refused and the session was interrupted on the way.
AnnouncedInFull ==
  /\ announced # {} => Device(Init_) \in announced
  /\ Device(Ready_) \in announced => announced = Announcement
  /\ progress.done => Device(Ready_) \in announced
=============================================================================
