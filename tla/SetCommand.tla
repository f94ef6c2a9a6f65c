----------------------------- MODULE SetCommand -----------------------------
(***************************************************************************)
(* Whom a set command is for: __handleNodeProperty finds the node by the   *)
(* second level of the topic, a range index in it, and a settable property *)
(* of that node by the third level.                                        *)
(*                                                                         *)
(* A name is told apart by how it relates to the ids of the nodes:         *)
(* Suffix[<<text, id>>] is what follows id and the separator in the text,  *)
(* '_' before v5 and '-' under it.                                         *)
(***************************************************************************)
EXTENDS DeviceNodes

CONSTANTS
  Suffix,
  Addressed   \* the set commands: [text, property, retained]

Absent == -2       \* the text is not id, separator and something
NotANumber == -1   \* parseRangeIndex refuses what is behind the separator

\* No two nodes have one id, nor two properties of a node; no node has the name of
\* an element of a range, nor an id that reads like an element of a node registered
\* before it: under v5 that one would take its commands.
Unambiguous(nodes) ==
  \A i, j \in DOMAIN nodes :
    /\ nodes[i].id = nodes[j].id => i = j
    /\ \A k, l \in DOMAIN nodes[i].properties :
         nodes[i].properties[k].id = nodes[i].properties[l].id => k = l
    /\ i <= j => Suffix[<<nodes[j].id, nodes[i].id>>] = Absent
    /\ nodes[i].range => Suffix[<<nodes[j].id, nodes[i].id>>]
                         \notin nodes[i].lower..nodes[i].upper

\* A text that is an id, the separator and a number is so of no longer id, and
\* starts with a shorter one only if the id itself does.
Legible(nodes, text) ==
  \A i, j \in DOMAIN nodes :
    /\ Suffix[<<text, nodes[i].id>>] \in Nat \cup {Absent, NotANumber}
    /\ /\ Suffix[<<text, nodes[i].id>>] \in Nat
       /\ Suffix[<<text, nodes[j].id>>] # Absent
       => i = j \/ Suffix[<<nodes[i].id, nodes[j].id>>] # Absent

ASSUME NamesAssumption ==
  \A c \in Conventions :
    /\ Unambiguous(NodesUnder[c])
    /\ \A command \in Addressed : Legible(NodesUnder[c], command.text)

NoCall == [node |-> 0, ranged |-> FALSE, index |-> 0, property |-> 0]

Found(i, ranged, index) == [node |-> i, ranged |-> ranged, index |-> index]
NotFound == Found(0, FALSE, 0)

First(S) == CHOOSE i \in S : \A j \in S : i <= j

\* Under v5 the nodes are asked in turn, only range nodes for a suffix; before,
\* the text is cut at its first '_' and the rest looked up.
LookUp(c, text) ==
  LET nodes  == NodesUnder[c]
      plain  == {i \in DOMAIN nodes : nodes[i].id = text}
      behind == {i \in DOMAIN nodes : /\ Suffix[<<text, nodes[i].id>>] # Absent
                                      /\ c = 5 => nodes[i].range}
      i      == First(plain \cup behind)
  IN IF plain \cup behind = {} THEN NotFound
     ELSE IF i \in plain THEN Found(i, FALSE, 0)
     ELSE IF Suffix[<<text, nodes[i].id>>] = NotANumber THEN NotFound
     ELSE Found(i, TRUE, Suffix[<<text, nodes[i].id>>])

InBoundsMutant(node, index) == node.lower <= index /\ index <= node.upper + 1
InBounds(node, index)       == node.lower <= index /\ index <= node.upper

\* What the input handlers are called with, if at all.
Resolve(c, command) ==
  LET found   == LookUp(c, command.text)
      node    == NodesUnder[c][found.node]
      matches == {j \in DOMAIN node.properties :
                    node.properties[j].id = command.property}
  IN IF \/ command.retained /\ c \in {4, 5}
        \/ found = NotFound
        \/ node.range /\ ~InBounds(node, found.index)
        \/ matches = {}
        \/ ~node.properties[First(matches)].settable
     THEN NoCall
     ELSE [node |-> found.node, ranged |-> found.ranged, index |-> found.index,
           property |-> First(matches)]

-----------------------------------------------------------------------------
(* The names nodes and their elements are announced under.                 *)

NameOf(c, text, i, index) ==
  LET node == NodesUnder[c][i] IN
    IF node.range
      THEN index \in node.lower..node.upper /\ Suffix[<<text, node.id>>] = index
      ELSE index = 0 /\ node.id = text

\* A set command for a settable property of an announced node, or of an element
\* of one, calls the handlers with just that, unless it is retained and the
\* convention forbids it; an unannounced element of a range is never handed to
\* the sketch, nor a property that is not settable.
ReachesItsProperty ==
  [c \in Conventions |-> \A command \in Addressed :
    LET nodes == NodesUnder[c]
        call  == Resolve(c, command)
    IN /\ command.retained /\ c # 3 => call = NoCall
       /\ \A i \in DOMAIN nodes : \A j \in DOMAIN nodes[i].properties :
            \A index \in {0} \cup nodes[i].lower..nodes[i].upper :
              /\ NameOf(c, command.text, i, index)
              /\ nodes[i].properties[j].id = command.property
              /\ nodes[i].properties[j].settable
              /\ command.retained => c = 3
              => call = [node |-> i, ranged |-> nodes[i].range,
                         index |-> index, property |-> j]
       /\ call # NoCall =>
            /\ nodes[call.node].properties[call.property].settable
            /\ nodes[call.node].range =>
                 call.index \in nodes[call.node].lower..nodes[call.node].upper]
=============================================================================
