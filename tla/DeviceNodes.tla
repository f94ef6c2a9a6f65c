----------------------------- MODULE DeviceNodes -----------------------------
(***************************************************************************)
(* The nodes a sketch registers, in order, under the convention its        *)
(* firmware is built for.  A node has an id, bounds if it is a range, and  *)
(* properties; a property an id and what its setters were given: a name, a *)
(* handler (settable), retained, a datatype, a unit and a format.          *)
(*                                                                         *)
(* Indices count from 1, those of the code from 0.                         *)
(***************************************************************************)
EXTENDS Integers, Sequences

CONSTANTS
  Conventions,  \* HOMIE_CONVENTION_V3, _V4, _V5
  NodesUnder

IsSequence(s) == s \in Seq({s[i] : i \in DOMAIN s})

\* HomieNode::nodes and a node's _properties are vectors, the bounds of a range
\* 16-bit numbers; BootNormal::setup() stops a v4 firmware with a range node.
ASSUME NodesAssumption ==
  /\ Conventions \subseteq {3, 4, 5}
  /\ \A c \in Conventions :
       /\ IsSequence(NodesUnder[c])
       /\ \A i \in DOMAIN NodesUnder[c] :
            LET node == NodesUnder[c][i] IN
              /\ IsSequence(node.properties)
              /\ node.range \in BOOLEAN /\ {node.lower, node.upper} \subseteq Nat
              /\ node.range => c # 4 /\ node.lower <= node.upper
=============================================================================
