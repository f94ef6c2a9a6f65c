---------------------------- MODULE MCMqttSession ----------------------------
(* Nodes, commands and names for TLC, and the handler of set commands over  *)
(* the same nodes.                                                         *)
EXTENDS MqttSession

CONSTANTS lamp, strip, post,               \* node ids
          strip0, strip1, strip2, strip9, stripX, nobody,  \* other names
          on, level                        \* property ids

Plain(id, properties) ==
  [id |-> id, range |-> FALSE, lower |-> 0, upper |-> 0, properties |-> properties]
Range_(id, lower, upper, properties) ==
  [id |-> id, range |-> TRUE, lower |-> lower, upper |-> upper,
   properties |-> properties]

Settable == [id |-> on, named |-> FALSE, settable |-> TRUE, retained |-> TRUE,
             datatype |-> TRUE, unit |-> FALSE, format |-> FALSE]
Sensor   == [id |-> level, named |-> TRUE, settable |-> FALSE, retained |-> FALSE,
             datatype |-> TRUE, unit |-> TRUE, format |-> TRUE]

MCConventions == {3, 4, 5}
MCNodesUnder ==
  [c \in MCConventions |->
     IF c = 4 THEN <<Plain(lamp, <<Settable>>), Plain(post, <<>>)>>
     ELSE <<Range_(strip, 1, 2, <<Settable>>), Plain(lamp, <<Sensor>>)>>]

MCBuilds == {[convention |-> 3, preallocated |-> FALSE],
             [convention |-> 4, preallocated |-> FALSE],
             [convention |-> 5, preallocated |-> TRUE]}

MCSuffix ==
  [x \in {lamp, strip, post, strip0, strip1, strip2, strip9, stripX, nobody} \X
         {lamp, strip, post} |->
     CASE x = <<strip0, strip>> -> 0 [] x = <<strip1, strip>> -> 1
       [] x = <<strip2, strip>> -> 2 [] x = <<strip9, strip>> -> 3
       [] x = <<stripX, strip>> -> NotANumber [] OTHER -> Absent]

Command(kind, value, total, longTopic) ==
  [kind |-> kind, value |-> value, total |-> total, longTopic |-> longTopic]

\* What arrives in the session, ...
MCMessage ==
  [long   |-> Command("set", "any", 3, TRUE),
   config |-> Command("config", "any", 2, FALSE),
   reset  |-> Command("reset", "true", 1, FALSE)]

\* ... and whom commands may be addressed to.
MCAddressed ==
  [text : {lamp, strip, post, strip0, strip1, strip2, strip9, stripX, nobody},
   property : {on, level}, retained : BOOLEAN]

\* Enough to fill the ring, in one of the conventions.
MCMaxMessages == [c \in MCConventions |-> IF c = 5 THEN 3 ELSE 1]

MCItem ==
  UNION {[id : 1..MaxMessages[c],
          parts : UNION {[1..n -> 0..MaxMessages[c]] : n \in 1..MaxPayload}] :
         c \in Conventions}
=============================================================================
