-------------------------- MODULE PropertyContract --------------------------
(***************************************************************************)
(* A property between the sketch that declares it and a controller that    *)
(* has only read its $datatype and $format: what the sketch may publish,   *)
(* and which commands reach it, in a build with strict validation.         *)
(***************************************************************************)
EXTENDS PropertyPayload

CONSTANTS
  Versions,     \* of the convention: 3, 4, 5
  Properties,   \* declarations of a sketch, [datatype, format]
  Payloads,     \* for each datatype, the payloads somebody tries
  None          \* nothing advertised; no exchange

\* A payload is one of three things: numbers with or without a colour's name, a
\* text, or nothing, which is Empty and not one part left out.  A format is a C
\* string.
Format  == [parts : Seq(Number), names : Seq(STRING), text : Seq(STRING)]
Payload == [type : STRING, parts : Seq(Number), text : Seq(STRING)]

ASSUME ContractAssumption ==
  /\ Versions \subseteq {3, 4, 5}
  /\ \A p \in Properties : p.format \in Format /\ ~HasNul(p.format)
  /\ \A p \in Properties : \A payload \in Payloads[p.datatype] :
       /\ payload \in Payload
       /\ payload.text # <<>> => payload.type = NoName /\ payload.parts = <<>>
       /\ payload.type = NoName /\ Len(payload.parts) = 1
            => payload.parts[1].kind # "none"

VARIABLES
  version,      \* HOMIE_CONVENTION_VERSION
  property,     \* the Property object
  attributes,   \* its $datatype and $format, as a controller reads them
  exchange      \* the last value published or command handled, and its fate

vars == <<version, property, attributes, exchange>>

Init ==
  /\ version \in Versions
  /\ property \in Properties
  /\ attributes = None /\ exchange = None

\* $datatype, unless Homie 3 lets it default to string, and $format.
Advertised(v, p) ==
  LET datatype == AdvertisedDatatype(v, p)
  IN  [datatype |-> IF v = 3 /\ p.datatype = NoName THEN "string" ELSE datatype,
       format |-> IF IsValidFormat(v, datatype, p.format) THEN p.format ELSE NoFormat]

Advertise ==
  /\ attributes = None
  /\ attributes' = Advertised(version, property)
  /\ UNCHANGED <<version, property, exchange>>

\* What c_str() and String(const char* ) make of a payload: what is before its
\* first NUL.
CString(payload) ==
  LET nul  == SelectInSeq(payload.text, LAMBDA c : c = "nul")
      part == SelectInSeq(payload.parts, LAMBDA p : EndsAtNul(p))
      last == [payload.parts[part] EXCEPT
                 !.kind = IF @ = "cut" THEN "plain" ELSE "none"]
  IN  CASE nul # 0  -> [payload EXCEPT !.text = SubSeq(@, 1, nul - 1)]
        [] nul = 0 /\ part # 0 ->
             IF part = 1 /\ last.kind = "none" /\ payload.type = NoName THEN Empty
             ELSE [payload EXCEPT !.parts = Append(SubSeq(@, 1, part - 1), last)]
        [] OTHER -> payload

PublishedMutant(v, value) == CString(value)
\* An empty string of Homie 5 is one NUL: an empty payload would clear the topic.
Published(v, value) == IF v = 5 /\ value = Empty THEN Nul ELSE CString(value)

Send(value) ==
  /\ exchange' = [way |-> "send", value |-> value,
                  bytes |-> Published(version, value),
                  accepted |-> PayloadMatches(version, property, value, FALSE)]
  /\ UNCHANGED <<version, property, attributes>>

\* An empty message is discarded as it arrives.
Arrives(bytes) == bytes # Empty

Command(bytes) ==
  /\ exchange' = [way |-> "command", value |-> CString(bytes), bytes |-> bytes,
                  accepted |-> /\ Arrives(bytes)
                               /\ PayloadMatches(version, property, bytes, TRUE)]
  /\ UNCHANGED <<version, property, attributes>>

\* The next exchange depends on nothing of the last.
Done ==
  /\ exchange # None
  /\ exchange' = None
  /\ UNCHANGED <<version, property, attributes>>

Next ==
  \/ Advertise \/ Done
  \/ /\ attributes # None /\ exchange = None
     /\ \E payload \in Payloads[property.datatype] : Send(payload) \/ Command(payload)

Spec == Init /\ [][Next]_vars

-----------------------------------------------------------------------------
(* What a controller makes of the attributes and of a payload.             *)

\* A run of commas of Homie 3 is so many commas of the value, two for one, and a
\* separator if one is left; elsewhere every comma separates.
Unpaired(f, i) ==
  /\ f[i] = Comma
  /\ \E j \in 1..i : /\ \A k \in j..i : f[k] = Comma
                     /\ j = 1 \/ f[j - 1] # Comma
                     /\ (i - j) % 2 = 0

Separates(v, f, i) ==
  /\ f[i] = Comma
  /\ v = 3 => Unpaired(f, i) /\ (i = Len(f) \/ f[i + 1] # Comma)

\* Where the characters of a value end when it is written down.
Written(v, value) ==
  LET end[k \in 0..Len(value)] ==
        IF k = 0 THEN 0
        ELSE end[k - 1] + (IF v = 3 /\ value[k] = Comma THEN 2 ELSE 1)
  IN  end

\* What is between two places of a format is this value.
IsWritten(v, f, from, to, value) ==
  LET end == Written(v, value)
  IN  /\ end[Len(value)] = to - from - 1
      /\ \A k \in 1..Len(value) : \A i \in (end[k - 1] + 1)..end[k] :
           f[from + i] = value[k]

Bounds(v, f, i) == i \in {0, Len(f) + 1} \/ Separates(v, f, i)

\* Two bounds with no other between them.
Adjacent(v, f, from, to) ==
  /\ from < to
  /\ Bounds(v, f, from) /\ Bounds(v, f, to)
  /\ \A i \in (from + 1)..(to - 1) : ~Separates(v, f, i)

ValueOfEnum(v, f, value) ==
  \E from, to \in 0..(Len(f) + 1) :
    Adjacent(v, f, from, to) /\ IsWritten(v, f, from, to, value)

\* Within the bounds, and a whole number of steps away from the base.
ValueOfRange(f, n) ==
  f # <<>> =>
    /\ f[1].kind = "none" \/ f[1].n <= n
    /\ f[2].kind = "none" \/ n <= f[2].n
    /\ Len(f) = 3 =>
         \E steps \in MinInt..MaxInt :
           n = steps * f[3].n + (IF f[1].kind # "none" THEN f[1].n
                                 ELSE IF f[2].kind # "none" THEN f[2].n ELSE 0)

Components ==
  [space \in {"rgb", "hsv", "xyz"} |->
     CASE space = "rgb" -> <<255, 255, 255>>
       [] space = "hsv" -> <<360, 100, 100>>
       [] space = "xyz" -> <<1, 1>>]

ValueOfColor(v, names, payload, kinds) ==
  \E space \in DOMAIN Components \intersect ToSet(names) :
    /\ payload.type = IF v = 5 THEN space ELSE NoName
    /\ DOMAIN payload.parts = DOMAIN Components[space]
    /\ \A i \in DOMAIN payload.parts :
         /\ payload.parts[i].kind \in kinds
         /\ payload.parts[i].n \in 0..Components[space][i]

\* Hours, minutes and seconds, in this order, and at least one of them.
IsGroup(text, from, to, unit) ==
  \/ from = to
  \/ /\ to >= from + 2 /\ text[to] = unit
     /\ \A i \in (from + 1)..(to - 1) : text[i] = "d"

ValueOfDuration(text) ==
  /\ Len(text) > 2 /\ text[1] = "P" /\ text[2] = "T"
  /\ \E h \in 2..Len(text) : \E m \in h..Len(text) :
       /\ IsGroup(text, 2, h, "H") /\ IsGroup(text, h, m, "M")
       /\ IsGroup(text, m, Len(text), "S")

\* `kinds' are the ways in which the components of a colour may be written.
Conforms(v, a, payload, kinds) ==
  /\ v = 5 => ~HasBom(payload)
  /\ CASE a.datatype = "string" ->
            v = 5 => payload # Empty /\ (HasNul(payload) => payload = Nul)
       [] a.datatype = "boolean" -> payload.text \in {<<"true">>, <<"false">>}
       [] a.datatype = "integer" ->
            /\ payload.type = NoName
            /\ Len(payload.parts) = 1 /\ payload.parts[1].kind = "plain"
            /\ payload.parts[1].n \in MinInt..MaxInt
            /\ ValueOfRange(a.format.parts, payload.parts[1].n)
       [] a.datatype = "enum"     -> ValueOfEnum(v, a.format.text, payload.text)
       [] a.datatype = "color"    -> ValueOfColor(v, a.format.names, payload, kinds)
       [] a.datatype = "duration" -> ValueOfDuration(payload.text)

\* Digits in at most twenty characters, and what the code also takes in a colour.
Strict    == {"plain"}
Tolerated == {"plain", "loose", "long", "cut", "hollow"}

Meaning(v, bytes) == IF v = 5 /\ bytes = Nul THEN Empty ELSE bytes

\* The steps between a payload and its base are counted in a long long, the
\* components of a colour in eight bits.
Countable(a, payload) ==
  /\ a.datatype = "integer" /\ Len(a.format.parts) = 3 /\ Len(payload.parts) = 1
       => Fits(payload.parts[1].n - Base(a.format.parts))
  /\ a.datatype = "color" => Len(payload.parts) < 256

-----------------------------------------------------------------------------
(* Properties                                                              *)

\* What the attributes promise to go through.
Promised ==
  /\ Conforms(version, attributes, exchange.bytes, Strict)
  /\ ~HasNul(exchange.value)
  /\ exchange.way = "send" \/ Arrives(exchange.bytes)

\* What the sketch may publish and what reaches its handlers is what a controller
\* that reads $datatype and $format expects.  Nothing of it is refused, if it is
\* written in at most twenty characters: but for the empty command, which is
\* discarded before anything is validated, so that no command sets a string of Homie
\* 3 or 4 to the empty one.  And nothing else passes, but for the way the components
\* of a colour are written.  A value of the sketch with a NUL in it is out of this
\* under Homie 3 and 4, which publish what is before the NUL.
AdvertisedIsEnforced ==
  exchange # None /\ Countable(attributes, exchange.bytes) =>
    /\ Promised => exchange.accepted
    /\ exchange.accepted /\ (version = 5 \/ ~HasNul(exchange.value)) =>
         Conforms(version, attributes, exchange.bytes, Tolerated)

\* "incoming `/set` commands with invalid payloads are ignored before application
\* handlers run" (docs/advanced-usage/compiler-flags.md:141).
InvalidCommandsAreIgnored ==
  exchange # None /\ exchange.way = "command" /\ exchange.accepted =>
    Conforms(version, attributes, exchange.bytes, Tolerated)

\* Under Homie 5 a value means the same on both sides, the empty string too, and
\* no publication clears the retained value.
MeaningSurvives ==
  exchange # None /\ version = 5 /\ exchange.accepted =>
    exchange.bytes # Empty /\ Meaning(version, exchange.bytes) = exchange.value
=============================================================================
