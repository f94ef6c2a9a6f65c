------------------------- MODULE MCPropertyContract -------------------------
(* Ten-bit integers at every limit of a range, formats of enumerations up to *)
(* five characters, colours at the limits of their components, and durations *)
(* up to six characters.                                                     *)
EXTENDS PropertyContract

Plain(ns) == [kind : {"plain"}, n : ns]

\* Numbers that are written in other ways: of a format, which has no NUL, and of a
\* payload.
OfFormat  == [kind : {"none", "junk"}, n : {0}] \union [kind : {"loose", "long"}, n : {2}]
OfPayload == [kind : {"junk", "hollow"}, n : {0}]
             \union [kind : {"loose", "long", "cut"}, n : {2}]

\* Formats.
Numeric ==
  LET limit == Plain({-512, -1, 0, 3, 511, 512}) \union OfFormat
      step  == Plain({0, 1, 3}) \union OfFormat
  IN  {<<a>> : a \in limit} \union (limit \X limit) \union (limit \X limit \X step)

Texts(chars, n) == UNION {[1..k -> chars] : k \in 0..n}

Formats(field, values) == {[NoFormat EXCEPT ![field] = value] : value \in values}

Declared(datatype, formats) == [datatype : {datatype}, format : formats]

MCProperties ==
  Declared("integer", {NoFormat} \union Formats("parts", Numeric))
  \union Declared("enum", Formats("text", Texts({"a", "b", ","}, 5)
                                          \union {<<"bom", ",", "a">>}))
  \union Declared("boolean", Formats("text", Texts({"a", ","}, 3)))
  \union Declared("color", Formats("names", Texts({"rgb", "hsv", "xyz", ""}, 3)))
  \union Declared("string", {NoFormat} \union Formats("text", {<<"a">>}))
  \union [datatype : {"", "bogus", "duration"}, format : {NoFormat}]

\* Payloads.
Words(chars, n) == {[Empty EXCEPT !.text = text] : text \in Texts(chars, n)}
Numbers(ns) == {[Empty EXCEPT !.parts = <<p>>] : p \in Plain(ns) \union OfPayload}

Odd(kinds) == [kind : kinds, n : {0}]
First     == Plain({0, 1, 255, 256, 360, 361}) \union Odd({"junk", "loose", "cut"})
Component == Plain({-1, 0, 1, 100, 101}) \union Odd({"none", "long", "hollow"})
Third     == Plain({1, 101}) \union Odd({"none", "loose", "long", "cut"})
Colors ==
  [type : {"", "rgb", "hsv", "xyz"}, text : {<<>>},
   parts : {<<>>} \union (First \X Component) \union (First \X Component \X Third)]

Durations ==
  {[Empty EXCEPT !.text = <<"P">> \o text] : text \in Texts({"T", "d", "H", "S"}, 2)}
  \union {[Empty EXCEPT !.text = <<"P", "T">> \o text] :
            text \in Texts({"d", "H", "M", "S"}, 6)}

Strings == Words({"a", "nul", "bom"}, 2)

MCPayloads ==
  [datatype \in {"integer", "enum", "boolean", "color", "duration", "string", "",
                 "bogus"} |->
     CASE datatype = "integer"  -> {Empty} \union
                                   Numbers({-513, -512, -2, -1, 0, 2, 3, 4, 6, 511, 512})
       [] datatype = "enum"     -> Words({"a", "b", ","}, 3) \union Words({"bom"}, 1)
       [] datatype = "boolean"  -> Words({"true", "false", "a"}, 2)
       [] datatype = "color"    -> {Empty} \union Colors
       [] datatype = "duration" -> Durations
       [] OTHER                 -> Strings]

\* Colours of three components and of 256 more.
ColorProperties == Declared("color", Formats("names", {<<"rgb">>, <<"hsv">>, <<"xyz">>}))

Repeated(n) == [i \in 1..n |-> [kind |-> "plain", n |-> 1]]
ColorPayloads ==
  [datatype \in {"color"} |->
     [type : {"", "rgb", "hsv", "xyz"}, text : {<<>>},
      parts : {Repeated(n) : n \in {2, 3, 4, 258, 259, 260}}]]
=============================================================================
