--------------------------- MODULE PropertyPayload ---------------------------
(***************************************************************************)
(* The payloads a property may have (Utils/ConventionValidation.hpp, in a  *)
(* build with HOMIE_STRICT_PROPERTY_VALIDATION).  A text is a sequence of  *)
(* characters; a number is what it denotes, and how it is written; a       *)
(* format is split at its colons (numbers) or commas (colours).  Numbers   *)
(* are whole; floats, dates and JSON are left out.                         *)
(***************************************************************************)
EXTENDS Integers, Sequences, SequencesExt

CONSTANT MaxInt   \* the greatest long long

ASSUME LongLong == MaxInt \in Nat

MinInt == -MaxInt - 1

\* A number, and how it is written: left out; no number; digits, perhaps after a
\* minus; with a plus or a blank before it, which strtoll() takes; as digits, but
\* in more than twenty characters; cut off, a number and then a NUL, where strtoll()
\* stops; hollow, a NUL at once, which strtoll() takes for 0.
Number ==
  [kind : {"none", "junk", "plain", "loose", "long", "cut", "hollow"}, n : Int]

NoName == ""
Comma  == ","     \* between the values of an enumeration or of a boolean

NoFormat == [parts |-> <<>>, names |-> <<>>, text |-> <<>>]
Empty    == [type |-> NoName, parts |-> <<>>, text |-> <<>>]
Nul      == [Empty EXCEPT !.text = <<"nul">>]

EndsAtNul(p) == p.kind \in {"cut", "hollow"}

HasNul(payload) ==
  \/ \E i \in DOMAIN payload.text : payload.text[i] = "nul"
  \/ \E i \in DOMAIN payload.parts : EndsAtNul(payload.parts[i])

\* The byte order mark of UTF-8 is one character here.
HasBom(payload) == payload.text # <<>> /\ payload.text[1] = "bom"

-----------------------------------------------------------------------------
(* Integers.                                                               *)

Fits(n) == MinInt <= n /\ n <= MaxInt
Wrap(n) == ((n - MinInt) % (MaxInt - MinInt + 1)) + MinInt

\* Neither takes more than twenty characters.
ParseIntegerValue(p) == p.kind \in {"plain", "loose", "cut", "hollow"} /\ Fits(p.n)
IsIntegerLiteral(p)  == p.kind = "plain" /\ Fits(p.n)

Given(p) == p.kind # "none"

IsNumericFormat(v, f) ==
  /\ Len(f) = 2 \/ (v = 5 /\ Len(f) = 3)
  /\ v # 5 => Given(f[1]) /\ Given(f[2])
  /\ \A i \in 1..2 : Given(f[i]) => IsIntegerLiteral(f[i])
  /\ Given(f[1]) /\ Given(f[2]) => f[1].n <= f[2].n
  /\ Len(f) = 3 => ParseIntegerValue(f[3]) /\ f[3].n > 0

\* Where the steps are counted from.
BaseMutant(f) == 0
Base(f) == IF Given(f[1]) THEN f[1].n ELSE IF Given(f[2]) THEN f[2].n ELSE 0

NumericPayloadMatchesFormat(v, p, f) ==
  IsNumericFormat(v, f) =>
    /\ ParseIntegerValue(p)
    /\ Given(f[1]) => p.n >= f[1].n
    /\ Given(f[2]) => p.n <= f[2].n
    /\ Len(f) = 3 => Wrap(p.n - Base(f)) % f[3].n = 0

-----------------------------------------------------------------------------
(* Enumerations.  Homie 3 writes a comma inside a value as two.            *)

\* The scan of a format against a payload: the token it is in, how long it is and
\* how much of the payload it has matched; `comma' when the last one may yet turn
\* out to be the first of two.
Scanning == [found |-> FALSE, wrong |-> FALSE, seen |-> {}, token |-> <<>>,
             matches |-> TRUE, comma |-> FALSE]

CloseToken(v, s, payload) ==
  [s EXCEPT !.found = @ \/ (s.matches /\ Len(s.token) = Len(payload)),
            !.wrong = @ \/ s.token = <<>> \/ (v = 5 /\ s.token \in s.seen),
            !.seen = @ \union {s.token},
            !.token = <<>>, !.matches = TRUE, !.comma = FALSE]

Character(s, c, payload) ==
  LET k == Len(s.token) + 1
  IN  [s EXCEPT !.token = Append(@, c), !.comma = FALSE,
                !.matches = @ /\ k <= Len(payload) /\ payload[k] = c]

ScanCharacter(v, s, c, payload) ==
  CASE s.comma /\ c = Comma  -> Character(s, Comma, payload)
    [] s.comma /\ c # Comma  -> Character(CloseToken(v, s, payload), c, payload)
    [] ~s.comma /\ c = Comma -> IF v = 3 THEN [s EXCEPT !.comma = TRUE]
                              ELSE CloseToken(v, s, payload)
    [] OTHER               -> Character(s, c, payload)

\* The states of the scan, by the number of characters it has read.
Scanned(v, f, payload) ==
  LET scan[i \in 0..Len(f)] ==
        IF i = 0 THEN Scanning ELSE ScanCharacter(v, scan[i - 1], f[i], payload)
  IN  scan

Scan(v, f, payload) ==
  LET end == Scanned(v, f, payload)[Len(f)]
  IN  CloseToken(v, IF end.comma THEN CloseToken(v, end, payload) ELSE end, payload)

IsEnumFormat(v, f) == f # <<>> /\ ~Scan(v, f, <<>>).wrong

EnumPayloadMatchesFormat(v, payload, f) ==
  IsEnumFormat(v, f) /\ Scan(v, f, payload).found

-----------------------------------------------------------------------------
(* Colours.                                                                *)

\* The last comma of a list may end it.
IsColorFormat(v, f) ==
  LET names == IF v = 5 /\ Len(f) > 1 /\ Last(f) = NoName THEN Front(f) ELSE f
  IN  IF v = 5
      THEN /\ names # <<>> /\ IsInjective(names)
           /\ \A i \in DOMAIN names : names[i] \in {"rgb", "hsv", "xyz"}
      ELSE names \in {<<"rgb">>, <<"hsv">>}

\* The components are counted in a uint8_t.
MaxComponent(type, i) ==
  CASE type = "rgb" -> 255
    [] type = "hsv" -> IF i % 256 = 1 THEN 360 ELSE 100
    [] OTHER -> 1

\* The colours of Homie 3 and 4 are read by parseIntegerValue(), those of Homie 5 by
\* parseFloatValue(), which takes any number of digits, and nothing else.
ColorPayloadValid(v, payload, f) ==
  LET type == IF v = 5 THEN payload.type ELSE f[1]
      kinds == IF v = 5 THEN {"plain", "long"} ELSE {"plain", "loose", "cut", "hollow"}
  IN  /\ IsColorFormat(v, f)
      /\ IF v = 5 THEN type # NoName /\ type \in ToSet(f) ELSE payload.type = NoName
      /\ Len(payload.parts) % 256 = IF type = "xyz" THEN 2 ELSE 3
      /\ \A i \in DOMAIN payload.parts :
           /\ payload.parts[i].kind \in kinds
           /\ payload.parts[i].n \in 0..MaxComponent(type, i)

-----------------------------------------------------------------------------
(* Durations.                                                              *)

\* The designators that may no longer come after the last one.
Closed(last) == CASE last = "H" -> {"H"} [] last = "M" -> {"H", "M"}
                  [] last = "S" -> {"H", "M", "S"} [] OTHER -> {}

DurationCharacter(s, c) ==
  CASE c = "d" -> [s EXCEPT !.digit = TRUE]
    [] c \in {"H", "M", "S"} /\ s.digit /\ c \notin Closed(s.last) ->
         [s EXCEPT !.digit = FALSE, !.last = c]
    [] OTHER -> [s EXCEPT !.wrong = TRUE]

\* The states of the loop after "PT", by the number of characters read.
DurationScanned(text) ==
  LET scan[i \in 2..Len(text)] ==
        IF i = 2 THEN [digit |-> FALSE, last |-> "none", wrong |-> FALSE]
        ELSE DurationCharacter(scan[i - 1], text[i])
  IN  scan

IsDurationPayload(text) ==
  /\ Len(text) >= 3 /\ text[1] = "P" /\ text[2] = "T"
  /\ LET end == DurationScanned(text)[Len(text)]
     IN  ~end.wrong /\ ~end.digit /\ end.last # "none"

-----------------------------------------------------------------------------
(* Datatypes.                                                              *)

ParseDatatype(v, datatype) ==
  IF datatype \in {"integer", "boolean", "string", "enum", "color"}
                    \union (IF v = 5 THEN {"duration"} ELSE {})
  THEN datatype ELSE "unknown"

IsBooleanFormat(f) ==
  /\ Len(f) >= 3
  /\ \E i \in 2..(Len(f) - 1) : /\ f[i] = Comma
                                /\ \A j \in DOMAIN f : f[j] = Comma => j = i

IsValidFormat(v, datatype, f) ==
  CASE datatype = "integer" -> IsNumericFormat(v, f.parts)
    [] datatype = "enum"    -> IsEnumFormat(v, f.text)
    [] datatype = "color"   -> IsColorFormat(v, f.names)
    [] datatype = "boolean" -> v = 5 /\ IsBooleanFormat(f.text)
    [] OTHER -> FALSE

AdvertisedDatatype(v, p) ==
  LET parsed == ParseDatatype(v, p.datatype)
  IN  CASE parsed = "unknown" -> "string"
        [] parsed \in {"enum", "color"} /\ ~IsValidFormat(v, parsed, p.format) ->
             "string"
        [] OTHER -> parsed

\* `encoded' for what comes from the broker.
PayloadMatches(v, p, payload, encoded) ==
  LET datatype == AdvertisedDatatype(v, p)
  IN  /\ v = 5 => ~HasBom(payload)
      /\ IF datatype = "string"
         THEN v = 5 => /\ encoded => payload # Empty
                       /\ (encoded /\ payload = Nul) \/ ~HasNul(payload)
         ELSE /\ payload # Empty
              /\ CASE datatype = "integer" ->
                        /\ Len(payload.parts) = 1 /\ payload.type = NoName
                        /\ IsIntegerLiteral(payload.parts[1])
                        /\ NumericPayloadMatchesFormat(v, payload.parts[1],
                                                       p.format.parts)
                   [] datatype = "boolean" ->
                        payload.text \in {<<"true">>, <<"false">>}
                   [] datatype = "enum" ->
                        EnumPayloadMatchesFormat(v, payload.text, p.format.text)
                   [] datatype = "color" ->
                        ColorPayloadValid(v, payload, p.format.names)
                   [] datatype = "duration" -> IsDurationPayload(payload.text)
=============================================================================
