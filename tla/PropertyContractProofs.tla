----------------------- MODULE PropertyContractProofs -----------------------
(***************************************************************************)
(* What a strict build enforces is what it advertises, for all properties, *)
(* formats and payloads that PropertyPayload describes: its datatypes, and *)
(* whole numbers.  The loops of the code are recursive functions here;     *)
(* LeastElement is what induction on them rests on.                        *)
(***************************************************************************)
EXTENDS PropertyContract, WellFoundedInduction, TLAPS

-----------------------------------------------------------------------------
(* Induction and recursion along an interval of numbers.                   *)

\* A set of numbers has a least one.
LEMMA LeastElement ==
  ASSUME NEW S, S \subseteq Nat, S # {}
  PROVE  \E x \in S : \A y \in S : x <= y
<1> DEFINE R == OpToRel(<, Nat)
<1>1. \A x, y \in Nat : <<y, x>> \in R <=> y < x
  BY DEF OpToRel
<1>2. IsWellFoundedOn(R, Nat)
  BY NatLessThanWellFounded
<1> HIDE DEF R
<1>3. PICK x \in S : \A y \in S : ~(<<y, x>> \in R)
  BY <1>2, WFMin
<1>4. ASSUME NEW y \in S PROVE x <= y
  <2>1. x \in Nat /\ y \in Nat
    OBVIOUS
  <2>2. ~(y < x)
    BY <1>1, <1>3, <2>1
  <2> QED
    BY <2>1, <2>2
<1> QED
  BY <1>4

\* A set with the first number of an interval, and with the successor of each it
\* has, has all of them.
LEMMA Induction ==
  ASSUME NEW m \in Nat, NEW n \in Nat, NEW S, m \in S,
         \A i \in m..n : i \in S /\ i + 1 <= n => i + 1 \in S
  PROVE  \A i \in m..n : i \in S
<1> DEFINE T == {i \in m..n : i \notin S}
<1> SUFFICES ASSUME T # {} PROVE FALSE
  OBVIOUS
<1>1. PICK x \in T : \A y \in T : x <= y
  <2>1. T \subseteq Nat
    OBVIOUS
  <2> QED
    BY <2>1, LeastElement
<1>2. x \in Nat /\ x - 1 \in m..n /\ x - 1 \notin T
  BY <1>1
<1>3. (x - 1) + 1 = x /\ x <= n
  BY <1>1, <1>2
<1> QED
  BY <1>1, <1>2, <1>3

\* The functions that start with a state and go on with a step: there is one.
Runs(m, n, State, start, step) ==
  {g \in [m..n -> State] : /\ g[m] = start
                           /\ \A i \in (m + 1)..n : g[i] = step[<<i, g[i - 1]>>]}

LEMMA Recursion ==
  ASSUME NEW m \in Nat, NEW n \in Nat, m <= n, NEW State, NEW start \in State,
         NEW step \in [((m + 1)..n) \X State -> State]
  PROVE  Runs(m, n, State, start, step) # {}
<1> DEFINE RunsTo(k) == Runs(m, k, State, start, step)
           S == {k \in m..n : RunsTo(k) # {}}
<1>1. m \in S
  <2> DEFINE g == [i \in m..m |-> start]
  <2>1. g \in RunsTo(m)
    BY DEF Runs
  <2> HIDE DEF RunsTo, g
  <2> QED
    BY <2>1
<1>2. ASSUME NEW k \in m..n, k \in S, k + 1 <= n PROVE k + 1 \in S
  <2>1. PICK g \in RunsTo(k) : TRUE
    BY <1>2
  <2> DEFINE next == step[<<k + 1, g[k]>>]
             h == [i \in m..(k + 1) |-> IF i = k + 1 THEN next ELSE g[i]]
  <2>2. g \in [m..k -> State] /\ k \in m..k /\ k + 1 \in (m + 1)..n
    BY <1>2, <2>1 DEF Runs
  <2>3. next \in State
    <3>1. g[k] \in State
      BY <2>2
    <3>2. <<k + 1, g[k]>> \in ((m + 1)..n) \X State
      BY <2>2, <3>1
    <3> QED
      BY <3>2
  <2> HIDE DEF next
  <2>4. h \in [m..(k + 1) -> State]
    BY <2>2, <2>3
  <2>5. h[m] = start
    BY <2>1, <2>2 DEF Runs
  <2>6. ASSUME NEW i \in (m + 1)..(k + 1) PROVE h[i] = step[<<i, h[i - 1]>>]
    <3>1. i - 1 \in m..(k + 1) /\ i - 1 # k + 1 /\ h[i - 1] = g[i - 1]
      BY <2>6, <2>2
    <3>2. CASE i = k + 1
      <4>1. i - 1 = k /\ h[i] = next
        BY <2>2, <3>2
      <4> QED
        BY <3>1, <3>2, <4>1 DEF next
    <3>3. CASE i # k + 1
      <4>1. i \in (m + 1)..k /\ h[i] = g[i]
        BY <2>2, <2>6, <3>3
      <4>2. g[i] = step[<<i, g[i - 1]>>]
        BY <2>1, <4>1 DEF Runs
      <4> QED
        BY <3>1, <4>1, <4>2
    <3> QED
      BY <3>2, <3>3
  <2> HIDE DEF h
  <2>7. h \in RunsTo(k + 1)
    BY <2>4, <2>5, <2>6 DEF Runs
  <2>8. k + 1 \in m..n
    BY <1>2
  <2> HIDE DEF RunsTo
  <2> QED
    BY <2>7, <2>8
<1> HIDE DEF S
<1>3. n \in S
  <2> HIDE DEF RunsTo
  <2>1. \A k \in m..n : k \in S
    BY <1>1, <1>2, Induction
  <2> QED
    BY <2>1
<1> QED
  BY <1>3 DEF S
-----------------------------------------------------------------------------
(* The scan of an enumeration.                                             *)

Char == STRING \union {Comma, "nul"}

ScanState ==
  [found : BOOLEAN, wrong : BOOLEAN, seen : SUBSET Seq(Char), token : Seq(Char),
   matches : BOOLEAN, comma : BOOLEAN]

\* What closing a token does to a state of the scan.
LEMMA CloseTokenIs ==
  ASSUME NEW v, NEW s \in ScanState, NEW payload \in Seq(Char)
  PROVE  LET t == CloseToken(v, s, payload) IN
           /\ t \in ScanState
           /\ t.found = (s.found \/ (s.matches /\ Len(s.token) = Len(payload)))
           /\ ~t.wrong => ~s.wrong /\ s.token # <<>>
           /\ t.token = <<>> /\ t.matches /\ ~t.comma
<1> DEFINE t == CloseToken(v, s, payload)
<1>1. s.found \in BOOLEAN /\ s.wrong \in BOOLEAN /\ s.seen \in SUBSET Seq(Char)
      /\ s.token \in Seq(Char) /\ s.matches \in BOOLEAN
  BY DEF ScanState
<1> DEFINE found == s.found \/ (s.matches /\ Len(s.token) = Len(payload))
           wrong == s.wrong \/ s.token = <<>> \/ (v = 5 /\ s.token \in s.seen)
           seen  == s.seen \union {s.token}
<1>2. found \in BOOLEAN /\ wrong \in BOOLEAN /\ seen \in SUBSET Seq(Char)
      /\ <<>> \in Seq(Char)
  BY <1>1
<1>3. t = [s EXCEPT !.found = found, !.wrong = wrong, !.seen = seen,
                    !.token = <<>>, !.matches = TRUE, !.comma = FALSE]
  BY DEF CloseToken
<1>4. ~wrong => ~s.wrong /\ s.token # <<>>
  OBVIOUS
<1> HIDE DEF found, wrong, seen, t
<1>5. t \in ScanState /\ t.found = found /\ t.wrong = wrong
      /\ t.token = <<>> /\ t.matches = TRUE /\ t.comma = FALSE
  BY <1>2, <1>3 DEF ScanState
<1> QED
  BY <1>4, <1>5 DEF found, t

\* What a character of a token does to it.
LEMMA CharacterIs ==
  ASSUME NEW s \in ScanState, NEW c \in Char, NEW payload \in Seq(Char)
  PROVE  LET t == Character(s, c, payload)
             k == Len(s.token) + 1
         IN /\ t \in ScanState
            /\ t.found = s.found /\ t.wrong = s.wrong
            /\ Len(t.token) = k
            /\ t.matches = (s.matches /\ k <= Len(payload) /\ payload[k] = c)
            /\ ~t.comma
<1> DEFINE t == Character(s, c, payload)
           k == Len(s.token) + 1
<1>1. s.found \in BOOLEAN /\ s.wrong \in BOOLEAN /\ s.seen \in SUBSET Seq(Char)
      /\ s.token \in Seq(Char) /\ s.matches \in BOOLEAN
  BY DEF ScanState
<1> DEFINE token   == Append(s.token, c)
           matches == s.matches /\ k <= Len(payload) /\ payload[k] = c
<1>2. token \in Seq(Char) /\ Len(token) = k /\ matches \in BOOLEAN
  BY <1>1
<1>3. t = [s EXCEPT !.token = token, !.comma = FALSE, !.matches = matches]
  BY DEF Character
<1> HIDE DEF token, matches, t
<1>4. t \in ScanState /\ t.found = s.found /\ t.wrong = s.wrong
      /\ t.token = token /\ t.matches = matches /\ t.comma = FALSE
  BY <1>2, <1>3 DEF ScanState
<1> QED
  BY <1>2, <1>4 DEF matches, t

\* The scan reads one character after the other.
LEMMA ScannedIs ==
  ASSUME NEW v, NEW f \in Seq(Char), NEW payload \in Seq(Char)
  PROVE  LET scan == Scanned(v, f, payload) IN
           /\ scan \in [0..Len(f) -> ScanState]
           /\ scan[0] = Scanning
           /\ \A i \in 1..Len(f) :
                scan[i] = ScanCharacter(v, scan[i - 1], f[i], payload)
<1> DEFINE n == Len(f)
           scan == Scanned(v, f, payload)
           step == [x \in (1..n) \X ScanState |->
                      ScanCharacter(v, x[2], f[x[1]], payload)]
<1>1. n \in Nat
  OBVIOUS
<1>2. Scanning \in ScanState
  BY DEF Scanning, ScanState
<1>3. ASSUME NEW s \in ScanState, NEW c \in Char
      PROVE  ScanCharacter(v, s, c, payload) \in ScanState
  <2>1. [s EXCEPT !.comma = TRUE] \in ScanState
    BY DEF ScanState
  <2>2. CloseToken(v, s, payload) \in ScanState
    BY CloseTokenIs
  <2>3. Comma \in Char
    BY DEF Char
  <2>4. /\ Character(s, Comma, payload) \in ScanState
        /\ Character(CloseToken(v, s, payload), c, payload) \in ScanState
        /\ Character(s, c, payload) \in ScanState
    BY <2>2, <2>3, CharacterIs
  <2> QED
    BY <2>1, <2>2, <2>4 DEF ScanCharacter
<1>4. step \in [(1..n) \X ScanState -> ScanState]
  <2>1. ASSUME NEW x \in (1..n) \X ScanState
        PROVE  ScanCharacter(v, x[2], f[x[1]], payload) \in ScanState
    <3>1. x[2] \in ScanState /\ x[1] \in 1..n
      OBVIOUS
    <3>2. f[x[1]] \in Char
      BY <3>1
    <3> QED
      BY <1>3, <3>1, <3>2
  <2> QED
    BY <2>1
<1>5. ASSUME NEW i \in 1..n, NEW s \in ScanState
      PROVE  step[<<i, s>>] = ScanCharacter(v, s, f[i], payload)
  OBVIOUS
<1> HIDE DEF step
<1>6. PICK g \in [0..n -> ScanState] :
        g[0] = Scanning /\ \A i \in 1..n : g[i] = step[<<i, g[i - 1]>>]
  <2>1. (0 + 1)..n = 1..n /\ 0 \in Nat /\ 0 <= n
    BY <1>1
  <2>2. step \in [((0 + 1)..n) \X ScanState -> ScanState]
    BY <1>4, <2>1
  <2>3. Runs(0, n, ScanState, Scanning, step) # {}
    BY <1>1, <1>2, <2>1, <2>2, Recursion
  <2> QED
    BY <2>1, <2>3 DEF Runs
<1>7. ASSUME NEW i \in 1..n
      PROVE  g[i] = ScanCharacter(v, g[i - 1], f[i], payload)
  <2>1. i - 1 \in 0..n
    BY <1>1
  <2>2. g[i - 1] \in ScanState
    BY <1>6, <2>1
  <2> QED
    BY <1>5, <1>6, <2>1, <2>2
<1>8. g = [i \in 0..n |-> IF i = 0 THEN Scanning
                          ELSE ScanCharacter(v, g[i - 1], f[i], payload)]
  BY <1>1, <1>6, <1>7
<1>9. scan = [i \in 0..n |-> IF i = 0 THEN Scanning
                             ELSE ScanCharacter(v, scan[i - 1], f[i], payload)]
  <2>1. scan = CHOOSE h : h = [i \in 0..n |-> IF i = 0 THEN Scanning
                                 ELSE ScanCharacter(v, h[i - 1], f[i], payload)]
    BY DEF Scanned
  <2> HIDE DEF scan
  <2> QED
    BY <1>8, <2>1
<1> HIDE DEF scan
<1>10. scan[0] = Scanning
       /\ \A i \in 1..n : scan[i] = ScanCharacter(v, scan[i - 1], f[i], payload)
  BY <1>1, <1>9
<1>11. \A i \in 0..n : scan[i] \in ScanState
  <2> DEFINE S == {i \in 0..n : scan[i] \in ScanState}
  <2>1. 0 \in S
    BY <1>1, <1>2, <1>10
  <2>2. ASSUME NEW i \in 0..n, i \in S, i + 1 <= n PROVE i + 1 \in S
    <3>1. i + 1 \in 1..n /\ (i + 1) - 1 = i /\ f[i + 1] \in Char
      BY <2>2
    <3>2. scan[i + 1] = ScanCharacter(v, scan[i], f[i + 1], payload)
      BY <1>10, <3>1
    <3>3. i + 1 \in 0..n
      BY <3>1
    <3> QED
      BY <1>3, <2>2, <3>1, <3>2, <3>3
  <2>3. \A i \in 0..n : i \in S
    <3> HIDE DEF S
    <3> QED
      BY <1>1, <2>1, <2>2, Induction
  <2> QED
    BY <2>3
<1>12. scan \in [0..n -> ScanState]
  BY <1>9, <1>11
<1> QED
  BY <1>10, <1>12 DEF scan

\* Where the characters of a value end: each takes a place, or two.
LEMMA WrittenIs ==
  ASSUME NEW v, NEW value \in Seq(Char)
  PROVE  LET end == Written(v, value) IN
           /\ end \in [0..Len(value) -> Nat]
           /\ end[0] = 0
           /\ \A k \in 1..Len(value) :
                end[k] = end[k - 1] + (IF v = 3 /\ value[k] = Comma THEN 2 ELSE 1)
<1> DEFINE n == Len(value)
           end == Written(v, value)
           width(k) == IF v = 3 /\ value[k] = Comma THEN 2 ELSE 1
           step == [x \in (1..n) \X Nat |-> x[2] + width(x[1])]
<1>1. n \in Nat /\ (0 + 1)..n = 1..n
  OBVIOUS
<1>2. \A k : width(k) \in Nat
  OBVIOUS
<1> HIDE DEF width
<1>3. step \in [(1..n) \X Nat -> Nat]
  BY <1>2
<1>4. ASSUME NEW k \in 1..n, NEW e \in Nat PROVE step[<<k, e>>] = e + width(k)
  OBVIOUS
<1> HIDE DEF step
<1>5. PICK g \in [0..n -> Nat] :
        g[0] = 0 /\ \A k \in 1..n : g[k] = step[<<k, g[k - 1]>>]
  <2> HIDE DEF n
  <2>0. 0 \in Nat /\ 0 <= n /\ step \in [((0 + 1)..n) \X Nat -> Nat]
    BY <1>1, <1>3
  <2>1. Runs(0, n, Nat, 0, step) # {}
    BY <1>1, <2>0, Recursion
  <2> QED
    BY <1>1, <2>1 DEF Runs
<1>6. ASSUME NEW k \in 1..n PROVE g[k] = g[k - 1] + width(k)
  <2>1. k - 1 \in 0..n
    BY <1>1
  <2>2. g[k - 1] \in Nat
    BY <1>5, <2>1
  <2> QED
    BY <1>4, <1>5, <2>2
<1>7. g = [k \in 0..n |-> IF k = 0 THEN 0 ELSE g[k - 1] + width(k)]
  BY <1>1, <1>5, <1>6
<1>8. end = [k \in 0..n |-> IF k = 0 THEN 0 ELSE end[k - 1] + width(k)]
  <2>1. end = CHOOSE h : h = [k \in 0..n |-> IF k = 0 THEN 0 ELSE h[k - 1] + width(k)]
    BY DEF Written, width
  <2> HIDE DEF end
  <2> QED
    BY <1>7, <2>1
<1> HIDE DEF end
<1>9. end[0] = 0 /\ \A k \in 1..n : end[k] = end[k - 1] + width(k)
  BY <1>1, <1>8
<1>10. \A k \in 0..n : end[k] \in Nat
  <2> DEFINE S == {k \in 0..n : end[k] \in Nat}
  <2>1. 0 \in S
    BY <1>1, <1>9
  <2>2. ASSUME NEW k \in 0..n, k \in S, k + 1 <= n PROVE k + 1 \in S
    <3>1. k + 1 \in 1..n /\ (k + 1) - 1 = k
      BY <2>2
    <3>2. end[k + 1] = end[k] + width(k + 1)
      BY <1>9, <3>1
    <3> QED
      BY <1>2, <2>2, <3>1, <3>2
  <2>3. \A k \in 0..n : k \in S
    <3> HIDE DEF S
    <3> QED
      BY <1>1, <2>1, <2>2, Induction
  <2> QED
    BY <2>3
<1>11. end \in [0..n -> Nat]
  BY <1>8, <1>10
<1> QED
  BY <1>9, <1>11 DEF end, width

\* A character more takes a place more.
LEMMA WrittenGrows ==
  ASSUME NEW v, NEW value \in Seq(Char),
         NEW i \in 0..Len(value), NEW j \in 0..Len(value), i < j
  PROVE  Written(v, value)[i] < Written(v, value)[j]
<1> DEFINE n == Len(value)
           end == Written(v, value)
           S == {k \in (i + 1)..n : end[i] < end[k]}
<1>1. /\ n \in Nat /\ end \in [0..n -> Nat]
      /\ \A k \in 1..n : end[k] = end[k - 1] + 1 \/ end[k] = end[k - 1] + 2
  <2>1. n \in Nat
    OBVIOUS
  <2>2. /\ end \in [0..n -> Nat]
        /\ \A k \in 1..n :
             end[k] = end[k - 1] + (IF v = 3 /\ value[k] = Comma THEN 2 ELSE 1)
    BY WrittenIs
  <2> HIDE DEF end
  <2> QED
    BY <2>1, <2>2
<1> HIDE DEF end
<1>2. i + 1 \in S
  <2>1. i + 1 \in 1..n /\ (i + 1) - 1 = i /\ end[i] \in Nat
    BY <1>1
  <2>2. end[i + 1] = end[i] + 1 \/ end[i + 1] = end[i] + 2
    BY <1>1, <2>1
  <2> QED
    BY <2>1, <2>2
<1>3. ASSUME NEW k \in (i + 1)..n, k \in S, k + 1 <= n PROVE k + 1 \in S
  <2>1. k + 1 \in 1..n /\ (k + 1) - 1 = k /\ end[i] \in Nat /\ end[k] \in Nat
    BY <1>1, <1>3
  <2>2. end[k + 1] = end[k] + 1 \/ end[k + 1] = end[k] + 2
    BY <1>1, <2>1
  <2> QED
    BY <1>3, <2>1, <2>2
<1>4. \A k \in (i + 1)..n : k \in S
  <2>1. i + 1 \in Nat
    OBVIOUS
  <2> HIDE DEF S
  <2> QED
    BY <1>1, <1>2, <1>3, <2>1, Induction
<1> QED
  BY <1>4 DEF end

\* In a run of commas, every second one is paired with the one before it.
LEMMA CommasPair ==
  ASSUME NEW f, NEW i \in Nat, 1 <= i, f[i] = Comma
  PROVE  /\ (i = 1 \/ f[i - 1] # Comma) => Unpaired(f, i)
         /\ (i # 1 /\ f[i - 1] = Comma) => (Unpaired(f, i) <=> ~Unpaired(f, i - 1))
<1> DEFINE Run(j, k) == /\ \A l \in j..k : f[l] = Comma
                        /\ j = 1 \/ f[j - 1] # Comma
<1>0. i \in Nat /\ 1 <= i
  OBVIOUS
<1>1. ASSUME i = 1 \/ f[i - 1] # Comma PROVE Unpaired(f, i)
  <2>1. i \in 1..i /\ (i - i) % 2 = 0
    BY <1>0
  <2>2. \A k \in i..i : k = i
    BY <1>0
  <2> QED
    BY <1>1, <2>1, <2>2 DEF Unpaired
<1>2. ASSUME i # 1, f[i - 1] = Comma PROVE Unpaired(f, i) <=> ~Unpaired(f, i - 1)
  <2>0. i - 1 \in Nat /\ 1 <= i - 1
    BY <1>0, <1>2
  <2>1. PICK j \in 1..(i - 1) : Run(j, i - 1)
    <3> DEFINE T == {l \in 1..(i - 1) : \A k \in l..(i - 1) : f[k] = Comma}
    <3>1. i - 1 \in T
      <4>1. \A k \in (i - 1)..(i - 1) : k = i - 1
        BY <2>0
      <4> QED
        BY <1>2, <2>0, <4>1
    <3>2. T \subseteq Nat
      BY <2>0
    <3>3. PICK j \in T : \A y \in T : j <= y
      <4> HIDE DEF T
      <4> QED
        BY <3>1, <3>2, LeastElement
    <3>a. j \in Nat /\ 1 <= j /\ j <= i - 1
      BY <2>0, <3>3
    <3>4. ASSUME j # 1, f[j - 1] = Comma PROVE FALSE
      <4>1. j - 1 \in 1..(i - 1)
        BY <2>0, <3>a, <3>4
      <4>2. ASSUME NEW k \in (j - 1)..(i - 1) PROVE f[k] = Comma
        <5>1. k = j - 1 \/ k \in j..(i - 1)
          BY <2>0, <3>a, <4>2
        <5> QED
          BY <5>1, <3>3, <3>4
      <4>3. j - 1 \in T
        BY <4>1, <4>2
      <4>4. j <= j - 1
        BY <3>3, <4>3
      <4> QED
        BY <3>a, <4>4
    <3> QED
      BY <3>3, <3>4
  <2>a. j \in Nat /\ 1 <= j /\ j <= i - 1
    BY <2>0, <2>1
  <2>2. ASSUME NEW k \in (i - 1)..i, NEW l \in 1..k, Run(l, k) PROVE l = j
    <3>0. k \in Nat /\ l \in Nat /\ 1 <= l /\ l <= k /\ i - 1 <= k /\ k <= i
      BY <1>0, <2>0, <2>2
    <3>1. l # i
      <4>1. l # 1 /\ l = i => FALSE
        BY <1>2, <2>2
      <4> QED
        BY <1>2, <4>1
    <3>2. l <= i - 1
      BY <3>0, <3>1, <1>0
    <3>3. ASSUME l < j PROVE FALSE
      <4>1. j - 1 \in l..k /\ j # 1
        BY <2>a, <3>0, <3>3
      <4> QED
        BY <2>1, <2>2, <4>1
    <3>4. ASSUME j < l PROVE FALSE
      <4>1. l - 1 \in j..(i - 1) /\ l # 1
        BY <2>a, <2>0, <3>0, <3>2, <3>4
      <4> QED
        BY <2>1, <2>2, <4>1
    <3> QED
      BY <2>a, <3>0, <3>3, <3>4
  <2>3. Run(j, i)
    <3>1. \A l \in j..i : l \in j..(i - 1) \/ l = i
      BY <1>0, <2>a
    <3> QED
      BY <2>1, <3>1
  <2>b. i \in (i - 1)..i /\ i - 1 \in (i - 1)..i /\ j \in 1..i
    BY <1>0, <2>0, <2>a
  <2>4. Unpaired(f, i) <=> \E l \in 1..i : Run(l, i) /\ (i - l) % 2 = 0
    BY DEF Unpaired
  <2>5. Unpaired(f, i - 1)
          <=> \E l \in 1..(i - 1) : Run(l, i - 1) /\ ((i - 1) - l) % 2 = 0
    BY <1>2 DEF Unpaired
  <2> HIDE DEF Run
  <2>6. Unpaired(f, i) <=> (i - j) % 2 = 0
    BY <2>2, <2>3, <2>b, <2>4
  <2>7. Unpaired(f, i - 1) <=> ((i - 1) - j) % 2 = 0
    BY <2>1, <2>2, <2>b, <2>5
  <2>8. (i - j) % 2 = 0 <=> ~(((i - 1) - j) % 2 = 0)
    BY <1>0, <2>a
  <2> QED
    BY <2>6, <2>7, <2>8
<1> QED
  BY <1>1, <1>2

\* The first `length' characters of a payload, written down, fill the places after b
\* up to j.
Begins(v, f, payload, length, b, j) ==
  LET end == Written(v, payload)
  IN  /\ length <= Len(payload) /\ end[length] = j - b
      /\ \A k \in 1..length : \A i \in (end[k - 1] + 1)..end[k] :
           f[b + i] = payload[k]

\* What is after b is not this payload: it goes on, or has another character.
Differs(v, f, payload, b, j) ==
  LET end == Written(v, payload)
  IN  \E k \in 1..(Len(payload) + 1) :
        /\ end[k - 1] < j - b
        /\ k <= Len(payload) => f[b + end[k - 1] + 1] # payload[k]

\* A token that has been read from b to j, and that ends there, is the payload if it
\* matches it and is as long.
LEMMA TokenIsWritten ==
  ASSUME NEW v, NEW f, NEW payload \in Seq(Char), NEW length \in Nat,
         NEW matches \in BOOLEAN, NEW b \in Nat, NEW j \in Nat, b <= j,
         matches => Begins(v, f, payload, length, b, j),
         ~matches => Differs(v, f, payload, b, j)
  PROVE  matches /\ length = Len(payload) <=> IsWritten(v, f, b, j + 1, payload)
<1> DEFINE end == Written(v, payload)
           n == Len(payload)
<1>1. n \in Nat
  OBVIOUS
<1>2. end \in [0..n -> Nat]
  BY WrittenIs
<1>3. \A k, l \in 0..n : k < l => end[k] < end[l]
  BY WrittenGrows
<1>4. IsWritten(v, f, b, j + 1, payload)
        <=> /\ end[n] = (j + 1) - b - 1
            /\ \A k \in 1..n : \A i \in (end[k - 1] + 1)..end[k] : f[b + i] = payload[k]
  BY DEF IsWritten
<1>5. matches => /\ length <= n /\ end[length] = j - b
                 /\ \A k \in 1..length : \A i \in (end[k - 1] + 1)..end[k] :
                      f[b + i] = payload[k]
  BY DEF Begins
<1>6. ~matches => \E k \in 1..(n + 1) : /\ end[k - 1] < j - b
                                        /\ k <= n => f[b + end[k - 1] + 1] # payload[k]
  BY DEF Differs
<1> HIDE DEF end, n
<1>7. (j + 1) - b - 1 = j - b
  OBVIOUS
<1>8. ASSUME matches, length = n PROVE IsWritten(v, f, b, j + 1, payload)
  BY <1>4, <1>5, <1>7, <1>8
<1>9. ASSUME matches, IsWritten(v, f, b, j + 1, payload) PROVE length = n
  <2>1. ASSUME length < n PROVE FALSE
    <3>1. length \in 0..n /\ n \in 0..n
      BY <1>1, <2>1
    <3>2. end[length] < end[n] /\ end[length] \in Nat
      BY <1>2, <1>3, <2>1, <3>1
    <3> QED
      BY <1>4, <1>5, <1>7, <1>9, <3>2
  <2> QED
    BY <1>1, <1>5, <1>9, <2>1
<1>10. ASSUME ~matches, IsWritten(v, f, b, j + 1, payload) PROVE FALSE
  <2>1. PICK k \in 1..(n + 1) : /\ end[k - 1] < j - b
                                /\ k <= n => f[b + end[k - 1] + 1] # payload[k]
    BY <1>6, <1>10
  <2>2. k # n + 1
    <3>1. (n + 1) - 1 = n
      BY <1>1
    <3>2. end[n] = j - b
      BY <1>4, <1>7, <1>10
    <3> QED
      BY <2>1, <3>1, <3>2
  <2>3. k \in 1..n /\ k - 1 \in 0..n /\ k \in 0..n /\ k - 1 < k
    BY <1>1, <2>2
  <2>4. end[k - 1] \in Nat /\ end[k] \in Nat /\ end[k - 1] < end[k]
    BY <1>2, <1>3, <2>3
  <2>5. end[k - 1] + 1 \in (end[k - 1] + 1)..end[k]
    BY <2>4
  <2>6. f[b + (end[k - 1] + 1)] = payload[k]
    BY <1>4, <1>10, <2>3, <2>5
  <2>7. b + (end[k - 1] + 1) = b + end[k - 1] + 1
    BY <2>4
  <2> QED
    BY <2>1, <2>3, <2>6, <2>7
<1> QED
  BY <1>8, <1>9, <1>10 DEF n

\* A character more of a token, written with w places.
LEMMA TokenGrows ==
  ASSUME NEW v, NEW f, NEW payload \in Seq(Char), NEW length \in Nat,
         NEW matches \in BOOLEAN, NEW b \in Nat, NEW j \in Nat, b <= j,
         matches => Begins(v, f, payload, length, b, j),
         ~matches => Differs(v, f, payload, b, j),
         NEW c, NEW w \in {1, 2}, w = IF v = 3 /\ c = Comma THEN 2 ELSE 1,
         \A i \in (j + 1)..(j + w) : f[i] = c
  PROVE  LET now == matches /\ length + 1 <= Len(payload) /\ payload[length + 1] = c
         IN  /\ now => Begins(v, f, payload, length + 1, b, j + w)
             /\ ~now => Differs(v, f, payload, b, j + w)
<1> DEFINE end == Written(v, payload)
           n == Len(payload)
           now == matches /\ length + 1 <= n /\ payload[length + 1] = c
<1>1. n \in Nat
  OBVIOUS
<1>2. end \in [0..n -> Nat]
  BY WrittenIs
<1>3. \A k \in 1..n : end[k] = end[k - 1] + (IF v = 3 /\ payload[k] = Comma THEN 2 ELSE 1)
  BY WrittenIs
<1>4. matches => /\ length <= n /\ end[length] = j - b
                 /\ \A k \in 1..length : \A i \in (end[k - 1] + 1)..end[k] :
                      f[b + i] = payload[k]
  BY DEF Begins
<1>5. ASSUME now PROVE Begins(v, f, payload, length + 1, b, j + w)
  <2> HIDE DEF end, n
  <2>1. length + 1 \in 1..n /\ (length + 1) - 1 = length /\ length + 1 <= n
    BY <1>1, <1>5
  <2>2. end[length + 1] = end[length] + w /\ end[length] = j - b
    BY <1>3, <1>4, <1>5, <2>1
  <2>3. end[length + 1] = (j + w) - b
    BY <2>2
  <2>4. ASSUME NEW k \in 1..(length + 1), NEW i \in (end[k - 1] + 1)..end[k]
        PROVE  f[b + i] = payload[k]
    <3>1. CASE k = length + 1
      <4>1. i \in ((j - b) + 1)..((j - b) + w)
        BY <2>1, <2>2, <2>4, <3>1
      <4>2. b + i \in (j + 1)..(j + w)
        BY <4>1
      <4> QED
        BY <1>5, <3>1, <4>2
    <3>2. CASE k # length + 1
      <4>1. k \in 1..length
        BY <3>2
      <4> QED
        BY <1>4, <1>5, <2>4, <4>1
    <3> QED
      BY <3>1, <3>2
  <2> QED
    BY <2>1, <2>3, <2>4 DEF Begins, end, n
<1>6. ASSUME ~now PROVE Differs(v, f, payload, b, j + w)
  <2>1. ASSUME NEW k \in 1..(n + 1), end[k - 1] < (j + w) - b,
               k <= n => f[b + end[k - 1] + 1] # payload[k]
        PROVE  Differs(v, f, payload, b, j + w)
    BY <2>1 DEF Differs
  <2>2. CASE ~matches
    <3>1. PICK k \in 1..(n + 1) : /\ end[k - 1] < j - b
                                  /\ k <= n => f[b + end[k - 1] + 1] # payload[k]
      BY <2>2 DEF Differs
    <3> HIDE DEF end, n
    <3>2. k - 1 \in 0..n
      BY <1>1
    <3>3. end[k - 1] \in Nat
      BY <1>2, <3>2
    <3>4. end[k - 1] < (j + w) - b
      BY <3>1, <3>3
    <3> QED
      BY <2>1, <3>1, <3>4
  <2>3. CASE matches
    <3> HIDE DEF end, n
    <3>1. length + 1 \in 1..(n + 1) /\ (length + 1) - 1 = length
      BY <1>1, <1>4, <2>3
    <3>2. end[length] = j - b /\ j - b < (j + w) - b
      BY <1>4, <2>3
    <3>3. b + (j - b) + 1 = j + 1 /\ j + 1 \in (j + 1)..(j + w)
      OBVIOUS
    <3>4. length + 1 <= n => f[b + end[(length + 1) - 1] + 1] # payload[length + 1]
      BY <1>6, <2>3, <3>1, <3>2, <3>3
    <3> QED
      BY <2>1, <3>1, <3>2, <3>4
  <2> QED
    BY <2>2, <2>3
<1> QED
  BY <1>5, <1>6

\* What the scan knows when its token began after the bound b and has been read up
\* to j: the values before b, and how the token compares with the payload.
ScanKnows(v, f, payload, s, b, j) ==
  /\ b \in Nat /\ j \in Nat /\ b <= j /\ j <= Len(f) + 1
  /\ Bounds(v, f, b)
  /\ \A i \in (b + 1)..j : ~Separates(v, f, i)
  /\ j = b => s.token = <<>>
  /\ s.matches => Begins(v, f, payload, Len(s.token), b, j)
  /\ ~s.matches => Differs(v, f, payload, b, j)
  /\ s.found <=> \E from, to \in 0..b : /\ Adjacent(v, f, from, to)
                                        /\ IsWritten(v, f, from, to, payload)
  /\ ~s.wrong => \A from, to \in 0..b : Adjacent(v, f, from, to) => to # from + 1

\* The bounds up to the next one: it and the one before it are the only ones that are
\* new.
LEMMA NextBound ==
  ASSUME NEW v, NEW f, Len(f) \in Nat, NEW b \in Nat, NEW j \in Nat,
         b <= j, j <= Len(f),
         Bounds(v, f, b), \A i \in (b + 1)..j : ~Separates(v, f, i),
         Bounds(v, f, j + 1)
  PROVE  /\ Adjacent(v, f, b, j + 1)
         /\ \A from, to \in 0..(j + 1) :
              Adjacent(v, f, from, to) => \/ from \in 0..b /\ to \in 0..b
                                          \/ from = b /\ to = j + 1
<1>1. Adjacent(v, f, b, j + 1)
  <2>1. (j + 1) - 1 = j /\ b < j + 1
    OBVIOUS
  <2> QED
    BY <2>1 DEF Adjacent
<1>2. \A i \in (b + 1)..j : ~Bounds(v, f, i)
  <2>1. \A i \in (b + 1)..j : i # 0 /\ i # Len(f) + 1
    OBVIOUS
  <2> QED
    BY <2>1 DEF Bounds
<1>3. ASSUME NEW from \in 0..(j + 1), NEW to \in 0..(j + 1), Adjacent(v, f, from, to)
      PROVE  \/ from \in 0..b /\ to \in 0..b
             \/ from = b /\ to = j + 1
  <2>1. from < to /\ Bounds(v, f, from) /\ Bounds(v, f, to)
        /\ \A i \in (from + 1)..(to - 1) : ~Separates(v, f, i)
    BY <1>3 DEF Adjacent
  <2>2. from \notin (b + 1)..j /\ to \notin (b + 1)..j
    BY <1>2, <2>1
  <2>3. from < b => b \notin (from + 1)..(to - 1)
    <3>1. ASSUME from < b, b \in (from + 1)..(to - 1) PROVE FALSE
      <4>1. b # 0 /\ b # Len(f) + 1
        BY <3>1
      <4>2. Separates(v, f, b)
        BY <4>1 DEF Bounds
      <4> QED
        BY <2>1, <3>1, <4>2
    <3> QED
      BY <3>1
  <2> QED
    BY <2>1, <2>2, <2>3
<1> QED
  BY <1>1, <1>3

\* Closing a token at a bound keeps what the scan knows.
LEMMA CloseKeeps ==
  ASSUME NEW v, NEW f \in Seq(Char), NEW payload \in Seq(Char), NEW s \in ScanState,
         NEW b, NEW j, ScanKnows(v, f, payload, s, b, j), j <= Len(f),
         Bounds(v, f, j + 1)
  PROVE  ScanKnows(v, f, payload, CloseToken(v, s, payload), j + 1, j + 1)
<1> DEFINE t == CloseToken(v, s, payload)
           n == Len(f)
<1>1. n \in Nat /\ Len(s.token) \in Nat /\ s.matches \in BOOLEAN
  BY DEF ScanState
<1>2. /\ b \in Nat /\ j \in Nat /\ b <= j
      /\ Bounds(v, f, b)
      /\ \A i \in (b + 1)..j : ~Separates(v, f, i)
      /\ j = b => s.token = <<>>
      /\ s.matches => Begins(v, f, payload, Len(s.token), b, j)
      /\ ~s.matches => Differs(v, f, payload, b, j)
      /\ s.found <=> \E from, to \in 0..b : /\ Adjacent(v, f, from, to)
                                            /\ IsWritten(v, f, from, to, payload)
      /\ ~s.wrong => \A from, to \in 0..b : Adjacent(v, f, from, to) => to # from + 1
  BY DEF ScanKnows
<1>3. /\ t.found = (s.found \/ (s.matches /\ Len(s.token) = Len(payload)))
      /\ ~t.wrong => ~s.wrong /\ s.token # <<>>
      /\ t.token = <<>> /\ t.matches
  BY CloseTokenIs
<1> HIDE DEF t
<1>4. s.matches /\ Len(s.token) = Len(payload) <=> IsWritten(v, f, b, j + 1, payload)
  BY <1>1, <1>2, TokenIsWritten
<1>5. /\ Adjacent(v, f, b, j + 1)
      /\ \A from, to \in 0..(j + 1) :
           Adjacent(v, f, from, to) => \/ from \in 0..b /\ to \in 0..b
                                       \/ from = b /\ to = j + 1
  BY <1>1, <1>2, NextBound
<1>6. 0..b \subseteq 0..(j + 1) /\ b \in 0..(j + 1) /\ j + 1 \in 0..(j + 1)
  BY <1>2
<1>7. t.found <=> \E from, to \in 0..(j + 1) : /\ Adjacent(v, f, from, to)
                                               /\ IsWritten(v, f, from, to, payload)
  BY <1>2, <1>3, <1>4, <1>5, <1>6
<1>8. ~t.wrong => \A from, to \in 0..(j + 1) : Adjacent(v, f, from, to) => to # from + 1
  <2>1. j + 1 = b + 1 => j = b
    BY <1>2
  <2> QED
    BY <1>2, <1>3, <1>5, <2>1
<1>9. Begins(v, f, payload, 0, j + 1, j + 1)
  <2>1. Written(v, payload)[0] = 0 /\ 0 <= Len(payload)
    BY WrittenIs
  <2>2. \A k \in 1..0 : FALSE
    OBVIOUS
  <2>3. (j + 1) - (j + 1) = 0
    BY <1>2
  <2> QED
    BY <2>1, <2>2, <2>3 DEF Begins
<1>10. Len(t.token) = 0
  BY <1>3
<1>11. j + 1 \in Nat /\ j + 1 <= n + 1 /\ \A i \in ((j + 1) + 1)..(j + 1) : FALSE
  BY <1>1, <1>2
<1> HIDE DEF n
<1> QED
  BY <1>3, <1>7, <1>8, <1>9, <1>10, <1>11 DEF ScanKnows, t, n

\* So does a character of a token.
LEMMA CharacterKeeps ==
  ASSUME NEW v, NEW f \in Seq(Char), NEW payload \in Seq(Char), NEW s \in ScanState,
         NEW b, NEW j, ScanKnows(v, f, payload, s, b, j),
         NEW c \in Char, NEW w \in {1, 2}, w = IF v = 3 /\ c = Comma THEN 2 ELSE 1,
         j + w <= Len(f),
         \A i \in (j + 1)..(j + w) : f[i] = c /\ ~Separates(v, f, i)
  PROVE  ScanKnows(v, f, payload, Character(s, c, payload), b, j + w)
<1> DEFINE t == Character(s, c, payload)
           n == Len(f)
<1>1. n \in Nat /\ Len(s.token) \in Nat /\ s.matches \in BOOLEAN
  BY DEF ScanState
<1>2. /\ b \in Nat /\ j \in Nat /\ b <= j
      /\ Bounds(v, f, b)
      /\ \A i \in (b + 1)..j : ~Separates(v, f, i)
      /\ s.matches => Begins(v, f, payload, Len(s.token), b, j)
      /\ ~s.matches => Differs(v, f, payload, b, j)
      /\ s.found <=> \E from, to \in 0..b : /\ Adjacent(v, f, from, to)
                                            /\ IsWritten(v, f, from, to, payload)
      /\ ~s.wrong => \A from, to \in 0..b : Adjacent(v, f, from, to) => to # from + 1
  BY DEF ScanKnows
<1>3. /\ t.found = s.found /\ t.wrong = s.wrong
      /\ Len(t.token) = Len(s.token) + 1
      /\ t.matches = (s.matches /\ Len(s.token) + 1 <= Len(payload)
                      /\ payload[Len(s.token) + 1] = c)
  BY CharacterIs
<1> HIDE DEF t
<1>4. /\ t.matches => Begins(v, f, payload, Len(t.token), b, j + w)
      /\ ~t.matches => Differs(v, f, payload, b, j + w)
  <2>1. \A i \in (j + 1)..(j + w) : f[i] = c
    OBVIOUS
  <2>2. /\ b \in Nat /\ j \in Nat /\ b <= j
        /\ s.matches => Begins(v, f, payload, Len(s.token), b, j)
        /\ ~s.matches => Differs(v, f, payload, b, j)
    BY <1>2
  <2>3. LET now == /\ s.matches
                   /\ Len(s.token) + 1 <= Len(payload)
                   /\ payload[Len(s.token) + 1] = c
        IN  /\ now => Begins(v, f, payload, Len(s.token) + 1, b, j + w)
            /\ ~now => Differs(v, f, payload, b, j + w)
    BY <1>1, <2>1, <2>2, TokenGrows
  <2> QED
    BY <1>3, <2>3
<1>5. \A i \in (b + 1)..(j + w) : i \in (b + 1)..j \/ i \in (j + 1)..(j + w)
  BY <1>2
<1>6. j + w \in Nat /\ b <= j + w /\ j + w <= n + 1 /\ j + w # b
  BY <1>1, <1>2
<1> HIDE DEF n
<1> QED
  BY <1>2, <1>3, <1>4, <1>5, <1>6 DEF ScanKnows, t, n

\* What holds of the scan when it has read i characters.
ScanIsAt(v, f, payload, s, i) ==
  \E b, j \in Nat :
    /\ ScanKnows(v, f, payload, s, b, j)
    /\ s.comma => v = 3 /\ i = j + 1 /\ f[i] = Comma /\ Unpaired(f, i)
    /\ ~s.comma => i = j /\ (v = 3 /\ 1 <= i /\ f[i] = Comma => ~Unpaired(f, i))

\* Each character keeps it.
LEMMA ScanCharacterKeeps ==
  ASSUME NEW v, NEW f \in Seq(Char), NEW payload \in Seq(Char), NEW s \in ScanState,
         NEW i \in 0..(Len(f) - 1), ScanIsAt(v, f, payload, s, i)
  PROVE  ScanIsAt(v, f, payload, ScanCharacter(v, s, f[i + 1], payload), i + 1)
<1> DEFINE n == Len(f)
           c == f[i + 1]
           t == ScanCharacter(v, s, c, payload)
<1> SUFFICES ScanIsAt(v, f, payload, t, i + 1)
  OBVIOUS
<1>1. n \in Nat /\ i \in Nat /\ i + 1 <= n /\ i + 1 \in 1..n
  OBVIOUS
<1>2. c \in Char /\ s.comma \in BOOLEAN
  BY <1>1 DEF ScanState
<1>3. PICK b \in Nat, j \in Nat :
        /\ ScanKnows(v, f, payload, s, b, j)
        /\ s.comma => v = 3 /\ i = j + 1 /\ f[i] = Comma /\ Unpaired(f, i)
        /\ ~s.comma => i = j /\ (v = 3 /\ 1 <= i /\ f[i] = Comma => ~Unpaired(f, i))
  BY DEF ScanIsAt
<1>4. (i + 1) - 1 = i /\ i + 1 # 1 <=> 1 <= i
  BY <1>1
<1>5. c = Comma =>
        /\ (i + 1 = 1 \/ f[i] # Comma) => Unpaired(f, i + 1)
        /\ (i + 1 # 1 /\ f[i] = Comma) => (Unpaired(f, i + 1) <=> ~Unpaired(f, i))
  <2> SUFFICES ASSUME c = Comma
               PROVE  /\ (i + 1 = 1 \/ f[i] # Comma) => Unpaired(f, i + 1)
                      /\ (i + 1 # 1 /\ f[i] = Comma)
                           => (Unpaired(f, i + 1) <=> ~Unpaired(f, i))
    OBVIOUS
  <2>1. i + 1 \in Nat /\ 1 <= i + 1 /\ (i + 1) - 1 = i
    BY <1>1
  <2>2. /\ (i + 1 = 1 \/ f[(i + 1) - 1] # Comma) => Unpaired(f, i + 1)
        /\ (i + 1 # 1 /\ f[(i + 1) - 1] = Comma)
             => (Unpaired(f, i + 1) <=> ~Unpaired(f, (i + 1) - 1))
    BY <2>1, CommasPair
  <2> QED
    BY <2>1, <2>2
<1>6. ASSUME NEW u, NEW d \in Nat, NEW e \in Nat, ScanKnows(v, f, payload, u, d, e),
             ~u.comma, e = i + 1, v = 3 /\ c = Comma => ~Unpaired(f, i + 1)
      PROVE  ScanIsAt(v, f, payload, u, i + 1)
  BY <1>6 DEF ScanIsAt
<1>7. c # Comma => ~Separates(v, f, i + 1)
  BY DEF Separates
<1> HIDE DEF n, c
<1>8. CASE s.comma /\ c = Comma
  <2>1. v = 3 /\ i = j + 1 /\ f[i] = Comma /\ Unpaired(f, i) /\ ~Unpaired(f, i + 1)
    BY <1>1, <1>3, <1>5, <1>8
  <2>2. ~Separates(v, f, i + 1)
    BY <2>1 DEF Separates
  <2>3. ~Separates(v, f, i)
    <3>1. i # Len(f) /\ f[i + 1] = Comma
      BY <1>1, <1>8 DEF n, c
    <3> QED
      BY <2>1, <3>1 DEF Separates
  <2>4. t = Character(s, c, payload)
    BY <1>8 DEF ScanCharacter
  <2>5. \A k \in (j + 1)..(j + 2) : k = i \/ k = i + 1
    BY <2>1
  <2>6. \A k \in (j + 1)..(j + 2) : f[k] = c /\ ~Separates(v, f, k)
    BY <1>8, <2>1, <2>2, <2>3, <2>5 DEF c
  <2>7. 2 \in {1, 2} /\ 2 = (IF v = 3 /\ c = Comma THEN 2 ELSE 1) /\ j + 2 <= Len(f)
    BY <1>1, <1>8, <2>1 DEF n
  <2>8. ScanKnows(v, f, payload, t, b, j + 2)
    BY <1>2, <1>3, <2>4, <2>6, <2>7, CharacterKeeps
  <2>9. ~t.comma
    BY <1>2, <2>4, CharacterIs
  <2> HIDE DEF t
  <2>10. j + 2 = i + 1 /\ j + 2 \in Nat
    BY <2>1
  <2> QED
    BY <1>6, <2>1, <2>8, <2>9, <2>10
<1>9. CASE s.comma /\ c # Comma
  <2> DEFINE u == CloseToken(v, s, payload)
  <2>1. v = 3 /\ i = j + 1 /\ f[i] = Comma /\ Unpaired(f, i)
    BY <1>3, <1>9
  <2>2. Bounds(v, f, j + 1) /\ j <= Len(f)
    <3>1. f[i + 1] # Comma
      BY <1>9 DEF c
    <3>2. Separates(v, f, i)
      BY <2>1, <3>1 DEF Separates
    <3> QED
      BY <1>1, <2>1, <3>2 DEF Bounds, n
  <2>3. ScanKnows(v, f, payload, u, j + 1, j + 1) /\ u \in ScanState
    BY <1>3, <2>2, CloseKeeps, CloseTokenIs
  <2>4. t = Character(u, c, payload)
    BY <1>9 DEF ScanCharacter
  <2> HIDE DEF u
  <2>5. \A k \in ((j + 1) + 1)..((j + 1) + 1) : k = i + 1
    BY <2>1
  <2>6. \A k \in ((j + 1) + 1)..((j + 1) + 1) : f[k] = c /\ ~Separates(v, f, k)
    BY <1>7, <1>9, <2>5 DEF c
  <2>7. 1 \in {1, 2} /\ 1 = (IF v = 3 /\ c = Comma THEN 2 ELSE 1)
        /\ (j + 1) + 1 <= Len(f)
    BY <1>1, <1>9, <2>1 DEF n
  <2>8. ScanKnows(v, f, payload, t, j + 1, (j + 1) + 1)
    BY <1>2, <2>3, <2>4, <2>6, <2>7, CharacterKeeps
  <2>9. ~t.comma
    BY <1>2, <2>3, <2>4, CharacterIs
  <2> HIDE DEF t
  <2>10. (j + 1) + 1 = i + 1 /\ (j + 1) + 1 \in Nat /\ j + 1 \in Nat
    BY <2>1
  <2> QED
    BY <1>6, <1>9, <2>8, <2>9, <2>10
<1>10. CASE ~s.comma /\ c = Comma /\ v = 3
  <2>1. i = j /\ Unpaired(f, i + 1) /\ f[i + 1] = Comma
    BY <1>3, <1>4, <1>5, <1>10 DEF c
  <2>2. t = [s EXCEPT !.comma = TRUE]
    BY <1>10, Zenon DEF ScanCharacter
  <2> HIDE DEF t
  <2>3. /\ t.found = s.found /\ t.wrong = s.wrong /\ t.token = s.token
        /\ t.matches = s.matches /\ t.comma
    BY <2>2 DEF ScanState
  <2>4. ScanKnows(v, f, payload, t, b, j)
    BY <1>3, <2>3 DEF ScanKnows
  <2> QED
    BY <1>10, <2>1, <2>3, <2>4 DEF ScanIsAt
<1>11. CASE ~s.comma /\ c = Comma /\ v # 3
  <2>1. i = j
    BY <1>3, <1>11
  <2>2. Bounds(v, f, j + 1) /\ j <= Len(f)
    <3>1. Separates(v, f, i + 1)
      BY <1>11 DEF Separates, c
    <3> QED
      BY <1>1, <2>1, <3>1 DEF Bounds, n
  <2>3. t = CloseToken(v, s, payload)
    BY <1>11 DEF ScanCharacter
  <2>4. ScanKnows(v, f, payload, t, j + 1, j + 1)
    BY <1>3, <2>2, <2>3, CloseKeeps
  <2>5. ~t.comma
    BY <2>3, CloseTokenIs
  <2> HIDE DEF t
  <2>6. j + 1 = i + 1 /\ j + 1 \in Nat
    BY <2>1
  <2> QED
    BY <1>6, <1>11, <2>4, <2>5, <2>6
<1>12. CASE ~s.comma /\ c # Comma
  <2>1. i = j
    BY <1>3, <1>12
  <2>2. t = Character(s, c, payload)
    BY <1>12 DEF ScanCharacter
  <2>3. \A k \in (j + 1)..(j + 1) : k = i + 1
    BY <2>1
  <2>4. \A k \in (j + 1)..(j + 1) : f[k] = c /\ ~Separates(v, f, k)
    BY <1>7, <1>12, <2>3 DEF c
  <2>5. 1 \in {1, 2} /\ 1 = (IF v = 3 /\ c = Comma THEN 2 ELSE 1) /\ j + 1 <= Len(f)
    BY <1>1, <1>12, <2>1 DEF n
  <2>6. ScanKnows(v, f, payload, t, b, j + 1)
    BY <1>2, <1>3, <2>2, <2>4, <2>5, CharacterKeeps
  <2>7. ~t.comma
    BY <1>2, <2>2, CharacterIs
  <2> HIDE DEF t
  <2>8. j + 1 = i + 1 /\ j + 1 \in Nat
    BY <2>1
  <2> QED
    BY <1>6, <1>12, <2>6, <2>7, <2>8
<1> HIDE DEF t
<1> QED
  BY <1>2, <1>8, <1>9, <1>10, <1>11, <1>12

\* When the whole format has been read, what the scan found is what the format says.
LEMMA ScanMeans ==
  ASSUME NEW v, NEW f \in Seq(Char), NEW payload \in Seq(Char)
  PROVE  /\ Scan(v, f, payload).found <=> ValueOfEnum(v, f, payload)
         /\ ~Scan(v, f, payload).wrong => ~ValueOfEnum(v, f, <<>>)
<1> DEFINE n == Len(f)
           scan == Scanned(v, f, payload)
           end == scan[n]
           last == IF end.comma THEN CloseToken(v, end, payload) ELSE end
           S == {i \in 0..n : ScanIsAt(v, f, payload, scan[i], i)}
<1>1. n \in Nat
  OBVIOUS
<1>2. /\ scan \in [0..n -> ScanState]
      /\ scan[0] = Scanning
      /\ \A i \in 1..n : scan[i] = ScanCharacter(v, scan[i - 1], f[i], payload)
  BY ScannedIs
<1> HIDE DEF scan
<1>3. 0 \in S
  <2>1. ~Scanning.comma /\ Scanning.matches /\ ~Scanning.wrong /\ ~Scanning.found
        /\ Scanning.token = <<>>
    BY DEF Scanning
  <2>2. Begins(v, f, payload, 0, 0, 0)
    <3>1. Written(v, payload)[0] = 0 /\ 0 <= Len(payload)
      BY WrittenIs
    <3>2. (\A k \in 1..0 : FALSE) /\ 0 - 0 = 0
      OBVIOUS
    <3> QED
      BY <3>1, <3>2 DEF Begins
  <2>3. \A from, to \in 0..0 : ~Adjacent(v, f, from, to)
    BY DEF Adjacent
  <2>4. (\A i \in (0 + 1)..0 : FALSE) /\ Bounds(v, f, 0) /\ 0 <= Len(f) + 1
    BY <1>1 DEF Bounds
  <2>5. Len(Scanning.token) = 0
    BY <2>1
  <2>6. ScanKnows(v, f, payload, Scanning, 0, 0)
    BY <2>1, <2>2, <2>3, <2>4, <2>5 DEF ScanKnows
  <2>7. ScanIsAt(v, f, payload, Scanning, 0)
    BY <2>1, <2>6 DEF ScanIsAt
  <2> QED
    BY <1>1, <1>2, <2>7
<1>4. ASSUME NEW i \in 0..n, i \in S, i + 1 <= n PROVE i + 1 \in S
  <2>1. i + 1 \in 1..n /\ (i + 1) - 1 = i /\ i \in 0..(Len(f) - 1)
    BY <1>1, <1>4
  <2>2. scan[i + 1] = ScanCharacter(v, scan[i], f[i + 1], payload)
        /\ scan[i] \in ScanState
    BY <1>2, <2>1
  <2>3. ScanIsAt(v, f, payload, scan[i], i)
    BY <1>4
  <2>4. ScanIsAt(v, f, payload, scan[i + 1], i + 1)
    BY <2>1, <2>2, <2>3, ScanCharacterKeeps
  <2> QED
    BY <1>1, <2>1, <2>4
<1>5. ScanIsAt(v, f, payload, end, n)
  <2>1. \A i \in 0..n : i \in S
    <3> HIDE DEF S, n
    <3> QED
      BY <1>1, <1>3, <1>4, Induction
  <2>2. n \in 0..n
    BY <1>1
  <2> QED
    BY <2>1, <2>2
<1>6. end \in ScanState
  BY <1>1, <1>2
<1> HIDE DEF end, S
<1>7. PICK b \in Nat, j \in Nat :
        /\ ScanKnows(v, f, payload, end, b, j)
        /\ end.comma => v = 3 /\ n = j + 1 /\ f[n] = Comma /\ Unpaired(f, n)
        /\ ~end.comma => n = j
  BY <1>5 DEF ScanIsAt
<1>8. \E d \in Nat : ScanKnows(v, f, payload, last, d, n)
  <2>1. CASE end.comma
    <3>1. n = j + 1 /\ j <= Len(f) /\ last = CloseToken(v, end, payload)
      BY <1>7, <2>1
    <3>2. Bounds(v, f, j + 1)
      BY <1>7, <2>1, <3>1 DEF Bounds, Separates
    <3>3. ScanKnows(v, f, payload, last, j + 1, j + 1)
      BY <1>6, <1>7, <3>1, <3>2, CloseKeeps
    <3> HIDE DEF last
    <3> QED
      BY <3>1, <3>3
  <2>2. CASE ~end.comma
    BY <1>7, <2>2
  <2> QED
    BY <2>1, <2>2
<1>9. last \in ScanState
  BY <1>6, CloseTokenIs
<1>10. Scan(v, f, payload) = CloseToken(v, last, payload)
  BY DEF Scan, end, scan
<1> HIDE DEF last
<1>11. ScanKnows(v, f, payload, Scan(v, f, payload), n + 1, n + 1)
  <2>1. PICK d \in Nat : ScanKnows(v, f, payload, last, d, n)
    BY <1>8
  <2>2. Bounds(v, f, n + 1) /\ n <= Len(f)
    BY <1>1 DEF Bounds
  <2> QED
    BY <1>9, <1>10, <2>1, <2>2, CloseKeeps
<1>12. Scan(v, f, payload).found <=> ValueOfEnum(v, f, payload)
  BY <1>11 DEF ScanKnows, ValueOfEnum
<1>13. ~Scan(v, f, payload).wrong => ~ValueOfEnum(v, f, <<>>)
  <2> SUFFICES ASSUME ~Scan(v, f, payload).wrong,
                      NEW from \in 0..(n + 1), NEW to \in 0..(n + 1),
                      Adjacent(v, f, from, to), IsWritten(v, f, from, to, <<>>)
               PROVE  FALSE
    BY DEF ValueOfEnum
  <2>1. to # from + 1
    BY <1>11 DEF ScanKnows
  <2>2. Written(v, <<>>)[0] = 0
    <3>1. <<>> \in Seq(Char)
      OBVIOUS
    <3> QED
      BY <3>1, WrittenIs
  <2>3. Len(<<>>) = 0
    OBVIOUS
  <2>4. 0 = to - from - 1
    BY <2>2, <2>3 DEF IsWritten
  <2> QED
    BY <1>1, <2>1, <2>4
<1> QED
  BY <1>12, <1>13

\* The enumeration that the code takes a payload for, by one scan of the format, is
\* the one that the places of the separators make of it.
THEOREM EnumerationIsAdvertised ==
  ASSUME NEW v, NEW f \in Seq(Char), NEW payload \in Seq(Char), IsEnumFormat(v, f)
  PROVE  /\ EnumPayloadMatchesFormat(v, payload, f) <=> ValueOfEnum(v, f, payload)
         /\ ~ValueOfEnum(v, f, <<>>)
<1>1. <<>> \in Seq(Char)
  OBVIOUS
<1> QED
  BY <1>1, ScanMeans DEF EnumPayloadMatchesFormat, IsEnumFormat

\* A value of an enumeration has only characters of its format.
LEMMA EnumHasNoNul ==
  ASSUME NEW v, NEW f \in Seq(Char), NEW value \in Seq(Char),
         ValueOfEnum(v, f, value), \A i \in DOMAIN f : f[i] # "nul"
  PROVE  \A k \in DOMAIN value : value[k] # "nul"
<1> DEFINE end == Written(v, value)
           n == Len(value)
<1>1. n \in Nat /\ Len(f) \in Nat /\ DOMAIN value = 1..n /\ DOMAIN f = 1..Len(f)
  OBVIOUS
<1>2. end \in [0..n -> Nat]
  BY WrittenIs
<1>3. \A k, l \in 0..n : k < l => end[k] < end[l]
  BY WrittenGrows
<1>4. PICK from \in 0..(Len(f) + 1), to \in 0..(Len(f) + 1) :
        /\ end[n] = to - from - 1
        /\ \A k \in 1..n : \A i \in (end[k - 1] + 1)..end[k] : f[from + i] = value[k]
  BY DEF ValueOfEnum, IsWritten
<1> HIDE DEF end, n
<1>5. ASSUME NEW k \in 1..n PROVE value[k] # "nul"
  <2>1. k - 1 \in 0..n /\ k \in 0..n /\ n \in 0..n /\ k - 1 < k /\ (k = n \/ k < n)
    BY <1>1
  <2>2. end[k - 1] \in Nat /\ end[k] \in Nat /\ end[n] \in Nat
        /\ end[k - 1] < end[k] /\ end[k] <= end[n]
    BY <1>2, <1>3, <2>1
  <2>3. end[k - 1] + 1 \in (end[k - 1] + 1)..end[k]
    BY <2>2
  <2>4. f[from + (end[k - 1] + 1)] = value[k]
    BY <1>4, <2>3
  <2>5. from + (end[k - 1] + 1) \in 1..Len(f)
    BY <1>1, <1>4, <2>2
  <2> QED
    BY <1>1, <2>4, <2>5
<1> QED
  BY <1>1, <1>5

-----------------------------------------------------------------------------
(* The loop of a duration.                                                 *)

DurationState ==
  [digit : BOOLEAN, last : {"none", "H", "M", "S"}, wrong : BOOLEAN]

\* What a character does to a state of the loop.
LEMMA DurationCharacterIs ==
  ASSUME NEW s \in DurationState, NEW c
  PROVE  LET t == DurationCharacter(s, c) IN
           /\ t \in DurationState
           /\ c = "d" => t.digit /\ t.last = s.last /\ t.wrong = s.wrong
           /\ c \in {"H", "M", "S"} /\ s.digit /\ c \notin Closed(s.last)
                => ~t.digit /\ t.last = c /\ t.wrong = s.wrong
           /\ c # "d" /\ ~(c \in {"H", "M", "S"} /\ s.digit /\ c \notin Closed(s.last))
                => t.wrong
<1> DEFINE t == DurationCharacter(s, c)
           closes == c \in {"H", "M", "S"} /\ s.digit /\ c \notin Closed(s.last)
<1>1. CASE c = "d"
  <2>1. t = [s EXCEPT !.digit = TRUE] /\ ~closes
    BY <1>1 DEF DurationCharacter
  <2> HIDE DEF t, closes
  <2>2. t \in DurationState /\ t.digit /\ t.last = s.last /\ t.wrong = s.wrong
    BY <2>1 DEF DurationState
  <2> QED
    BY <1>1, <2>1, <2>2 DEF t, closes
<1>2. CASE c # "d" /\ closes
  <2>1. t = [s EXCEPT !.digit = FALSE, !.last = c] /\ c \in {"none", "H", "M", "S"}
    BY <1>2 DEF DurationCharacter
  <2> HIDE DEF t, closes
  <2>2. t \in DurationState /\ ~t.digit /\ t.last = c /\ t.wrong = s.wrong
    BY <2>1 DEF DurationState
  <2> QED
    BY <1>2, <2>1, <2>2 DEF t, closes
<1>3. CASE c # "d" /\ ~closes
  <2>1. t = [s EXCEPT !.wrong = TRUE]
    BY <1>3 DEF DurationCharacter
  <2> HIDE DEF t, closes
  <2>2. t \in DurationState /\ t.wrong
    BY <2>1 DEF DurationState
  <2> QED
    BY <1>3, <2>1, <2>2 DEF t, closes
<1> QED
  BY <1>1, <1>2, <1>3

\* The loop reads one character after the other.
LEMMA DurationScannedIs ==
  ASSUME NEW text \in Seq(Char), Len(text) >= 2
  PROVE  LET scan == DurationScanned(text) IN
           /\ scan \in [2..Len(text) -> DurationState]
           /\ ~scan[2].digit /\ scan[2].last = "none" /\ ~scan[2].wrong
           /\ \A i \in 3..Len(text) :
                scan[i] = DurationCharacter(scan[i - 1], text[i])
<1> DEFINE n == Len(text)
           scan == DurationScanned(text)
           start == [digit |-> FALSE, last |-> "none", wrong |-> FALSE]
           step == [x \in (3..n) \X DurationState |->
                      DurationCharacter(x[2], text[x[1]])]
<1>1. n \in Nat /\ 2 <= n
  OBVIOUS
<1>2. start \in DurationState /\ ~start.digit /\ start.last = "none" /\ ~start.wrong
  BY DEF DurationState
<1> HIDE DEF start
<1>3. step \in [(3..n) \X DurationState -> DurationState]
  <2>1. ASSUME NEW x \in (3..n) \X DurationState
        PROVE  DurationCharacter(x[2], text[x[1]]) \in DurationState
    <3>1. x[2] \in DurationState
      OBVIOUS
    <3> QED
      BY <3>1, DurationCharacterIs
  <2> QED
    BY <2>1
<1>4. ASSUME NEW i \in 3..n, NEW s \in DurationState
      PROVE  step[<<i, s>>] = DurationCharacter(s, text[i])
  OBVIOUS
<1> HIDE DEF step
<1>5. PICK g \in [2..n -> DurationState] :
        g[2] = start /\ \A i \in 3..n : g[i] = step[<<i, g[i - 1]>>]
  <2> HIDE DEF n
  <2>1. (2 + 1)..n = 3..n /\ 2 \in Nat
    BY <1>1
  <2>2. step \in [((2 + 1)..n) \X DurationState -> DurationState]
    BY <1>3, <2>1
  <2>3. Runs(2, n, DurationState, start, step) # {}
    BY <1>1, <1>2, <2>1, <2>2, Recursion
  <2> QED
    BY <2>1, <2>3 DEF Runs
<1>6. ASSUME NEW i \in 3..n
      PROVE  g[i] = DurationCharacter(g[i - 1], text[i])
  <2>1. i - 1 \in 2..n
    BY <1>1
  <2>2. g[i - 1] \in DurationState
    BY <1>5, <2>1
  <2> QED
    BY <1>4, <1>5, <2>1, <2>2
<1>7. g = [i \in 2..n |-> IF i = 2 THEN start
                          ELSE DurationCharacter(g[i - 1], text[i])]
  BY <1>1, <1>5, <1>6
<1>8. scan = [i \in 2..n |-> IF i = 2 THEN start
                             ELSE DurationCharacter(scan[i - 1], text[i])]
  <2>1. scan = CHOOSE h : h = [i \in 2..n |-> IF i = 2 THEN start
                                 ELSE DurationCharacter(h[i - 1], text[i])]
    BY DEF DurationScanned, start
  <2> HIDE DEF scan
  <2> QED
    BY <1>7, <2>1
<1> HIDE DEF scan
<1>9. scan[2] = start
      /\ \A i \in 3..n : scan[i] = DurationCharacter(scan[i - 1], text[i])
  BY <1>1, <1>8
<1>10. \A i \in 2..n : scan[i] \in DurationState
  <2> DEFINE S == {i \in 2..n : scan[i] \in DurationState}
  <2>1. 2 \in S
    <3>1. 2 \in 2..n /\ scan[2] \in DurationState
      <4> HIDE DEF n
      <4> QED
        BY <1>1, <1>2, <1>9
    <3> QED
      BY <3>1
  <2>2. ASSUME NEW i \in 2..n, i \in S, i + 1 <= n PROVE i + 1 \in S
    <3>1. i + 1 \in 3..n /\ (i + 1) - 1 = i /\ i + 1 \in 2..n
      BY <1>1, <2>2
    <3>2. scan[i + 1] = DurationCharacter(scan[i], text[i + 1])
      BY <1>9, <3>1
    <3>3. scan[i + 1] \in DurationState
      BY <2>2, <3>2, DurationCharacterIs
    <3> QED
      BY <3>1, <3>3
  <2>3. \A i \in 2..n : i \in S
    <3> HIDE DEF S, n
    <3>1. 2 \in Nat
      OBVIOUS
    <3> QED
      BY <1>1, <2>1, <2>2, <3>1, Induction
  <2> QED
    BY <2>3
<1>11. scan \in [2..n -> DurationState]
  BY <1>8, <1>10
<1> QED
  BY <1>2, <1>9, <1>11 DEF scan

\* When i characters of a duration are accepted, they are hours, minutes and seconds
\* up to e and digits after it.
GroupsTo(text, s, i, h, m, e) ==
  /\ 2 <= h /\ h <= m /\ m <= e /\ e <= i
  /\ IsGroup(text, 2, h, "H") /\ IsGroup(text, h, m, "M") /\ IsGroup(text, m, e, "S")
  /\ \A k \in (e + 1)..i : text[k] = "d"
  /\ s.digit <=> e < i
  /\ s.last = "none" => h = 2
  /\ s.last \in {"none", "H"} => m = h
  /\ s.last \in {"none", "H", "M"} => e = m

LEMMA DurationIsGroups ==
  ASSUME NEW text \in Seq(Char), Len(text) >= 2
  PROVE  \A i \in 2..Len(text) :
           LET s == DurationScanned(text)[i]
           IN  ~s.wrong => \E h, m, e \in Nat : GroupsTo(text, s, i, h, m, e)
<1> DEFINE n == Len(text)
           scan == DurationScanned(text)
           Grouped(i) == ~scan[i].wrong
                           => \E h, m, e \in Nat : GroupsTo(text, scan[i], i, h, m, e)
           S == {i \in 2..n : Grouped(i)}
<1>1. n \in Nat /\ 2 <= n /\ 2 \in 2..n
  OBVIOUS
<1>2. /\ scan \in [2..n -> DurationState]
      /\ ~scan[2].digit /\ scan[2].last = "none" /\ ~scan[2].wrong
      /\ \A i \in 3..n : scan[i] = DurationCharacter(scan[i - 1], text[i])
  BY DurationScannedIs
<1> HIDE DEF scan, n
<1>3. 2 \in S
  <2>1. IsGroup(text, 2, 2, "H") /\ IsGroup(text, 2, 2, "M") /\ IsGroup(text, 2, 2, "S")
    BY DEF IsGroup
  <2>2. \A k \in (2 + 1)..2 : FALSE
    OBVIOUS
  <2>3. GroupsTo(text, scan[2], 2, 2, 2, 2)
    BY <1>2, <2>1, <2>2 DEF GroupsTo
  <2> QED
    BY <1>1, <2>3
<1>4. ASSUME NEW i \in 2..n, i \in S, i + 1 <= n PROVE i + 1 \in S
  <2> DEFINE s == scan[i]
             t == scan[i + 1]
             c == text[i + 1]
  <2>1. i \in Nat /\ 2 <= i /\ i + 1 \in 2..n /\ i + 1 \in 3..n /\ (i + 1) - 1 = i
    BY <1>1, <1>4
  <2>2. s \in DurationState /\ t = DurationCharacter(s, c)
    BY <1>2, <1>4, <2>1
  <2>3. SUFFICES ASSUME ~t.wrong
                 PROVE  \E h, m, e \in Nat : GroupsTo(text, t, i + 1, h, m, e)
    BY <2>1
  <2>4. /\ c = "d" => t.digit /\ t.last = s.last /\ t.wrong = s.wrong
        /\ c \in {"H", "M", "S"} /\ s.digit /\ c \notin Closed(s.last)
             => ~t.digit /\ t.last = c /\ t.wrong = s.wrong
        /\ c # "d" /\ ~(c \in {"H", "M", "S"} /\ s.digit /\ c \notin Closed(s.last))
             => t.wrong
    BY <2>2, DurationCharacterIs
  <2>5. Grouped(i)
    BY <1>4
  <2> HIDE DEF s, t, c
  <2>6. ~s.wrong /\ s.last \in {"none", "H", "M", "S"}
        /\ (c = "d" \/ (c \in {"H", "M", "S"} /\ s.digit /\ c \notin Closed(s.last)))
    BY <2>2, <2>3, <2>4 DEF DurationState
  <2>7. PICK h \in Nat, m \in Nat, e \in Nat : GroupsTo(text, s, i, h, m, e)
    BY <2>5, <2>6 DEF s
  <2>8. /\ 2 <= h /\ h <= m /\ m <= e /\ e <= i
        /\ IsGroup(text, 2, h, "H") /\ IsGroup(text, h, m, "M")
        /\ IsGroup(text, m, e, "S")
        /\ \A k \in (e + 1)..i : text[k] = "d"
        /\ s.digit <=> e < i
        /\ s.last = "none" => h = 2
        /\ s.last \in {"none", "H"} => m = h
        /\ s.last \in {"none", "H", "M"} => e = m
    BY <2>7 DEF GroupsTo
  <2>9. CASE c = "d"
    <3>1. \A k \in (e + 1)..(i + 1) : k \in (e + 1)..i \/ k = i + 1
      BY <2>1
    <3>2. \A k \in (e + 1)..(i + 1) : text[k] = "d"
      BY <2>8, <2>9, <3>1 DEF c
    <3>3. GroupsTo(text, t, i + 1, h, m, e)
      BY <2>1, <2>4, <2>8, <2>9, <3>2 DEF GroupsTo
    <3> QED
      BY <3>3
  <2>10. CASE c # "d"
    <3>1. c \in {"H", "M", "S"} /\ c \notin Closed(s.last) /\ ~t.digit /\ t.last = c
          /\ e < i
      BY <2>4, <2>6, <2>8, <2>10
    <3>2. \A k \in (e + 1)..((i + 1) - 1) : text[k] = "d"
      BY <2>1, <2>8
    <3>3. IsGroup(text, e, i + 1, c)
      <4>1. i + 1 >= e + 2
        BY <2>1, <3>1
      <4> QED
        BY <3>2, <4>1 DEF IsGroup, c
    <3>4. \A x : IsGroup(text, i + 1, i + 1, x)
      BY DEF IsGroup
    <3>5. \A k \in ((i + 1) + 1)..(i + 1) : FALSE
      BY <2>1
    <3>6. i + 1 \in Nat /\ 2 <= i + 1 /\ h <= i + 1 /\ m <= i + 1
          /\ i + 1 <= i + 1 /\ ~(i + 1 < i + 1)
      BY <2>1, <2>8
    <3>7. CASE c = "H"
      <4>1. s.last = "none"
        BY <2>6, <3>1, <3>7 DEF Closed
      <4>2. e = 2
        BY <2>8, <4>1
      <4>3. GroupsTo(text, t, i + 1, i + 1, i + 1, i + 1)
        BY <3>1, <3>3, <3>4, <3>5, <3>6, <3>7, <4>2 DEF GroupsTo
      <4> QED
        BY <3>6, <4>3
    <3>8. CASE c = "M"
      <4>1. s.last \in {"none", "H"}
        BY <2>6, <3>1, <3>8 DEF Closed
      <4>2. e = h
        BY <2>8, <4>1
      <4>3. GroupsTo(text, t, i + 1, h, i + 1, i + 1)
        BY <2>8, <3>1, <3>3, <3>4, <3>5, <3>6, <3>8, <4>2 DEF GroupsTo
      <4> QED
        BY <3>6, <4>3
    <3>9. CASE c = "S"
      <4>1. s.last \in {"none", "H", "M"}
        BY <2>6, <3>1, <3>9 DEF Closed
      <4>2. e = m
        BY <2>8, <4>1
      <4>3. GroupsTo(text, t, i + 1, h, m, i + 1)
        BY <2>8, <3>1, <3>3, <3>4, <3>5, <3>6, <3>9, <4>2 DEF GroupsTo
      <4> QED
        BY <3>6, <4>3
    <3> QED
      BY <3>1, <3>7, <3>8, <3>9
  <2> QED
    BY <2>9, <2>10
<1>5. \A i \in 2..n : i \in S
  <2> HIDE DEF S
  <2> QED
    BY <1>1, <1>3, <1>4, Induction
<1> QED
  BY <1>5 DEF n, scan

\* The loop accepts what is hours, minutes and seconds: no designator comes too late.
LEMMA GroupsAreDuration ==
  ASSUME NEW text \in Seq(Char), Len(text) > 2,
         NEW h \in 2..Len(text), NEW m \in h..Len(text),
         IsGroup(text, 2, h, "H"), IsGroup(text, h, m, "M"),
         IsGroup(text, m, Len(text), "S")
  PROVE  LET end == DurationScanned(text)[Len(text)]
         IN  ~end.wrong /\ ~end.digit /\ end.last # "none"
<1> DEFINE n == Len(text)
           scan == DurationScanned(text)
           Passes(i) ==
             /\ ~scan[i].wrong
             /\ scan[i].digit <=> i \notin {2, h, m, n}
             /\ i < h => scan[i].last = "none"
             /\ i < m => scan[i].last \in {"none", "H"}
             /\ i < n => scan[i].last \in {"none", "H", "M"}
             /\ i \in {h, m, n} /\ i > 2 => scan[i].last # "none"
           S == {i \in 2..n : Passes(i)}
<1>1. n \in Nat /\ 2 < n /\ 2 \in 2..n /\ h \in Nat /\ m \in Nat
      /\ 2 <= h /\ h <= m /\ m <= n
  OBVIOUS
<1>2. /\ scan \in [2..n -> DurationState]
      /\ ~scan[2].digit /\ scan[2].last = "none" /\ ~scan[2].wrong
      /\ \A i \in 3..n : scan[i] = DurationCharacter(scan[i - 1], text[i])
  BY DurationScannedIs
<1>3. /\ h = 2 \/ (h >= 4 /\ text[h] = "H" /\ \A i \in 3..(h - 1) : text[i] = "d")
      /\ h = m \/ (m >= h + 2 /\ text[m] = "M" /\ \A i \in (h + 1)..(m - 1) : text[i] = "d")
      /\ m = n \/ (n >= m + 2 /\ text[n] = "S" /\ \A i \in (m + 1)..(n - 1) : text[i] = "d")
  BY DEF IsGroup
<1> HIDE DEF scan, n
<1>4. 2 \in S
  BY <1>1, <1>2
<1>5. ASSUME NEW i \in 2..n, i \in S, i + 1 <= n PROVE i + 1 \in S
  <2> DEFINE s == scan[i]
             t == scan[i + 1]
             c == text[i + 1]
  <2>1. i \in Nat /\ 2 <= i /\ i + 1 \in 2..n /\ i + 1 \in 3..n /\ (i + 1) - 1 = i
    BY <1>1, <1>5
  <2>2. s \in DurationState /\ t = DurationCharacter(s, c)
    BY <1>2, <1>5, <2>1
  <2>3. /\ c = "d" => t.digit /\ t.last = s.last /\ t.wrong = s.wrong
        /\ c \in {"H", "M", "S"} /\ s.digit /\ c \notin Closed(s.last)
             => ~t.digit /\ t.last = c /\ t.wrong = s.wrong
    BY <2>2, DurationCharacterIs
  <2>4. Passes(i)
    BY <1>5
  <2>5. /\ ~s.wrong
        /\ s.digit <=> i \notin {2, h, m, n}
        /\ i < h => s.last = "none"
        /\ i < m => s.last \in {"none", "H"}
        /\ i < n => s.last \in {"none", "H", "M"}
    BY <2>4
  <2> HIDE DEF s, t, c
  <2>6. CASE i + 1 \notin {h, m, n}
    <3>1. c = "d"
      <4>1. CASE i + 1 < h
        <5>1. i + 1 \in 3..(h - 1) /\ h # 2
          BY <1>1, <2>1, <4>1
        <5> QED
          BY <1>3, <5>1 DEF c
      <4>2. CASE h < i + 1 /\ i + 1 < m
        <5>1. i + 1 \in (h + 1)..(m - 1) /\ h # m
          BY <1>1, <2>1, <4>2
        <5> QED
          BY <1>3, <5>1 DEF c
      <4>3. CASE m < i + 1
        <5>1. i + 1 \in (m + 1)..(n - 1) /\ m # n
          BY <1>1, <1>5, <2>1, <2>6, <4>3
        <5> QED
          BY <1>3, <5>1 DEF c
      <4> QED
        BY <1>1, <2>1, <2>6, <4>1, <4>2, <4>3
    <3>2. t.digit /\ t.last = s.last /\ ~t.wrong
      BY <2>3, <2>5, <3>1
    <3>3. /\ i + 1 < h => i < h
          /\ i + 1 < m => i < m
          /\ i + 1 < n => i < n
          /\ i + 1 # 2
      BY <1>1, <2>1
    <3>4. Passes(i + 1)
      BY <2>5, <2>6, <3>2, <3>3 DEF t
    <3> QED
      BY <2>1, <3>4
  <2>7. CASE i + 1 \in {h, m, n}
    <3>1. s.digit
      <4>1. i \notin {2, h, m, n}
        BY <1>1, <1>3, <2>1, <2>7
      <4> QED
        BY <2>5, <4>1
    <3>2. c \in {"H", "M", "S"} /\ c \notin Closed(s.last)
          /\ (i + 1 < m => c = "H") /\ (i + 1 < n => c \in {"H", "M"})
      <4>1. CASE i + 1 = h
        <5>1. c = "H" /\ s.last = "none"
          BY <1>1, <1>3, <2>1, <2>5, <4>1 DEF c
        <5> QED
          BY <5>1 DEF Closed
      <4>2. CASE i + 1 = m /\ h # m
        <5>1. c = "M" /\ s.last \in {"none", "H"}
          BY <1>1, <1>3, <2>1, <2>5, <4>2 DEF c
        <5>2. ~(i + 1 < m)
          BY <1>1, <4>2
        <5> QED
          BY <5>1, <5>2 DEF Closed
      <4>3. CASE i + 1 = n /\ m # n
        <5>1. c = "S" /\ s.last \in {"none", "H", "M"}
          BY <1>1, <1>3, <2>1, <2>5, <4>3 DEF c
        <5>2. ~(i + 1 < m) /\ ~(i + 1 < n)
          BY <1>1, <4>3
        <5> QED
          BY <5>1, <5>2 DEF Closed
      <4> QED
        BY <2>7, <4>1, <4>2, <4>3
    <3>3. ~t.digit /\ t.last = c /\ ~t.wrong
      BY <2>3, <2>5, <3>1, <3>2
    <3>4. ~(i + 1 < h)
      BY <1>1, <2>1, <2>7
    <3>5. Passes(i + 1)
      BY <2>7, <3>2, <3>3, <3>4 DEF t
    <3> QED
      BY <2>1, <3>5
  <2> QED
    BY <2>6, <2>7
<1>6. n \in S
  <2> HIDE DEF S
  <2>1. \A i \in 2..n : i \in S
    BY <1>1, <1>4, <1>5, Induction
  <2> QED
    BY <1>1, <2>1
<1> QED
  BY <1>1, <1>6 DEF n, scan

\* The durations that the code takes are those of hours, minutes and seconds in this
\* order, and they have no NUL.
THEOREM DurationIsAdvertised ==
  ASSUME NEW text \in Seq(Char)
  PROVE  /\ IsDurationPayload(text) <=> ValueOfDuration(text)
         /\ ValueOfDuration(text) => \A i \in DOMAIN text : text[i] # "nul"
<1> DEFINE n == Len(text)
           end == DurationScanned(text)[n]
<1>1. n \in Nat /\ DOMAIN text = 1..n
  OBVIOUS
<1>2. ASSUME IsDurationPayload(text) PROVE ValueOfDuration(text)
  <2>1. n >= 3 /\ text[1] = "P" /\ text[2] = "T" /\ ~end.wrong /\ ~end.digit
    BY <1>2 DEF IsDurationPayload
  <2>2. n \in 2..n /\ n >= 2
    BY <1>1, <2>1
  <2>3. ~end.wrong => \E h, m, e \in Nat : GroupsTo(text, end, n, h, m, e)
    BY <2>2, DurationIsGroups
  <2> HIDE DEF end
  <2>4. PICK h \in Nat, m \in Nat, e \in Nat : GroupsTo(text, end, n, h, m, e)
    BY <2>1, <2>3
  <2>5. /\ 2 <= h /\ h <= m /\ m <= e /\ e <= n /\ ~(e < n)
        /\ IsGroup(text, 2, h, "H") /\ IsGroup(text, h, m, "M")
        /\ IsGroup(text, m, e, "S")
    BY <2>1, <2>4 DEF GroupsTo
  <2>6. e = n /\ h \in 2..n /\ m \in h..n
    <3> HIDE DEF n
    <3> QED
      BY <1>1, <2>5
  <2> QED
    BY <2>1, <2>5, <2>6 DEF ValueOfDuration
<1>3. ASSUME ValueOfDuration(text)
      PROVE  IsDurationPayload(text) /\ \A i \in 1..n : text[i] # "nul"
  <2>1. /\ n > 2 /\ text[1] = "P" /\ text[2] = "T"
        /\ \E h \in 2..n : \E m \in h..n :
             /\ IsGroup(text, 2, h, "H") /\ IsGroup(text, h, m, "M")
             /\ IsGroup(text, m, n, "S")
    BY <1>3 DEF ValueOfDuration
  <2>a. PICK h \in 2..n : \E m \in h..n :
          /\ IsGroup(text, 2, h, "H") /\ IsGroup(text, h, m, "M")
          /\ IsGroup(text, m, n, "S")
    BY <2>1
  <2>2. PICK m \in h..n :
          /\ IsGroup(text, 2, h, "H") /\ IsGroup(text, h, m, "M")
          /\ IsGroup(text, m, n, "S")
    BY <2>a
  <2>3. ~end.wrong /\ ~end.digit /\ end.last # "none"
    BY <2>1, <2>2, GroupsAreDuration
  <2>4. n >= 3
    BY <1>1, <2>1
  <2>5. IsDurationPayload(text)
    BY <2>1, <2>3, <2>4 DEF IsDurationPayload
  <2> HIDE DEF end, n
  <2>6. ASSUME NEW i \in 3..n PROVE text[i] # "nul"
    <3>1. CASE i <= h
      <4>1. 2 # h /\ (i = h \/ i \in (2 + 1)..(h - 1))
        BY <1>1, <3>1
      <4> QED
        BY <2>2, <4>1 DEF IsGroup
    <3>2. CASE h < i /\ i <= m
      <4>1. h # m /\ (i = m \/ i \in (h + 1)..(m - 1))
        BY <1>1, <3>2
      <4> QED
        BY <2>2, <4>1 DEF IsGroup
    <3>3. CASE m < i
      <4>1. m # n /\ (i = n \/ i \in (m + 1)..(n - 1))
        BY <1>1, <3>3
      <4> QED
        BY <2>2, <4>1 DEF IsGroup
    <3> QED
      BY <1>1, <3>1, <3>2, <3>3
  <2>7. \A i \in 1..n : i = 1 \/ i = 2 \/ i \in 3..n
    BY <1>1
  <2> QED
    BY <2>1, <2>5, <2>6, <2>7
<1> QED
  BY <1>1, <1>2, <1>3

-----------------------------------------------------------------------------
(* The steps of an integer.                                                *)

\* A product has the size of its factors.
LEMMA ProductBounds ==
  ASSUME NEW k \in Int, NEW s \in Nat, s >= 1
  PROVE  /\ k >= 0 => k * s >= k
         /\ k <= 0 => k * s <= k
         /\ k >= 1 => k * s >= s
         /\ k <= -1 => k * s <= -s
<1>1. k >= 0 => k * (s - 1) >= 0
  OBVIOUS
<1>2. k <= 0 => k * (s - 1) <= 0
  OBVIOUS
<1>3. k * s = k * (s - 1) + k
  OBVIOUS
<1>4. k >= 1 => (k - 1) * s >= 0
  OBVIOUS
<1>5. k <= -1 => (k + 1) * s <= 0
  OBVIOUS
<1>6. k * s = (k - 1) * s + s /\ k * s = (k + 1) * s - s
  OBVIOUS
<1>7. k * s \in Int /\ k * (s - 1) \in Int /\ (k - 1) * s \in Int /\ (k + 1) * s \in Int
  OBVIOUS
<1> QED
  BY <1>1, <1>2, <1>3, <1>4, <1>5, <1>6, <1>7

\* Division leaves a remainder below the divisor.
LEMMA Division ==
  ASSUME NEW d \in Int, NEW s \in Nat, s >= 1
  PROVE  /\ d = (d \div s) * s + (d % s)
         /\ d \div s \in Int /\ d % s \in Nat /\ d % s < s
<1>1. d \div s \in Int
  OBVIOUS
<1>2. d % s \in 0..(s - 1)
  OBVIOUS
<1>3. d = s * (d \div s) + (d % s)
  OBVIOUS
<1> QED
  BY <1>1, <1>2, <1>3

\* What is left is nothing just when there is a whole number of steps, and there are
\* no more of them than the distance is long.
LEMMA Steps ==
  ASSUME NEW d \in Int, NEW s \in Nat, s >= 1
  PROVE  /\ d % s = 0 => d = (d \div s) * s
         /\ \A k \in Int : d = k * s => /\ d % s = 0
                                        /\ d >= 0 => 0 <= k /\ k <= d
                                        /\ d <= 0 => d <= k /\ k <= 0
<1> DEFINE q == d \div s
           r == d % s
<1>1. d = q * s + r /\ q \in Int /\ r \in Nat /\ r < s /\ q * s \in Int
  BY Division
<1> HIDE DEF q, r
<1>2. ASSUME NEW k \in Int, d = k * s
      PROVE  /\ r = 0
             /\ d >= 0 => 0 <= k /\ k <= d
             /\ d <= 0 => d <= k /\ k <= 0
  <2>1. (k - q) * s = k * s - q * s /\ k - q \in Int /\ (k - q) * s \in Int
        /\ k * s \in Int
    BY <1>1
  <2>2. (k - q) * s = r
    BY <1>1, <1>2, <2>1
  <2>3. k - q >= 1 => (k - q) * s >= s
    BY <2>1, ProductBounds
  <2>4. k - q <= -1 => (k - q) * s <= -s
    BY <2>1, ProductBounds
  <2>5. k - q = 0
    BY <1>1, <2>1, <2>2, <2>3, <2>4
  <2>6. r = 0
    BY <2>2, <2>5
  <2>7. /\ k >= 0 => k * s >= k
        /\ k <= 0 => k * s <= k
        /\ k >= 1 => k * s >= s
        /\ k <= -1 => k * s <= -s
    BY ProductBounds
  <2> QED
    BY <1>2, <2>1, <2>6, <2>7
<1>3. r = 0 => d = q * s
  BY <1>1
<1> QED
  BY <1>2, <1>3 DEF q, r

\* Nothing is lost of a number that a long long can hold.
LEMMA WrapIs ==
  ASSUME NEW d \in Int, Fits(d)
  PROVE  Wrap(d) = d
<1> DEFINE x == d - MinInt
           m == MaxInt - MinInt + 1
<1>1. MaxInt \in Nat /\ MinInt \in Int
  BY LongLong DEF MinInt
<1>2. x \in Nat /\ m \in Nat /\ m >= 1 /\ x < m
  BY <1>1 DEF Fits
<1> HIDE DEF x, m
<1>3. x = (x \div m) * m + (x % m)
      /\ x \div m \in Int /\ x % m \in Nat /\ x % m < m
  BY <1>2, Division
<1>4. x \div m >= 1 => (x \div m) * m >= m
  BY <1>2, <1>3, ProductBounds
<1>5. x \div m <= -1 => (x \div m) * m <= -m
  BY <1>2, <1>3, ProductBounds
<1>6. (x \div m) * m \in Int
  BY <1>2, <1>3
<1>7. x \div m = 0
  BY <1>2, <1>3, <1>4, <1>5, <1>6
<1>8. x % m = x
  BY <1>2, <1>3, <1>7
<1>9. x + MinInt = d
  BY <1>1 DEF x
<1> QED
  BY <1>8, <1>9 DEF Wrap, x, m

\* An integer in a format that is advertised: within its limits, and a whole number of
\* steps away from where they are counted.
LEMMA IntegerIsAdvertised ==
  ASSUME NEW v, NEW f \in Seq(Number), NEW p \in Number, p.kind = "plain", Fits(p.n),
         IsNumericFormat(v, f), Len(f) = 3 => Fits(p.n - Base(f))
  PROVE  NumericPayloadMatchesFormat(v, p, f) <=> ValueOfRange(f, p.n)
<1> DEFINE n == p.n
           base == Base(f)
           s == f[3].n
<1>1. n \in Int /\ \A i \in 1..Len(f) : f[i].n \in Int
  <2>1. \A x \in Number : x.n \in Int
    BY DEF Number
  <2>2. \A i \in 1..Len(f) : f[i] \in Number
    OBVIOUS
  <2> QED
    BY <2>1, <2>2
<1>2. /\ Len(f) \in {2, 3} /\ f # <<>>
      /\ Len(f) = 3 => f[3].n > 0
  BY DEF IsNumericFormat
<1>3. f[1].n \in Int /\ f[2].n \in Int
  BY <1>1, <1>2
<1>4. base = (IF f[1].kind # "none" THEN f[1].n
              ELSE IF f[2].kind # "none" THEN f[2].n ELSE 0)
      /\ base \in Int
  BY <1>3 DEF Base, Given
<1>5. ASSUME Len(f) = 3
      PROVE  Wrap(n - base) % s = 0 <=> \E k \in MinInt..MaxInt : n = k * s + base
  <2>1. s \in Nat /\ s >= 1 /\ MinInt \in Int /\ MaxInt \in Nat /\ MinInt <= 0
    BY <1>1, <1>2, <1>5, LongLong DEF MinInt
  <2>2. n - base \in Int /\ Fits(n - base)
    BY <1>1, <1>4, <1>5
  <2>3. Wrap(n - base) = n - base
    BY <2>2, WrapIs
  <2>4. MinInt <= n - base /\ n - base <= MaxInt
    BY <2>2 DEF Fits
  <2> DEFINE d == n - base
  <2>5. \A k \in Int : k * s \in Int
    BY <2>1
  <2>6. \A k \in Int : n = k * s + base <=> d = k * s
    <3> HIDE DEF n, base, s
    <3>1. \A x \in Int : n = x + base <=> n - base = x
      BY <1>1, <1>4
    <3> QED
      BY <2>5, <3>1
  <2> HIDE DEF d, n, base, s
  <2>7. d \in Int /\ MinInt <= d /\ d <= MaxInt /\ Wrap(n - base) = d
    BY <2>2, <2>3, <2>4 DEF d
  <2>8. /\ d % s = 0 => d = (d \div s) * s
        /\ \A k \in Int : d = k * s => /\ d % s = 0
                                       /\ d >= 0 => 0 <= k /\ k <= d
                                       /\ d <= 0 => d <= k /\ k <= 0
    BY <2>1, <2>7, Steps
  <2>9. ASSUME d % s = 0 PROVE \E k \in MinInt..MaxInt : n = k * s + base
    <3>1. d \div s \in Int
      BY <2>1, <2>7, Division
    <3> DEFINE q == d \div s
    <3>2. d = q * s
      BY <2>8, <2>9
    <3> HIDE DEF q
    <3>3. q \in Int
      BY <3>1 DEF q
    <3>4. (d >= 0 => 0 <= q /\ q <= d) /\ (d <= 0 => d <= q /\ q <= 0)
      BY <2>8, <3>2, <3>3
    <3>5. q \in MinInt..MaxInt
      BY <2>1, <2>7, <3>3, <3>4
    <3> QED
      BY <2>6, <3>2, <3>3, <3>5
  <2>10. ASSUME NEW k \in MinInt..MaxInt, n = k * s + base PROVE d % s = 0
    <3>1. k \in Int
      BY <2>1
    <3> QED
      BY <2>6, <2>8, <2>10, <3>1
  <2> QED
    BY <2>7, <2>9, <2>10
<1>6. NumericPayloadMatchesFormat(v, p, f)
        <=> /\ Given(f[1]) => n >= f[1].n
            /\ Given(f[2]) => n <= f[2].n
            /\ Len(f) = 3 => Wrap(n - base) % s = 0
  BY DEF NumericPayloadMatchesFormat, ParseIntegerValue
<1>7. ValueOfRange(f, n)
        <=> /\ f[1].kind = "none" \/ f[1].n <= n
            /\ f[2].kind = "none" \/ n <= f[2].n
            /\ Len(f) = 3 => \E k \in MinInt..MaxInt : n = k * s + base
  BY <1>2, <1>4 DEF ValueOfRange
<1> HIDE DEF base, s
<1> QED
  BY <1>1, <1>3, <1>5, <1>6, <1>7 DEF Given

-----------------------------------------------------------------------------
(* Colours.                                                                *)

\* The colour spaces that a valid format names are known ones.
LEMMA ColorNames ==
  ASSUME NEW v \in {3, 4, 5}, NEW f \in Seq(STRING), IsColorFormat(v, f),
         NEW type \in ToSet(f), type # NoName
  PROVE  /\ type \in {"rgb", "hsv", "xyz"}
         /\ v # 5 => type = f[1]
<1>1. PICK i \in 1..Len(f) : type = f[i]
  BY DEF ToSet
<1>2. CASE v # 5
  <2>1. f = <<"rgb">> \/ f = <<"hsv">>
    BY <1>2 DEF IsColorFormat
  <2>2. Len(f) = 1 /\ f[1] \in {"rgb", "hsv"}
    BY <2>1
  <2>3. i = 1
    BY <2>2
  <2> QED
    BY <1>1, <2>2, <2>3
<1>3. CASE v = 5
  <2>1. CASE Len(f) > 1 /\ f[Len(f)] = NoName
    <3>1. \A k \in DOMAIN Front(f) : Front(f)[k] \in {"rgb", "hsv", "xyz"}
      BY <1>3, <2>1 DEF IsColorFormat, Last
    <3>2. Len(f) \in Nat
      OBVIOUS
    <3>3. i # Len(f)
      BY <1>1, <2>1
    <3>4. i \in 1..(Len(f) - 1)
      BY <3>2, <3>3
    <3>5. Len(f) - 1 \in Nat
      BY <2>1, <3>2
    <3>6. Front(f) = SubSeq(f, 1, Len(f) - 1)
      BY DEF Front
    <3>7. i \in DOMAIN Front(f) /\ Front(f)[i] = f[i]
      BY <3>4, <3>5, <3>6
    <3> QED
      BY <1>1, <1>3, <3>1, <3>7
  <2>2. CASE ~(Len(f) > 1 /\ f[Len(f)] = NoName)
    <3>1. \A k \in DOMAIN f : f[k] \in {"rgb", "hsv", "xyz"}
      BY <1>3, <2>2 DEF IsColorFormat, Last
    <3> QED
      BY <1>1, <1>3, <3>1
  <2> QED
    BY <2>1, <2>2
<1> QED
  BY <1>2, <1>3

\* A colour that has no more components than eight bits count.
LEMMA ColorIsAdvertised ==
  ASSUME NEW v \in {3, 4, 5}, NEW f \in Seq(STRING), IsColorFormat(v, f),
         NEW payload, payload.parts \in Seq(Number), Len(payload.parts) < 256
  PROVE  /\ ValueOfColor(v, f, payload, Strict) => ColorPayloadValid(v, payload, f)
         /\ ColorPayloadValid(v, payload, f)
              => ValueOfColor(v, f, payload, Tolerated)
         /\ ValueOfColor(v, f, payload, Tolerated) => payload.parts # <<>>
<1> DEFINE Kinds == IF v = 5 THEN {"plain", "long"}
                    ELSE {"plain", "loose", "cut", "hollow"}
           type == IF v = 5 THEN payload.type ELSE f[1]
           parts == payload.parts
           n == Len(parts)
           Within(kinds, t) == \A i \in 1..n : /\ parts[i].kind \in kinds
                                               /\ parts[i].n \in 0..MaxComponent(t, i)
           Is(kinds, t) == /\ DOMAIN parts = DOMAIN Components[t]
                           /\ \A i \in DOMAIN parts :
                                /\ parts[i].kind \in kinds
                                /\ parts[i].n \in 0..Components[t][i]
<1>1. n \in Nat /\ n < 256 /\ DOMAIN parts = 1..n
  OBVIOUS
<1>2. n % 256 = n
  <2> HIDE DEF n
  <2> QED
    BY <1>1
<1>3. DOMAIN Components = {"rgb", "hsv", "xyz"}
  BY DEF Components
<1>4. ASSUME NEW t \in {"rgb", "hsv", "xyz"}
      PROVE  /\ DOMAIN Components[t] = 1..(IF t = "xyz" THEN 2 ELSE 3)
             /\ \A i \in DOMAIN Components[t] : Components[t][i] = MaxComponent(t, i)
  <2>1. CASE t = "rgb"
    <3>1. Components[t] = <<255, 255, 255>>
      BY <2>1 DEF Components
    <3> QED
      BY <2>1, <3>1 DEF MaxComponent
  <2>2. CASE t = "hsv"
    <3>1. Components[t] = <<360, 100, 100>>
      BY <2>2 DEF Components
    <3> QED
      BY <2>2, <3>1 DEF MaxComponent
  <2>3. CASE t = "xyz"
    <3>1. Components[t] = <<1, 1>>
      BY <2>3 DEF Components
    <3> QED
      BY <2>3, <3>1 DEF MaxComponent
  <2> QED
    BY <1>4, <2>1, <2>2, <2>3
<1>5. ASSUME NEW kinds, NEW t \in {"rgb", "hsv", "xyz"}
      PROVE  Is(kinds, t) <=> n = (IF t = "xyz" THEN 2 ELSE 3) /\ Within(kinds, t)
  <2> DEFINE m == IF t = "xyz" THEN 2 ELSE 3
  <2>1. m \in Nat /\ DOMAIN Components[t] = 1..m
        /\ \A i \in 1..m : Components[t][i] = MaxComponent(t, i)
    BY <1>4
  <2> HIDE DEF m, n
  <2>2. 1..n = 1..m <=> n = m
    BY <1>1, <2>1
  <2> QED
    BY <1>1, <2>1, <2>2 DEF m
<1>6. ASSUME NEW kinds
      PROVE  ValueOfColor(v, f, payload, kinds)
               <=> \E t \in {"rgb", "hsv", "xyz"} \intersect ToSet(f) :
                     /\ payload.type = IF v = 5 THEN t ELSE NoName
                     /\ n = IF t = "xyz" THEN 2 ELSE 3
                     /\ Within(kinds, t)
  <2>1. ValueOfColor(v, f, payload, kinds)
          <=> \E t \in {"rgb", "hsv", "xyz"} \intersect ToSet(f) :
                /\ payload.type = IF v = 5 THEN t ELSE NoName
                /\ Is(kinds, t)
    BY <1>3 DEF ValueOfColor
  <2> HIDE DEF n, parts, Within, Is
  <2> QED
    BY <1>5, <2>1
<1>7. ColorPayloadValid(v, payload, f)
        <=> /\ IF v = 5 THEN type # NoName /\ type \in ToSet(f)
               ELSE payload.type = NoName
            /\ n = IF type = "xyz" THEN 2 ELSE 3
            /\ Within(Kinds, type)
  <2>1. CASE v = 5
    <3>1. type = payload.type
      BY <2>1
    <3>2. ColorPayloadValid(v, payload, f)
            <=> /\ payload.type # NoName /\ payload.type \in ToSet(f)
                /\ n % 256 = IF payload.type = "xyz" THEN 2 ELSE 3
                /\ \A i \in DOMAIN parts :
                     /\ parts[i].kind \in {"plain", "long"}
                     /\ parts[i].n \in 0..MaxComponent(payload.type, i)
      BY <2>1, Zenon DEF ColorPayloadValid
    <3>3. Within({"plain", "long"}, payload.type)
            <=> \A i \in DOMAIN parts :
                  /\ parts[i].kind \in {"plain", "long"}
                  /\ parts[i].n \in 0..MaxComponent(payload.type, i)
      BY <1>1, Zenon
    <3> HIDE DEF type, n, parts, Within
    <3> QED
      BY <1>2, <2>1, <3>1, <3>2, <3>3
  <2>2. CASE v # 5
    BY <1>1, <1>2, <2>2 DEF ColorPayloadValid
  <2> QED
    BY <2>1, <2>2
<1>8. NoName \notin {"rgb", "hsv", "xyz"}
  BY Zenon DEF NoName
<1>9. v # 5 => f[1] \in {"rgb", "hsv", "xyz"} \intersect ToSet(f)
  <2> SUFFICES ASSUME v # 5 PROVE f[1] \in {"rgb", "hsv", "xyz"} \intersect ToSet(f)
    OBVIOUS
  <2>1. f = <<"rgb">> \/ f = <<"hsv">>
    BY DEF IsColorFormat
  <2>2. 1 \in DOMAIN f /\ f[1] \in {"rgb", "hsv"}
    BY <2>1
  <2> QED
    BY <2>2 DEF ToSet
<1> HIDE DEF n, parts, Within, Is
<1>10. ASSUME NEW t \in {"rgb", "hsv", "xyz"} \intersect ToSet(f)
       PROVE  v # 5 => t = f[1]
  BY <1>8, <1>10, ColorNames
<1>11. \A t : (Within(Strict, t) => Within(Kinds, t))
            /\ (Within(Kinds, t) => Within(Tolerated, t))
  BY DEF Within, Strict, Tolerated
<1>12. ValueOfColor(v, f, payload, Strict) => ColorPayloadValid(v, payload, f)
  <2> SUFFICES ASSUME ValueOfColor(v, f, payload, Strict)
               PROVE  ColorPayloadValid(v, payload, f)
    OBVIOUS
  <2>1. PICK t \in {"rgb", "hsv", "xyz"} \intersect ToSet(f) :
          /\ payload.type = IF v = 5 THEN t ELSE NoName
          /\ n = IF t = "xyz" THEN 2 ELSE 3
          /\ Within(Strict, t)
    BY <1>6
  <2>2. t = type /\ t # NoName
    BY <1>8, <1>10, <2>1
  <2> HIDE DEF type
  <2> QED
    BY <1>7, <1>11, <2>1, <2>2
<1>13. ColorPayloadValid(v, payload, f)
         => ValueOfColor(v, f, payload, Tolerated)
  <2> SUFFICES ASSUME ColorPayloadValid(v, payload, f)
               PROVE  ValueOfColor(v, f, payload, Tolerated)
    OBVIOUS
  <2>1. type \in {"rgb", "hsv", "xyz"} \intersect ToSet(f)
    <3>1. CASE v = 5
      BY <1>7, <3>1, ColorNames
    <3>2. CASE v # 5
      BY <1>9, <3>2
    <3> QED
      BY <3>1, <3>2
  <2>2. payload.type = IF v = 5 THEN type ELSE NoName
    BY <1>7
  <2> HIDE DEF type
  <2>3. /\ n = IF type = "xyz" THEN 2 ELSE 3
        /\ Within(Tolerated, type)
    BY <1>7, <1>11
  <2> QED
    BY <1>6, <2>1, <2>2, <2>3
<1>14. ValueOfColor(v, f, payload, Tolerated) => payload.parts # <<>>
  <2>1. ValueOfColor(v, f, payload, Tolerated) => n # 0
    BY <1>6
  <2> QED
    BY <2>1 DEF n, parts
<1> QED
  BY <1>12, <1>13, <1>14

-----------------------------------------------------------------------------
(* Payloads and attributes.                                                *)

\* A payload is numbers or a text.
LEMMA PayloadIs ==
  ASSUME NEW p \in Properties, NEW payload \in Payloads[p.datatype]
  PROVE  /\ payload.parts \in Seq(Number) /\ payload.text \in Seq(Char)
         /\ payload.text # <<>> => payload.parts = <<>>
<1>1. payload \in Payload /\ (payload.text # <<>> => payload.parts = <<>>)
  BY ContractAssumption
<1>2. payload.parts \in Seq(Number) /\ payload.text \in Seq(STRING)
  BY <1>1 DEF Payload
<1>3. payload.text \in Seq(Char)
  BY <1>2 DEF Char
<1> QED
  BY <1>1, <1>2, <1>3

\* A format is three lists, and a C string.
LEMMA FormatIs ==
  ASSUME NEW p \in Properties
  PROVE  /\ p.format.parts \in Seq(Number) /\ p.format.names \in Seq(STRING)
         /\ p.format.text \in Seq(Char)
         /\ \A i \in DOMAIN p.format.text : p.format.text[i] # "nul"
<1>1. p.format \in Format /\ ~HasNul(p.format)
  BY ContractAssumption
<1>2. p.format.parts \in Seq(Number) /\ p.format.names \in Seq(STRING)
      /\ p.format.text \in Seq(STRING)
  BY <1>1 DEF Format
<1>3. p.format.text \in Seq(Char)
  BY <1>2 DEF Char
<1> QED
  BY <1>1, <1>2, <1>3 DEF HasNul

\* What is advertised is the datatype that the code enforces, and the format if it is
\* a valid one.
LEMMA AdvertisedIs ==
  ASSUME NEW v, NEW p
  PROVE  LET a == Advertised(v, p)
             d == AdvertisedDatatype(v, p)
         IN  /\ a.datatype = d
             /\ d \in {"string", "boolean", "integer", "enum", "color", "duration"}
             /\ d = "integer" => a.format.parts = IF IsNumericFormat(v, p.format.parts)
                                                  THEN p.format.parts ELSE <<>>
             /\ d = "enum" => /\ IsEnumFormat(v, p.format.text)
                              /\ a.format.text = p.format.text
             /\ d = "color" => /\ IsColorFormat(v, p.format.names)
                               /\ a.format.names = p.format.names
<1> DEFINE a == Advertised(v, p)
           d == AdvertisedDatatype(v, p)
           parsed == ParseDatatype(v, p.datatype)
<1>1. parsed \in {"unknown", "boolean", "integer", "string", "enum", "color", "duration"}
  BY DEF ParseDatatype
<1>2. /\ parsed = "unknown" => d = "string"
      /\ parsed \in {"enum", "color"} /\ ~IsValidFormat(v, parsed, p.format)
           => d = "string"
      /\ parsed # "unknown"
         /\ ~(parsed \in {"enum", "color"} /\ ~IsValidFormat(v, parsed, p.format))
           => d = parsed
  BY DEF AdvertisedDatatype
<1>3. p.datatype = NoName => parsed = "unknown"
  <2>1. NoName \notin {"integer", "boolean", "string", "enum", "color"}
                        \union (IF v = 5 THEN {"duration"} ELSE {})
    BY Zenon DEF NoName
  <2> QED
    BY <2>1, Zenon DEF ParseDatatype
<1> HIDE DEF d, parsed
<1>4. a.datatype = (IF v = 3 /\ p.datatype = NoName THEN "string" ELSE d)
      /\ a.format = (IF IsValidFormat(v, d, p.format) THEN p.format ELSE NoFormat)
  BY DEF Advertised, d
<1> HIDE DEF a
<1>5. a.datatype = d /\ d \in {"string", "boolean", "integer", "enum", "color", "duration"}
  BY <1>1, <1>2, <1>3, <1>4
<1>6. d = "integer" => a.format.parts = IF IsNumericFormat(v, p.format.parts)
                                        THEN p.format.parts ELSE <<>>
  <2>1. d = "integer"
          => (IsValidFormat(v, d, p.format) <=> IsNumericFormat(v, p.format.parts))
    BY DEF IsValidFormat
  <2>2. NoFormat.parts = <<>>
    BY DEF NoFormat
  <2> QED
    BY <1>4, <2>1, <2>2
<1>7. d = "enum" => IsEnumFormat(v, p.format.text) /\ a.format.text = p.format.text
  <2>1. d = "enum" => parsed = d /\ IsValidFormat(v, d, p.format)
    BY <1>1, <1>2
  <2>2. d = "enum" => IsEnumFormat(v, p.format.text)
    BY <2>1 DEF IsValidFormat
  <2> QED
    BY <1>4, <2>1, <2>2
<1>8. d = "color" => IsColorFormat(v, p.format.names) /\ a.format.names = p.format.names
  <2>1. d = "color" => parsed = d /\ IsValidFormat(v, d, p.format)
    BY <1>1, <1>2
  <2>2. d = "color" => IsColorFormat(v, p.format.names)
    BY <2>1 DEF IsValidFormat
  <2> QED
    BY <1>4, <2>1, <2>2
<1> QED
  BY <1>5, <1>6, <1>7, <1>8 DEF a, d

\* A C string is all of a payload that has no NUL, and nothing of one that is NUL.
LEMMA CStringIs ==
  ASSUME NEW payload
  PROVE  /\ payload.text \in Seq(Char) /\ payload.parts \in Seq(Number)
           /\ ~HasNul(payload) => CString(payload) = payload
         /\ CString(Nul) = Empty
<1>1. ASSUME payload.text \in Seq(Char), payload.parts \in Seq(Number), ~HasNul(payload)
      PROVE  CString(payload) = payload
  <2>1. /\ \A i \in 1..Len(payload.text) : payload.text[i] # "nul"
        /\ \A i \in 1..Len(payload.parts) : ~EndsAtNul(payload.parts[i])
    BY <1>1 DEF HasNul
  <2>2. SelectInSeq(payload.text, LAMBDA c : c = "nul") = 0
    BY <2>1 DEF SelectInSeq
  <2>3. SelectInSeq(payload.parts, LAMBDA p : EndsAtNul(p)) = 0
    BY <2>1 DEF SelectInSeq
  <2> QED
    BY <2>2, <2>3 DEF CString
<1>2. CString(Nul) = Empty
  <2>1. Nul.text = <<"nul">> /\ Nul = [Empty EXCEPT !.text = <<"nul">>]
    BY DEF Nul, Empty
  <2>2. Len(<<"nul">>) = 1 /\ <<"nul">>[1] = "nul"
    OBVIOUS
  <2>3. {i \in 1..Len(<<"nul">>) : <<"nul">>[i] = "nul"} = {1}
    BY <2>2
  <2>4. Min({1}) = 1
    BY DEF Min
  <2>5. SelectInSeq(Nul.text, LAMBDA c : c = "nul") = 1
    BY <2>1, <2>3, <2>4 DEF SelectInSeq
  <2>6. SubSeq(Nul.text, 1, 1 - 1) = <<>>
    BY <2>1
  <2>7. CString(Nul) = [Nul EXCEPT !.text = <<>>]
    BY <2>5, <2>6 DEF CString
  <2> QED
    BY <2>1, <2>7 DEF Empty
<1> QED
  BY <1>1, <1>2

\* What is accepted of a datatype other than string has no NUL, unless it is a colour
\* of Homie 3 or 4.
LEMMA AcceptedHasNoNul ==
  ASSUME NEW v \in {3, 4, 5}, NEW p \in Properties, NEW payload,
         payload.parts \in Seq(Number), payload.text \in Seq(Char),
         payload.text # <<>> => payload.parts = <<>>,
         NEW encoded, PayloadMatches(v, p, payload, encoded),
         AdvertisedDatatype(v, p) # "string"
  PROVE  /\ v = 5 \/ AdvertisedDatatype(v, p) # "color" => ~HasNul(payload)
         /\ payload # Empty
<1> DEFINE d == AdvertisedDatatype(v, p)
<1>1. d \in {"boolean", "integer", "enum", "color", "duration"}
  BY AdvertisedIs
<1>2. payload # Empty
  BY DEF PayloadMatches
<1>3. /\ payload.text = <<>> => \/ ~HasNul(payload)
                                \/ \E i \in DOMAIN payload.parts :
                                     EndsAtNul(payload.parts[i])
      /\ payload.parts = <<>> =>
           \/ ~HasNul(payload)
           \/ \E i \in DOMAIN payload.text : payload.text[i] = "nul"
  BY DEF HasNul
<1>9. payload.parts = <<>> => Len(payload.parts) = 0
  OBVIOUS
<1>4. CASE d = "boolean"
  <2>1. payload.text = <<"true">> \/ payload.text = <<"false">>
    BY <1>4 DEF PayloadMatches
  <2>2. \A i \in DOMAIN payload.text : payload.text[i] # "nul"
    BY <2>1
  <2>3. payload.text # <<>>
    BY <2>1
  <2> QED
    BY <1>2, <1>3, <2>2, <2>3
<1>5. CASE d = "integer"
  <2>1. Len(payload.parts) = 1
    BY <1>5 DEF PayloadMatches
  <2>2. payload.parts # <<>>
    BY <1>9, <2>1
  <2>3. payload.parts[1].kind = "plain"
    BY <1>5 DEF PayloadMatches, IsIntegerLiteral
  <2>4. \A i \in DOMAIN payload.parts : ~EndsAtNul(payload.parts[i])
    BY <2>1, <2>3 DEF EndsAtNul
  <2> QED
    BY <1>2, <1>3, <2>2, <2>4
<1>6. CASE d = "color"
  <2>1. ColorPayloadValid(v, payload, p.format.names)
    BY <1>6 DEF PayloadMatches
  <2>2. Len(payload.parts) % 256 = 2 \/ Len(payload.parts) % 256 = 3
    BY <2>1 DEF ColorPayloadValid
  <2>3. payload.parts # <<>>
    <3>1. 0 % 256 = 0 /\ 0 # 2 /\ 0 # 3
      OBVIOUS
    <3> QED
      BY <1>9, <2>2, <3>1, Zenon
  <2>4. v = 5 => \A i \in DOMAIN payload.parts : ~EndsAtNul(payload.parts[i])
    BY <2>1 DEF ColorPayloadValid, EndsAtNul
  <2> QED
    BY <1>2, <1>3, <1>6, <2>3, <2>4
<1>7. CASE d = "enum"
  <2>1. EnumPayloadMatchesFormat(v, payload.text, p.format.text)
    BY <1>7 DEF PayloadMatches
  <2>2. ValueOfEnum(v, p.format.text, payload.text)
    BY <2>1, FormatIs, EnumerationIsAdvertised DEF EnumPayloadMatchesFormat
  <2>3. \A i \in DOMAIN payload.text : payload.text[i] # "nul"
    BY <2>2, FormatIs, EnumHasNoNul
  <2>4. ~ValueOfEnum(v, p.format.text, <<>>)
    BY <2>1, FormatIs, EnumerationIsAdvertised DEF EnumPayloadMatchesFormat
  <2> QED
    BY <1>2, <1>3, <2>2, <2>3, <2>4
<1>8. CASE d = "duration"
  <2>1. IsDurationPayload(payload.text)
    BY <1>8 DEF PayloadMatches
  <2>2. \A i \in DOMAIN payload.text : payload.text[i] # "nul"
    BY <2>1, DurationIsAdvertised
  <2>3. payload.text # <<>>
    BY <2>1 DEF IsDurationPayload
  <2> QED
    BY <1>2, <1>3, <2>2, <2>3
<1> QED
  BY <1>1, <1>4, <1>5, <1>6, <1>7, <1>8

\* For every datatype other than string, the payloads that the attributes promise are
\* the ones that the code accepts.
LEMMA MatchesConforms ==
  ASSUME NEW v \in {3, 4, 5}, NEW p \in Properties, NEW payload,
         payload.parts \in Seq(Number), payload.text \in Seq(Char),
         payload.text # <<>> => payload.parts = <<>>,
         NEW encoded, AdvertisedDatatype(v, p) # "string",
         Countable(Advertised(v, p), payload)
  PROVE  LET a == Advertised(v, p)
             matches == PayloadMatches(v, p, payload, encoded)
         IN  /\ Conforms(v, a, payload, Strict) => matches
             /\ matches => Conforms(v, a, payload, Tolerated)
<1> DEFINE a == Advertised(v, p)
           d == AdvertisedDatatype(v, p)
           matches == PayloadMatches(v, p, payload, encoded)
           f == p.format
           marked == v = 5 /\ HasBom(payload)
<1>1. /\ a.datatype = d
      /\ d \in {"boolean", "integer", "enum", "color", "duration"}
      /\ d = "integer" => a.format.parts = IF IsNumericFormat(v, f.parts)
                                           THEN f.parts ELSE <<>>
      /\ d = "enum" => IsEnumFormat(v, f.text) /\ a.format.text = f.text
      /\ d = "color" => IsColorFormat(v, f.names) /\ a.format.names = f.names
  BY AdvertisedIs
<1>2. /\ d = "integer" /\ Len(a.format.parts) = 3 /\ Len(payload.parts) = 1
           => Fits(payload.parts[1].n - Base(a.format.parts))
      /\ d = "color" => Len(payload.parts) < 256
  BY <1>1 DEF Countable
<1>3. f.parts \in Seq(Number) /\ f.names \in Seq(STRING) /\ f.text \in Seq(Char)
  BY FormatIs
<1>4. payload = Empty => payload.parts = <<>> /\ payload.text = <<>>
  BY DEF Empty
<1>5. <<>> # <<"true">> /\ <<>> # <<"false">> /\ Len(<<>>) # 1
  OBVIOUS
<1> HIDE DEF a, f
<1>6. CASE d = "boolean"
  <2>1. matches <=> /\ ~marked /\ payload # Empty
                    /\ payload.text \in {<<"true">>, <<"false">>}
    BY <1>6 DEF PayloadMatches
  <2>2. \A kinds : Conforms(v, a, payload, kinds)
                     <=> ~marked /\ payload.text \in {<<"true">>, <<"false">>}
    BY <1>1, <1>6 DEF Conforms
  <2> QED
    BY <1>4, <1>5, <2>1, <2>2 DEF a
<1>7. CASE d = "integer"
  <2> DEFINE n == payload.parts[1]
  <2>1. matches <=> /\ ~marked /\ payload # Empty
                    /\ Len(payload.parts) = 1 /\ payload.type = NoName
                    /\ n.kind = "plain" /\ Fits(n.n)
                    /\ NumericPayloadMatchesFormat(v, n, f.parts)
    BY <1>7 DEF PayloadMatches, IsIntegerLiteral, f
  <2>2. ASSUME NEW kinds
        PROVE  Conforms(v, a, payload, kinds)
                 <=> /\ ~marked /\ payload.type = NoName
                     /\ Len(payload.parts) = 1 /\ n.kind = "plain"
                     /\ n.n \in MinInt..MaxInt /\ ValueOfRange(a.format.parts, n.n)
    BY <1>1, <1>7 DEF Conforms
  <2>3. ASSUME Len(payload.parts) = 1, n.kind = "plain", Fits(n.n)
        PROVE  NumericPayloadMatchesFormat(v, n, f.parts)
                 <=> ValueOfRange(a.format.parts, n.n)
    <3>1. n \in Number
      BY <2>3
    <3>2. CASE IsNumericFormat(v, f.parts)
      <4>1. a.format.parts = f.parts
        BY <1>1, <1>7, <3>2
      <4>2. Len(f.parts) = 3 => Fits(n.n - Base(f.parts))
        BY <1>2, <1>7, <2>3, <4>1
      <4> HIDE DEF n
      <4>3. NumericPayloadMatchesFormat(v, n, f.parts) <=> ValueOfRange(f.parts, n.n)
        BY <1>3, <2>3, <3>1, <3>2, <4>2, IntegerIsAdvertised
      <4> QED
        BY <4>1, <4>3
    <3>3. CASE ~IsNumericFormat(v, f.parts)
      BY <1>1, <1>7, <3>3 DEF NumericPayloadMatchesFormat, ValueOfRange
    <3> QED
      BY <3>2, <3>3
  <2>4. Len(payload.parts) = 1 => n.n \in Int /\ (n.n \in MinInt..MaxInt <=> Fits(n.n))
    <3> SUFFICES ASSUME Len(payload.parts) = 1
                 PROVE  n.n \in Int /\ (n.n \in MinInt..MaxInt <=> Fits(n.n))
      OBVIOUS
    <3>1. n \in Number
      OBVIOUS
    <3>2. n.n \in Int
      BY <3>1 DEF Number
    <3>3. MinInt \in Int /\ MaxInt \in Int
      BY LongLong DEF MinInt
    <3> HIDE DEF n
    <3> QED
      BY <3>2, <3>3 DEF Fits
  <2>5. Len(payload.parts) = 1 => payload # Empty
    BY <1>4, <1>5
  <2> HIDE DEF n
  <2> QED
    BY <2>1, <2>2, <2>3, <2>4, <2>5 DEF a
<1>8. CASE d = "enum"
  <2>1. matches <=> /\ ~marked /\ payload # Empty
                    /\ EnumPayloadMatchesFormat(v, payload.text, f.text)
    BY <1>8 DEF PayloadMatches, f
  <2>2. \A kinds : Conforms(v, a, payload, kinds)
                     <=> ~marked /\ ValueOfEnum(v, f.text, payload.text)
    BY <1>1, <1>8 DEF Conforms
  <2>3. EnumPayloadMatchesFormat(v, payload.text, f.text)
          <=> ValueOfEnum(v, f.text, payload.text)
    BY <1>1, <1>3, <1>8, EnumerationIsAdvertised
  <2>4. ~ValueOfEnum(v, f.text, <<>>)
    BY <1>1, <1>3, <1>8, EnumerationIsAdvertised
  <2> QED
    BY <1>4, <2>1, <2>2, <2>3, <2>4 DEF a
<1>9. CASE d = "color"
  <2>1. matches <=> /\ ~marked /\ payload # Empty
                    /\ ColorPayloadValid(v, payload, f.names)
    BY <1>9 DEF PayloadMatches, f
  <2>2. \A kinds : Conforms(v, a, payload, kinds)
                     <=> ~marked /\ ValueOfColor(v, f.names, payload, kinds)
    BY <1>1, <1>9 DEF Conforms
  <2>3. /\ ValueOfColor(v, f.names, payload, Strict)
             => ColorPayloadValid(v, payload, f.names)
        /\ ColorPayloadValid(v, payload, f.names)
             => ValueOfColor(v, f.names, payload, Tolerated)
        /\ ValueOfColor(v, f.names, payload, Tolerated) => payload.parts # <<>>
    BY <1>1, <1>2, <1>3, <1>9, ColorIsAdvertised
  <2> QED
    BY <1>4, <2>1, <2>2, <2>3 DEF a
<1>10. CASE d = "duration"
  <2>1. matches <=> ~marked /\ payload # Empty /\ IsDurationPayload(payload.text)
    BY <1>10 DEF PayloadMatches
  <2>2. \A kinds : Conforms(v, a, payload, kinds)
                     <=> ~marked /\ ValueOfDuration(payload.text)
    BY <1>1, <1>10 DEF Conforms
  <2>3. IsDurationPayload(payload.text) <=> ValueOfDuration(payload.text)
    BY DurationIsAdvertised
  <2>4. ~ValueOfDuration(<<>>)
    BY DEF ValueOfDuration
  <2> QED
    BY <1>4, <2>1, <2>2, <2>3, <2>4 DEF a
<1> QED
  BY <1>1, <1>6, <1>7, <1>8, <1>9, <1>10

-----------------------------------------------------------------------------
(* The specification.                                                      *)

\* What a state is made of: the attributes are those of the property, and the
\* exchange is one that the code has handled.
ContractInv ==
  /\ version \in Versions /\ property \in Properties
  /\ attributes \in {None, Advertised(version, property)}
  /\ exchange # None =>
       /\ attributes = Advertised(version, property)
       /\ \E payload \in Payloads[property.datatype] :
            \/ exchange = [way |-> "send", value |-> payload,
                           bytes |-> Published(version, payload),
                           accepted |-> PayloadMatches(version, property, payload, FALSE)]
            \/ exchange = [way |-> "command", value |-> CString(payload),
                           bytes |-> payload,
                           accepted |-> /\ Arrives(payload)
                                        /\ PayloadMatches(version, property,
                                                          payload, TRUE)]

\* It holds of every state of a run.
LEMMA ContractInvariant == Spec => []ContractInv
<1>1. Init => ContractInv
  BY DEF Init, ContractInv
<1>2. ContractInv /\ [Next]_vars => ContractInv'
  <2> SUFFICES ASSUME ContractInv, [Next]_vars PROVE ContractInv'
    OBVIOUS
  <2>1. CASE Advertise
    BY <2>1 DEF Advertise, ContractInv
  <2>2. CASE Done
    BY <2>2 DEF Done, ContractInv
  <2>3. ASSUME attributes # None, NEW payload \in Payloads[property.datatype],
               Send(payload)
        PROVE  ContractInv'
    BY <2>3 DEF Send, ContractInv
  <2>4. ASSUME attributes # None, NEW payload \in Payloads[property.datatype],
               Command(payload)
        PROVE  ContractInv'
    BY <2>4 DEF Command, ContractInv
  <2>5. CASE UNCHANGED vars
    BY <2>5 DEF vars, ContractInv
  <2> QED
    BY <2>1, <2>2, <2>3, <2>4, <2>5 DEF Next
<1> QED
  BY <1>1, <1>2, PTL DEF Spec

\* What is published of a value that the datatype accepts, or that has no NUL, is the
\* value itself, or NUL for the empty string of Homie 5.
LEMMA PublishedIs ==
  ASSUME NEW v, NEW value, value.text \in Seq(Char), value.parts \in Seq(Number)
  PROVE  /\ v = 5 /\ value = Empty => Published(v, value) = Nul
         /\ ~(v = 5 /\ value = Empty) /\ ~HasNul(value) => Published(v, value) = value
  BY CStringIs DEF Published

\* NUL is not empty, has a NUL in it, and is no value of a datatype but string.
LEMMA NulIs ==
  /\ Nul # Empty /\ HasNul(Nul) /\ ~HasNul(Empty) /\ ~HasBom(Nul)
  /\ Nul.parts = <<>> /\ Nul.text = <<"nul">> /\ Nul.text \in Seq(Char)
<1>1. Nul.text = <<"nul">> /\ Nul.parts = <<>> /\ Empty.text = <<>> /\ Empty.parts = <<>>
  BY DEF Nul, Empty
<1>2. <<"nul">> # <<>> /\ 1 \in DOMAIN <<"nul">> /\ <<"nul">>[1] = "nul"
      /\ "nul" # "bom"
  OBVIOUS
<1>3. "nul" \in Char
  BY DEF Char
<1>4. <<"nul">> \in Seq(Char)
  BY <1>3
<1> QED
  BY <1>1, <1>2, <1>4 DEF HasNul, HasBom

\* A controller that reads $datatype and $format may rely on them, for payloads of
\* the datatypes that are modelled and that can be counted: what conforms to them is
\* accepted, but for an empty command and for a number of more than twenty
\* characters; what is accepted conforms, but for how the components of a colour are
\* written and for a value of Homie 3 or 4 with a NUL in it.
THEOREM AttributesAreEnforced == Spec => []AdvertisedIsEnforced
<1>1. ContractInv => AdvertisedIsEnforced
  <2> SUFFICES ASSUME ContractInv, exchange # None,
                      Countable(attributes, exchange.bytes)
               PROVE  /\ Promised => exchange.accepted
                      /\ exchange.accepted /\ (version = 5 \/ ~HasNul(exchange.value))
                           => Conforms(version, attributes, exchange.bytes, Tolerated)
    BY DEF AdvertisedIsEnforced
  <2> DEFINE v == version
             p == property
             a == Advertised(v, p)
  <2>1. v \in {3, 4, 5} /\ p \in Properties /\ attributes = a
    BY ContractAssumption DEF ContractInv
  <2>2. a.datatype = AdvertisedDatatype(v, p)
    BY AdvertisedIs
  <2>3. \A bytes, kinds : a.datatype = "string" =>
          (Conforms(v, a, bytes, kinds)
             <=> (v = 5 => /\ ~HasBom(bytes) /\ bytes # Empty
                           /\ HasNul(bytes) => bytes = Nul))
    BY DEF Conforms
  <2>4. PICK payload \in Payloads[p.datatype] :
          \/ exchange = [way |-> "send", value |-> payload,
                         bytes |-> Published(v, payload),
                         accepted |-> PayloadMatches(v, p, payload, FALSE)]
          \/ exchange = [way |-> "command", value |-> CString(payload),
                         bytes |-> payload,
                         accepted |-> /\ Arrives(payload)
                                      /\ PayloadMatches(v, p, payload, TRUE)]
    BY DEF ContractInv
  <2>5. /\ payload.parts \in Seq(Number) /\ payload.text \in Seq(Char)
        /\ payload.text # <<>> => payload.parts = <<>>
    BY <2>1, PayloadIs
  <2> HIDE DEF a, v, p
  <2>6. CASE exchange = [way |-> "command", value |-> CString(payload),
                         bytes |-> payload,
                         accepted |-> /\ Arrives(payload)
                                      /\ PayloadMatches(v, p, payload, TRUE)]
    <3>1. exchange.bytes = payload
          /\ exchange.accepted = (Arrives(payload) /\ PayloadMatches(v, p, payload, TRUE))
          /\ (Promised
                => Arrives(payload) /\ Conforms(version, attributes, payload, Strict))
      BY <2>6 DEF Promised
    <3>2. CASE a.datatype = "string"
      <4>1. PayloadMatches(v, p, payload, TRUE)
              <=> (v = 5 => /\ ~HasBom(payload) /\ payload # Empty
                            /\ payload = Nul \/ ~HasNul(payload))
        BY <2>2, <3>2 DEF PayloadMatches
      <4> QED
        BY <2>1, <2>3, <3>1, <3>2, <4>1 DEF v
    <3>3. CASE a.datatype # "string"
      <4>1. /\ Conforms(v, a, payload, Strict) => PayloadMatches(v, p, payload, TRUE)
            /\ PayloadMatches(v, p, payload, TRUE)
                 => Conforms(v, a, payload, Tolerated)
        BY <2>1, <2>2, <2>5, <3>1, <3>3, MatchesConforms DEF a
      <4> QED
        BY <2>1, <3>1, <4>1 DEF v
    <3> QED
      BY <3>2, <3>3
  <2>7. CASE exchange = [way |-> "send", value |-> payload,
                         bytes |-> Published(v, payload),
                         accepted |-> PayloadMatches(v, p, payload, FALSE)]
    <3> DEFINE bytes == Published(v, payload)
    <3>1. exchange.bytes = bytes /\ exchange.value = payload
          /\ exchange.accepted = PayloadMatches(v, p, payload, FALSE)
          /\ (Promised
                => ~HasNul(payload) /\ Conforms(version, attributes, bytes, Strict))
      BY <2>7 DEF Promised
    <3>2. /\ v = 5 /\ payload = Empty => bytes = Nul
          /\ ~(v = 5 /\ payload = Empty) /\ ~HasNul(payload) => bytes = payload
      BY <2>5, PublishedIs
    <3> HIDE DEF bytes
    <3>3. CASE a.datatype = "string"
      <4>1. PayloadMatches(v, p, payload, FALSE)
              <=> (v = 5 => ~HasBom(payload) /\ ~HasNul(payload))
        BY <2>2, <3>3 DEF PayloadMatches
      <4>2. v = 5 /\ ~HasNul(payload) => /\ bytes # Empty
                                         /\ HasNul(bytes) => bytes = Nul
                                         /\ HasBom(bytes) <=> HasBom(payload)
        <5>1. ~HasBom(Empty)
          BY DEF HasBom, Empty
        <5> QED
          BY <3>2, <5>1, NulIs
      <4> QED
        BY <2>1, <2>3, <3>1, <3>3, <4>1, <4>2 DEF v
    <3>4. CASE a.datatype # "string"
      <4>1. ASSUME PayloadMatches(v, p, payload, FALSE), v = 5 \/ ~HasNul(payload)
            PROVE  Conforms(v, a, bytes, Tolerated)
        <5>1. ~HasNul(payload) /\ payload # Empty
          BY <2>1, <2>2, <2>5, <3>4, <4>1, AcceptedHasNoNul
        <5>2. bytes = payload
          BY <3>2, <5>1
        <5>3. Countable(a, payload)
          BY <2>1, <3>1, <5>2
        <5> QED
          BY <2>1, <2>2, <2>5, <3>4, <4>1, <5>2, <5>3, MatchesConforms DEF a
      <4>2. ASSUME Conforms(v, a, bytes, Strict), ~HasNul(payload)
            PROVE  PayloadMatches(v, p, payload, FALSE)
        <5>1. CASE bytes = payload
          <6>1. Countable(a, payload)
            BY <2>1, <3>1, <5>1
          <6> QED
            BY <2>1, <2>2, <2>5, <3>4, <4>2, <5>1, <6>1, MatchesConforms DEF a
        <5>2. CASE bytes # payload
          <6>1. bytes = Nul /\ v = 5
            BY <3>2, <4>2, <5>2
          <6>2. Countable(a, Nul)
            BY <2>1, <3>1, <6>1
          <6>3. Nul.parts \in Seq(Number) /\ Nul.text \in Seq(Char)
            BY NulIs
          <6>4. PayloadMatches(v, p, Nul, FALSE)
            BY <2>1, <2>2, <3>4, <4>2, <6>1, <6>2, <6>3, NulIs, MatchesConforms DEF a
          <6>5. ~HasNul(Nul)
            BY <2>1, <2>2, <3>4, <6>1, <6>3, <6>4, NulIs, AcceptedHasNoNul
          <6> QED
            BY <6>5, NulIs
        <5> QED
          BY <5>1, <5>2
      <4> QED
        BY <2>1, <3>1, <4>1, <4>2 DEF v
    <3> QED
      BY <3>3, <3>4
  <2> QED
    BY <2>4, <2>6, <2>7 DEF v, p
<1> QED
  BY <1>1, ContractInvariant, PTL

\* Nothing that Homie 5 accepts changes its meaning on the way, and nothing accepted
\* is an empty payload, which would clear a retained topic.
THEOREM MeaningIsKept == Spec => []MeaningSurvives
<1>1. ContractInv => MeaningSurvives
  <2> SUFFICES ASSUME ContractInv, exchange # None, version = 5, exchange.accepted
               PROVE  /\ exchange.bytes # Empty
                      /\ Meaning(version, exchange.bytes) = exchange.value
    BY DEF MeaningSurvives
  <2> DEFINE v == version
             p == property
  <2>1. v \in {3, 4, 5} /\ p \in Properties /\ v = 5
    BY ContractAssumption DEF ContractInv
  <2>2. PICK payload \in Payloads[p.datatype] :
          \/ exchange = [way |-> "send", value |-> payload,
                         bytes |-> Published(v, payload),
                         accepted |-> PayloadMatches(v, p, payload, FALSE)]
          \/ exchange = [way |-> "command", value |-> CString(payload),
                         bytes |-> payload,
                         accepted |-> /\ Arrives(payload)
                                      /\ PayloadMatches(v, p, payload, TRUE)]
    BY DEF ContractInv
  <2>3. /\ payload.parts \in Seq(Number) /\ payload.text \in Seq(Char)
        /\ payload.text # <<>> => payload.parts = <<>>
    BY <2>1, PayloadIs
  <2>4. \A bytes : Meaning(v, bytes) = IF bytes = Nul THEN Empty ELSE bytes
    BY <2>1 DEF Meaning
  <2> HIDE DEF v, p
  <2>5. ASSUME NEW encoded \in BOOLEAN, PayloadMatches(v, p, payload, encoded)
        PROVE  /\ (encoded /\ payload = Nul) \/ ~HasNul(payload)
               /\ encoded => payload # Empty
    <3>1. CASE AdvertisedDatatype(v, p) = "string"
      BY <2>1, <2>5, <3>1 DEF PayloadMatches
    <3>2. CASE AdvertisedDatatype(v, p) # "string"
      BY <2>1, <2>3, <2>5, <3>2, AcceptedHasNoNul
    <3> QED
      BY <3>1, <3>2
  <2>6. CASE exchange = [way |-> "send", value |-> payload,
                         bytes |-> Published(v, payload),
                         accepted |-> PayloadMatches(v, p, payload, FALSE)]
    <3> DEFINE bytes == Published(v, payload)
    <3>1. exchange.bytes = bytes /\ exchange.value = payload
          /\ PayloadMatches(v, p, payload, FALSE)
      BY <2>6
    <3>2. /\ payload = Empty => bytes = Nul
          /\ payload # Empty /\ ~HasNul(payload) => bytes = payload
      BY <2>1, <2>3, PublishedIs
    <3> HIDE DEF bytes
    <3>3. ~HasNul(payload)
      BY <2>5, <3>1
    <3> QED
      BY <2>4, <3>1, <3>2, <3>3, NulIs DEF v
  <2>7. CASE exchange = [way |-> "command", value |-> CString(payload),
                         bytes |-> payload,
                         accepted |-> /\ Arrives(payload)
                                      /\ PayloadMatches(v, p, payload, TRUE)]
    <3>1. exchange.bytes = payload /\ exchange.value = CString(payload)
          /\ PayloadMatches(v, p, payload, TRUE)
      BY <2>7
    <3>2. (payload = Nul \/ ~HasNul(payload)) /\ payload # Empty
      BY <2>5, <3>1
    <3>3. ~HasNul(payload) => CString(payload) = payload
      BY <2>3, CStringIs
    <3>4. CString(Nul) = Empty
      BY CStringIs
    <3> QED
      BY <2>4, <3>1, <3>2, <3>3, <3>4, NulIs DEF v
  <2> QED
    BY <2>2, <2>6, <2>7 DEF v, p
<1> QED
  BY <1>1, ContractInvariant, PTL
=============================================================================
