-------------------------- MODULE HeaderParserProofs --------------------------
(***************************************************************************)
(* requestParametersParse stays inside its two arrays, for every length of *)
(* the arrays and whatever the reads leave; what it does to a request,     *)
(* symbol by symbol and with static variables that outlive the call, is    *)
(* what the lines of the call's text say; and that is what the parser of   *)
(* Connection does, which knows headers only as wholes.                    *)
(*                                                                         *)
(* The argument for the lines: when the parser is at a symbol, the buffer  *)
(* holds the line that it is in as far as the line has come, and the flags *)
(* are what the complete lines before the symbol say (ParsedTo).  The name *)
(* in the buffer is the beginning of the line only because lenName is the  *)
(* place after the first colon or that of a full buffer (NameFound).       *)
(*                                                                         *)
(* The argument for the units, for every text that consists of them: where *)
(* a unit begins, the line so far is what Connection's carry stands for,   *)
(* no line before was empty, and both parsers have said the same to the    *)
(* flags (Walk).  A unit more preserves this, so both stop at one newline. *)
(***************************************************************************)
EXTENDS HeaderUnits, WellFoundedInduction, FiniteSetTheorems, SequenceTheorems, TLAPS

-----------------------------------------------------------------------------
(* The arrays.                                                             *)

\* The array has what the last read left, then a NUL, then what is older.
Holds(t) ==
    /\ \A i \in 0 .. Len(t) - 1 : message[i] = t[i + 1] /\ message[i] # "NUL"
    /\ message[Len(t)] = "NUL"

Text ==
    /\ call.text \in Seq(STRING)
    /\ Len(call.text) <= LENGTH_STRING
    /\ DOMAIN message = 0 .. LENGTH_STRING

Parsed ==
    pc = "parse" =>
        /\ buff \in Nat /\ count \in Nat
        /\ buff + count = Len(call.text)
        /\ Holds(call.text)

IndInv == WithinBuffer /\ Text /\ Parsed

-----------------------------------------------------------------------------

\* strlen of the array is the length of the read.
LEMMA StrLenIs ==
    ASSUME NEW m, NEW n \in Nat, DOMAIN m = 0 .. LENGTH_STRING, n <= LENGTH_STRING,
           \A i \in 0 .. n - 1 : m[i] # "NUL", m[n] = "NUL"
    PROVE  StrLen(m) = n
  <1> DEFINE S == {i \in DOMAIN m : m[i] = "NUL"}
  <1>1. n \in S /\ \A i \in S : n <= i /\ i \in Nat
    BY ConstantsAssumption
  <1> HIDE DEF S
  <1>2. \A k \in S : (\A i \in S : k <= i) => k = n
    BY <1>1
  <1>3. Min(S) = n
    BY <1>1, <1>2 DEF Min
  <1> QED
    BY <1>3 DEF StrLen, S

\* A read leaves its text and a NUL in the array.
LEMMA ReadStep ==
    ASSUME IndInv, NEW t \in Texts, Read(t)
    PROVE  IndInv'
  <1>1. /\ t \in Seq(STRING) /\ Len(t) <= LENGTH_STRING /\ Len(t) \in Nat /\ LENGTH_STRING \in Nat
        /\ \A i \in 1 .. Len(t) : t[i] # "NUL"
    BY ConstantsAssumption
  <1>2. /\ message' = Filled(t) /\ buff' = 0 /\ count' = StrLen(message')
        /\ call'.text = t /\ UNCHANGED static
    BY DEF Read
  <1>3. /\ DOMAIN message' = 0 .. LENGTH_STRING
        /\ \A i \in 0 .. Len(t) - 1 : message'[i] = t[i + 1]
        /\ message'[Len(t)] = "NUL"
    BY <1>1, <1>2 DEF Filled
  <1>4. \A i \in 0 .. Len(t) - 1 : message'[i] # "NUL"
    BY <1>1, <1>3
  <1>5. count' = Len(t)
    BY <1>1, <1>2, <1>3, <1>4, StrLenIs
  <1>6. WithinBuffer'
    BY <1>2 DEF static, IndInv, WithinBuffer
  <1>7. Text'
    BY <1>1, <1>2, <1>3 DEF Text
  <1>8. Parsed'
    BY <1>1, <1>2, <1>3, <1>4, <1>5 DEF Parsed, Holds
  <1> QED
    BY <1>6, <1>7, <1>8 DEF IndInv

\* The symbol at buff is one of the read, and so is the LF after a CR.
LEMMA AtSymbol ==
    ASSUME IndInv, Parsing
    PROVE  /\ buff \in Nat /\ count \in Nat /\ count >= 1
           /\ AtNewLine => count >= 2
  <1>1. /\ buff \in Nat /\ count \in Nat /\ count >= 1 /\ buff + count = Len(call.text)
        /\ message[Len(call.text)] = "NUL"
    BY DEF IndInv, Parsed, Parsing, Holds
  <1>2. ASSUME count = 1 PROVE ~AtNewLine
    <2>1. buff + 1 = Len(call.text)
      BY <1>1, <1>2
    <2> QED
      BY <1>1, <2>1 DEF AtNewLine
  <1> QED
    BY <1>1, <1>2

\* A step of the parser stays inside both arrays.
LEMMA ParseStep ==
    ASSUME IndInv, Next, ~\E t \in Texts : Read(t)
    PROVE  IndInv'
  <1>1. /\ ParseBuff_ptr \in Place /\ lenName \in 0 .. ParseBuff_ptr
        /\ DOMAIN oneParameterBuffer = Place /\ MAX_LENGTH_STRING \in Nat \ {0}
    BY ConstantsAssumption DEF IndInv, WithinBuffer
  <1>2. ASSUME NEW n \in {1, 2}, Advance(n), Parsing, n = 2 => AtNewLine, message' = message, call' = call
        PROVE  Text' /\ Parsed'
    <2>1. buff \in Nat /\ count \in Nat /\ count >= n /\ buff' = buff + n /\ count' = count - n
      BY <1>2, AtSymbol DEF Advance
    <2>2. buff' \in Nat /\ count' \in Nat /\ buff' + count' = buff + count
      BY <1>2, <2>1
    <2> QED
      BY <1>2, <2>2 DEF IndInv, Text, Parsed, Holds, Parsing
  <1>3. CASE BlankLine
    BY <1>3 DEF BlankLine, static, IndInv, WithinBuffer, Text, Parsed, Holds
  <1>4. CASE HeaderEnds
    <2>1. WithinBuffer'
      BY <1>1, <1>4 DEF HeaderEnds, Reset, WithinBuffer, Place
    <2>2. Text' /\ Parsed'
      BY <1>2, <1>4 DEF HeaderEnds
    <2> QED
      BY <2>1, <2>2 DEF IndInv
  <1>5. CASE Drop
    <2>1. WithinBuffer'
      BY <1>5 DEF Drop, static, IndInv, WithinBuffer
    <2>2. Text' /\ Parsed'
      BY <1>2, <1>5 DEF Drop
    <2> QED
      BY <2>1, <2>2 DEF IndInv
  <1>6. CASE Store
    <2>1. After(ParseBuff_ptr) \in Place /\ ParseBuff_ptr <= After(ParseBuff_ptr)
      BY <1>1 DEF After, Place
    <2>2. WithinBuffer'
      BY <1>1, <1>6, <2>1 DEF Store, WithinBuffer, Place
    <2>3. Text' /\ Parsed'
      BY <1>2, <1>6 DEF Store
    <2> QED
      BY <2>2, <2>3 DEF IndInv
  <1>7. CASE EndOfText
    BY <1>7 DEF EndOfText, static, IndInv, WithinBuffer, Text, Parsed, Holds
  <1> QED
    BY <1>3, <1>4, <1>5, <1>6, <1>7 DEF Next

\* The arrays, in every state.
LEMMA Inductive == Spec => []IndInv
  <1>1. Init => IndInv
    <2> SUFFICES ASSUME Init PROVE IndInv
      OBVIOUS
    <2>1. WithinBuffer
      BY ConstantsAssumption DEF Init, WithinBuffer, Place
    <2>2. Text
      BY ConstantsAssumption DEF Init, Text
    <2>3. Parsed
      BY DEF Init, Parsed
    <2> QED
      BY <2>1, <2>2, <2>3 DEF IndInv
  <1>2. IndInv /\ UNCHANGED vars => IndInv'
    BY DEF vars, static, object, IndInv, WithinBuffer, Text, Parsed, Holds
  <1>3. IndInv /\ Next => IndInv'
    BY ReadStep, ParseStep
  <1> QED
    BY <1>1, <1>2, <1>3, PTL DEF Spec

\* However long the headers and the reads, the parser writes inside its static buffer.
THEOREM StaysWithinBuffer == Spec => []WithinBuffer
  <1>1. IndInv => WithinBuffer
    BY DEF IndInv
  <1> QED
    BY <1>1, Inductive, PTL

\* The parser never reads a byte that an earlier read left in the array.
THEOREM ReadsOnlyThisRead == Spec => []OnlyThisRead
  <1>1. IndInv => OnlyThisRead
    <2> SUFFICES ASSUME IndInv, pc = "parse"
                 PROVE  /\ buff + count = Len(call.text)
                        /\ \A i \in 0 .. count - 1 : message[buff + i] = call.text[buff + i + 1]
      BY DEF OnlyThisRead
    <2>1. buff \in Nat /\ count \in Nat /\ buff + count = Len(call.text) /\ Holds(call.text)
      BY DEF IndInv, Parsed
    <2>2. ASSUME NEW i \in 0 .. count - 1 PROVE message[buff + i] = call.text[buff + i + 1]
      <3>1. buff + i \in 0 .. Len(call.text) - 1
        BY <2>1
      <3> QED
        BY <2>1, <3>1 DEF Holds
    <2> QED
      BY <2>1, <2>2
  <1> QED
    BY <1>1, Inductive, PTL

-----------------------------------------------------------------------------
(* Minima and maxima.                                                      *)

\* What the static buffer may hold.
Symbols == STRING \cup {"NUL"}

Less == {ss \in Nat \X Nat : ss[1] < ss[2]}

\* There is no infinite descent in the naturals: every induction below is over a least
\* counterexample.
LEMMA LessIsWellFounded == IsWellFoundedOn(Less, Nat)
  BY NatLessThanWellFounded DEF OpToRel, Less

\* Min of a set of naturals is its least element.
LEMMA LeastElement ==
    ASSUME NEW S, S \subseteq Nat, S # {}
    PROVE  Min(S) \in S /\ \A k \in S : Min(S) <= k
  <1>1. \E m \in S : \A k \in S : ~ (<<k, m>> \in Less)
    BY LessIsWellFounded, WFMin
  <1>2. \A m \in S, k \in S : ~ (<<k, m>> \in Less) => m <= k
    BY DEF Less
  <1>3. \E m \in S : \A k \in S : m <= k
    BY <1>1, <1>2
  <1> QED
    BY <1>3 DEF Min

\* An element below all others is Min.
LEMMA MinIs ==
    ASSUME NEW S, S \subseteq Nat, NEW m \in S, \A k \in S : m <= k
    PROVE  Min(S) = m
  <1>1. Min(S) \in S /\ \A k \in S : Min(S) <= k
    BY LeastElement
  <1>2. Min(S) <= m /\ m <= Min(S) /\ Min(S) \in Nat /\ m \in Nat
    BY <1>1
  <1> HIDE DEF Min
  <1> QED
    BY <1>2

\* An element above all others is Max.
LEMMA MaxIs ==
    ASSUME NEW S, S \subseteq Nat, NEW m \in S, \A k \in S : k <= m
    PROVE  Max(S) = m
  <1>1. \A x \in S : (\A k \in S : k <= x) => x = m
    OBVIOUS
  <1>2. \A x \in S : (\A k \in S : x >= k) <=> (\A k \in S : k <= x)
    OBVIOUS
  <1>3. Max(S) \in S /\ \A k \in S : Max(S) >= k
    BY <1>2 DEF Max
  <1> QED
    BY <1>1, <1>2, <1>3

\* Max of a bounded set of naturals is its greatest element.
LEMMA GreatestElement ==
    ASSUME NEW n \in Nat, NEW S, S \subseteq 0 .. n, S # {}
    PROVE  Max(S) \in S /\ \A k \in S : k <= Max(S)
  <1> DEFINE D == {n - k : k \in S}
  <1>1. D \subseteq Nat /\ D # {}
    <2>1. \A k \in S : n - k \in Nat
      OBVIOUS
    <2> QED
      BY <2>1
  <1>2. PICK d \in D : \A e \in D : d <= e
    BY <1>1, LeastElement
  <1>3. PICK m \in S : d = n - m
    OBVIOUS
  <1>4. \A k \in S : m >= k
    <2> TAKE k \in S
    <2>1. n - m <= n - k
      BY <1>2, <1>3
    <2> QED
      BY <2>1
  <1>5. Max(S) \in S /\ \A k \in S : Max(S) >= k
    BY <1>4 DEF Max
  <1> QED
    BY <1>5

-----------------------------------------------------------------------------
(* Values: the elements that the parser finds one after the other are the  *)
(* words between the semicolons.                                           *)

Semicolons(v) == {i \in DOMAIN v : v[i] = "SC"}
Start(v, s) == Min({i \in s .. Len(v) + 1 : i \notin Semicolons(v)})
Ends(v, s) == {i \in Semicolons(v) : i > Start(v, s)}

\* What Elements has from place s, when g has it for the places after s.
From(v, g, s) ==
    IF Ends(v, s) = {} THEN <<SubSeq(v, Start(v, s), Len(v))>>
    ELSE <<SubSeq(v, Start(v, s), Min(Ends(v, s)) - 1)>> \o g[Min(Ends(v, s)) + 1]

\* Where the element after place s starts and ends.
LEMMA ElementEnds ==
    ASSUME NEW v \in Seq(Symbols), NEW s \in 1 .. Len(v) + 1
    PROVE  /\ Start(v, s) \in s .. Len(v) + 1
           /\ Start(v, s) <= Len(v) => v[Start(v, s)] # "SC"
           /\ \A i \in s .. Len(v) : i < Start(v, s) => v[i] = "SC"
           /\ Ends(v, s) # {} =>
                  /\ Min(Ends(v, s)) \in Start(v, s) + 1 .. Len(v)
                  /\ v[Min(Ends(v, s))] = "SC"
                  /\ \A i \in Start(v, s) .. Len(v) : i < Min(Ends(v, s)) => v[i] # "SC"
           /\ Ends(v, s) = {} => \A i \in Start(v, s) .. Len(v) : v[i] # "SC"
  <1> DEFINE L == Len(v)
             S == {i \in s .. L + 1 : i \notin Semicolons(v)}
  <1>0. L \in Nat /\ s \in Nat /\ s <= L + 1 /\ s >= 1
    OBVIOUS
  <1>1. Semicolons(v) = {i \in 1 .. L : v[i] = "SC"}
    <2>1. DOMAIN v = 1 .. L
      OBVIOUS
    <2> HIDE DEF L
    <2> QED
      BY <2>1 DEF Semicolons
  <1>2. L + 1 \notin Semicolons(v)
    <2> HIDE DEF L
    <2> QED
      BY <1>0, <1>1
  <1> HIDE DEF L
  <1>3. S \subseteq Nat /\ S # {}
    BY <1>0, <1>2
  <1>4. Start(v, s) \in S /\ \A i \in S : Start(v, s) <= i
    <2>1. Start(v, s) = Min(S)
      BY DEF Start, L
    <2> HIDE DEF S
    <2> QED
      BY <1>3, <2>1, LeastElement
  <1>5. /\ Start(v, s) \in s .. L + 1
        /\ Start(v, s) <= L => v[Start(v, s)] # "SC"
        /\ \A i \in s .. L : i < Start(v, s) => v[i] = "SC"
    BY <1>0, <1>1, <1>4
  <1>6. Ends(v, s) = {i \in 1 .. L : v[i] = "SC" /\ i > Start(v, s)}
    BY <1>1 DEF Ends
  <1>7. ASSUME Ends(v, s) # {}
        PROVE  Min(Ends(v, s)) \in Ends(v, s) /\ \A i \in Ends(v, s) : Min(Ends(v, s)) <= i
    <2>1. Ends(v, s) \subseteq Nat
      BY <1>0, <1>6
    <2> QED
      BY <1>7, <2>1, LeastElement
  <1>8. Ends(v, s) # {} =>
            /\ Min(Ends(v, s)) \in Start(v, s) + 1 .. L
            /\ v[Min(Ends(v, s))] = "SC"
            /\ \A i \in Start(v, s) .. L : i < Min(Ends(v, s)) => v[i] # "SC"
    <2> SUFFICES ASSUME Ends(v, s) # {}
                 PROVE  /\ Min(Ends(v, s)) \in Start(v, s) + 1 .. L
                        /\ v[Min(Ends(v, s))] = "SC"
                        /\ \A i \in Start(v, s) .. L : i < Min(Ends(v, s)) => v[i] # "SC"
      OBVIOUS
    <2> DEFINE e == Min(Ends(v, s))
    <2>1. e \in 1 .. L /\ v[e] = "SC" /\ e > Start(v, s) /\ \A i \in Ends(v, s) : e <= i
      BY <1>6, <1>7
    <2> HIDE DEF e
    <2>2. e \in Start(v, s) + 1 .. L
      BY <1>0, <1>5, <2>1
    <2>3. v[Start(v, s)] # "SC"
      BY <1>0, <1>5, <2>2
    <2>4. ASSUME NEW i \in Start(v, s) .. L, i < e PROVE v[i] # "SC"
      BY <1>0, <1>5, <1>6, <2>1, <2>3, <2>4
    <2> QED
      BY <2>1, <2>2, <2>4 DEF e
  <1>9. Ends(v, s) = {} => \A i \in Start(v, s) .. L : v[i] # "SC"
    BY <1>0, <1>5, <1>6
  <1> QED
    BY <1>5, <1>8, <1>9 DEF L

\* Elements is the function it is defined by: what it has at a place depends on later places only.
LEMMA ElementsDefined ==
    ASSUME NEW v \in Seq(Symbols)
    PROVE  \E g : g = [s \in 1 .. Len(v) + 1 |-> From(v, g, s)] /\ Elements(v) = g[1]
  <1> DEFINE L == Len(v)
             Has(n) == \E g : g = [s \in L + 2 - n .. L + 1 |-> From(v, g, s)]
             T == {n \in 0 .. L + 1 : ~ Has(n)}
  <1>0. L \in Nat
    OBVIOUS
  <1>1. Has(0)
    <2> DEFINE g == [s \in L + 2 .. L + 1 |-> 0]
    <2>1. L + 2 - 0 .. L + 1 = {} /\ L + 2 .. L + 1 = {}
      BY <1>0
    <2>2. g = [s \in L + 2 - 0 .. L + 1 |-> From(v, g, s)]
      BY <2>1
    <2> QED
      BY <2>2
  <1>2. ASSUME NEW n \in 1 .. L + 1, Has(n - 1)
        PROVE  Has(n)
    <2>1. PICK g : g = [s \in L + 2 - (n - 1) .. L + 1 |-> From(v, g, s)]
      BY <1>2
    <2> DEFINE h == [s \in L + 2 - n .. L + 1 |-> IF s = L + 2 - n THEN From(v, g, s) ELSE g[s]]
    <2>2. ASSUME NEW s \in L + 2 - n .. L + 1
          PROVE  h[s] = From(v, h, s)
      <3>1. s \in 1 .. Len(v) + 1
        BY <1>0
      <3>2. h[s] = From(v, g, s)
        <4>1. CASE s = L + 2 - n
          BY <4>1
        <4>2. CASE s # L + 2 - n
          <5>1. s \in L + 2 - (n - 1) .. L + 1
            BY <1>0, <4>2
          <5>2. g[s] = From(v, g, s)
            BY <2>1, <5>1
          <5> QED
            BY <4>2, <5>2
        <4> QED
          BY <4>1, <4>2
      <3>3. ASSUME Ends(v, s) # {}
            PROVE  h[Min(Ends(v, s)) + 1] = g[Min(Ends(v, s)) + 1]
        <4> DEFINE e == Min(Ends(v, s)) + 1
        <4>1. e \in s + 2 .. L + 1
          <5>1. Start(v, s) \in s .. L + 1 /\ Min(Ends(v, s)) \in Start(v, s) + 1 .. L
            BY <3>1, <3>3, ElementEnds
          <5> HIDE DEF L
          <5> QED
            BY <1>0, <3>1, <5>1
        <4> HIDE DEF e
        <4>2. e \in L + 2 - n .. L + 1 /\ e # L + 2 - n
          BY <1>0, <4>1
        <4>3. h[e] = g[e]
          BY <4>2
        <4> QED
          BY <4>3 DEF e
      <3>4. From(v, g, s) = From(v, h, s)
        <4> HIDE DEF h
        <4> QED
          BY <3>3 DEF From
      <3> QED
        BY <3>2, <3>4
    <2> HIDE DEF h
    <2>3. h = [s \in L + 2 - n .. L + 1 |-> h[s]]
      BY DEF h
    <2>4. h = [s \in L + 2 - n .. L + 1 |-> From(v, h, s)]
      BY <2>2, <2>3
    <2> QED
      BY <2>4
  <1>3. T = {}
    <2> HIDE DEF Has
    <2> SUFFICES ASSUME T # {} PROVE FALSE
      OBVIOUS
    <2>1. PICK n \in T : \A k \in T : n <= k
      <3>1. T \subseteq Nat
        BY <1>0
      <3> HIDE DEF T
      <3> QED
        BY <3>1, LeastElement
    <2>2. n \in 1 .. L + 1 /\ n - 1 \notin T
      BY <1>0, <1>1, <2>1
    <2>3. Has(n - 1)
      BY <1>0, <2>2
    <2> QED
      BY <1>2, <2>1, <2>2, <2>3
  <1>4. Has(L + 1)
    <2> HIDE DEF Has
    <2>1. L + 1 \in 0 .. L + 1
      BY <1>0
    <2> QED
      BY <1>3, <2>1
  <1>5. L + 2 - (L + 1) = 1
    BY <1>0
  <1>6. \E g : g = [s \in 1 .. L + 1 |-> From(v, g, s)]
    BY <1>4, <1>5
  <1> DEFINE g1 == CHOOSE g : g = [s \in 1 .. Len(v) + 1 |-> From(v, g, s)]
  <1>7. g1 = [s \in 1 .. Len(v) + 1 |-> From(v, g1, s)]
    BY <1>6
  <1>8. Elements(v) = g1[1]
    BY DEF Elements, From, Ends, Start, Semicolons
  <1> QED
    BY <1>7, <1>8

StartsFrom(v, s) == {a \in WordStarts(v) : a >= s}

\* What Words and LastWord make of the words that start at s or later.
WordsFrom(v, s) ==
    {Word(v, a) : a \in StartsFrom(v, s)} \cup (IF Last(v) = "SC" THEN {<<>>} ELSE {})
LastFrom(v, s) ==
    LET known == {a \in StartsFrom(v, s) : Wish(Word(v, a)) # "none"}
    IN IF Last(v) = "SC" THEN "keep" ELSE IF known = {} THEN "none" ELSE Wish(Word(v, Max(known)))

\* The element that decides, as ParseConnection has it.
Decides(e) ==
    LET wishes == {i \in DOMAIN e : Wish(e[i]) # "none"}
    IN IF wishes = {} THEN "none" ELSE Wish(e[Max(wishes)])

\* Where an element begins, the words that are left are its own and those after it.
LEMMA FirstWord ==
    ASSUME NEW v \in Seq(Symbols), v # <<>>, NEW s \in 1 .. Len(v) + 1, s = 1 \/ v[s - 1] = "SC"
    PROVE  LET a == Start(v, s)
               e == Min(Ends(v, s))
           IN /\ Ends(v, s) = {} /\ a = Len(v) + 1 =>
                     StartsFrom(v, s) = {} /\ Last(v) = "SC"
              /\ Ends(v, s) = {} /\ a # Len(v) + 1 =>
                     /\ StartsFrom(v, s) = {a} /\ Last(v) # "SC"
                     /\ Word(v, a) = SubSeq(v, a, Len(v))
              /\ Ends(v, s) # {} =>
                     /\ StartsFrom(v, s) = {a} \cup StartsFrom(v, e + 1)
                     /\ Word(v, a) = SubSeq(v, a, e - 1)
                     /\ e + 1 \in s + 1 .. Len(v) + 1 /\ v[e] = "SC" /\ a < e
  <1> DEFINE L == Len(v)
             a == Start(v, s)
             e == Min(Ends(v, s))
  <1>0. L \in Nat /\ L >= 1 /\ s \in Nat /\ s >= 1 /\ s <= L + 1
    BY EmptySeq
  <1>1. /\ a \in s .. L + 1
        /\ a <= L => v[a] # "SC"
        /\ \A i \in s .. L : i < a => v[i] = "SC"
        /\ Ends(v, s) # {} =>
               /\ e \in a + 1 .. L /\ v[e] = "SC"
               /\ \A i \in a .. L : i < e => v[i] # "SC"
        /\ Ends(v, s) = {} => \A i \in a .. L : v[i] # "SC"
    BY ElementEnds
  <1>2. StartsFrom(v, s) = {b \in s .. L : v[b] # "SC" /\ (b = 1 \/ v[b - 1] = "SC")}
    <2>1. DOMAIN v = 1 .. L
      OBVIOUS
    <2> HIDE DEF L
    <2> QED
      BY <1>0, <2>1 DEF StartsFrom, WordStarts
  <1>3. \A t \in 1 .. L + 1 :
            StartsFrom(v, t) = {b \in t .. L : v[b] # "SC" /\ (b = 1 \/ v[b - 1] = "SC")}
    <2>1. DOMAIN v = 1 .. L
      OBVIOUS
    <2> HIDE DEF L
    <2> QED
      BY <1>0, <2>1 DEF StartsFrom, WordStarts
  <1>4. Last(v) = v[L]
    BY DEF Last
  <1>5. Word(v, a) = SubSeq(v, a, Min({L} \cup {k - 1 : k \in {i \in a .. L : v[i] = "SC"}}))
    BY DEF Word
  <1> HIDE DEF L, a, e
  <1>6. a <= L => a \in StartsFrom(v, s)
    <2> SUFFICES ASSUME a <= L PROVE a \in s .. L /\ v[a] # "SC" /\ (a = 1 \/ v[a - 1] = "SC")
      BY <1>2
    <2>1. CASE a = s
      BY <1>0, <1>1, <2>1
    <2>2. CASE a # s
      <3>1. a - 1 \in s .. L /\ a - 1 < a
        BY <1>0, <1>1, <2>2
      <3> QED
        BY <1>0, <1>1, <3>1
    <2> QED
      BY <2>1, <2>2
  <1>7. ASSUME NEW b \in StartsFrom(v, s), b # a
        PROVE  b > a /\ b \in s .. L /\ Ends(v, s) # {} /\ b > e
    <2>1. b \in s .. L /\ v[b] # "SC" /\ (b = 1 \/ v[b - 1] = "SC")
      BY <1>2
    <2>2. b > a
      BY <1>0, <1>1, <1>7, <2>1
    <2>3. v[b - 1] = "SC" /\ b - 1 \in a .. L
      BY <1>0, <1>1, <2>1, <2>2
    <2>4. Ends(v, s) # {}
      BY <1>1, <2>3
    <2>5. ~ (b - 1 < e)
      BY <1>1, <2>3, <2>4
    <2>6. e \in Nat /\ b \in Nat /\ v[e] = "SC"
      BY <1>0, <1>1, <2>1, <2>4
    <2> QED
      BY <2>1, <2>2, <2>4, <2>5, <2>6
  <1>8. ASSUME Ends(v, s) = {}, a = L + 1 PROVE StartsFrom(v, s) = {} /\ Last(v) = "SC"
    <2>1. StartsFrom(v, s) = {}
      <3>1. ASSUME NEW b \in StartsFrom(v, s) PROVE FALSE
        <4>1. b \in s .. L
          BY <1>2
        <4>2. b # a
          BY <1>0, <1>8, <4>1
        <4> QED
          BY <1>7, <1>8, <4>2
      <3> QED
        BY <3>1
    <2>2. CASE s <= L
      <3>1. L \in s .. L /\ L < a
        BY <1>0, <1>8, <2>2
      <3> QED
        BY <1>1, <1>4, <2>1, <3>1
    <2>3. CASE ~ (s <= L)
      <3>1. s - 1 = L /\ s # 1
        BY <1>0, <2>3
      <3> QED
        BY <1>4, <2>1, <3>1
    <2> QED
      BY <2>2, <2>3
  <1>9. ASSUME Ends(v, s) = {}, a # L + 1
        PROVE  StartsFrom(v, s) = {a} /\ Last(v) # "SC" /\ Word(v, a) = SubSeq(v, a, L)
    <2>1. a \in Nat /\ a <= L /\ L \in a .. L
      BY <1>0, <1>1, <1>9
    <2>2. StartsFrom(v, s) = {a}
      BY <1>6, <1>7, <1>9, <2>1
    <2>3. Last(v) # "SC"
      BY <1>1, <1>4, <1>9, <2>1
    <2>4. {i \in a .. L : v[i] = "SC"} = {}
      BY <1>1, <1>9
    <2>5. {L} \cup {k - 1 : k \in {}} = {L}
      OBVIOUS
    <2>6. Min({L}) = L
      <3> DEFINE S == {L}
      <3>1. S \subseteq Nat /\ L \in S /\ \A k \in S : L <= k
        BY <1>0
      <3> HIDE DEF S
      <3>2. Min(S) = L
        BY <3>1, MinIs
      <3> QED
        BY <3>2 DEF S
    <2> QED
      BY <1>5, <2>2, <2>3, <2>4, <2>5, <2>6
  <1>10. ASSUME Ends(v, s) # {}
         PROVE  /\ StartsFrom(v, s) = {a} \cup StartsFrom(v, e + 1)
                /\ Word(v, a) = SubSeq(v, a, e - 1)
                /\ e + 1 \in s + 1 .. L + 1 /\ v[e] = "SC" /\ a < e
    <2>1. /\ a \in Nat /\ e \in Nat /\ a <= L /\ a < e /\ e <= L /\ v[e] = "SC"
          /\ e + 1 \in s + 1 .. L + 1 /\ e + 1 \in 1 .. L + 1
      BY <1>0, <1>1, <1>10
    <2>2. StartsFrom(v, e + 1) \subseteq StartsFrom(v, s)
      BY <1>0, <1>2, <1>3, <2>1
    <2>3. ASSUME NEW b \in StartsFrom(v, s), b # a PROVE b \in StartsFrom(v, e + 1)
      <3>1. b \in e + 1 .. L
        BY <1>0, <1>7, <2>1, <2>3
      <3> QED
        BY <1>2, <1>3, <2>1, <3>1
    <2>4. StartsFrom(v, s) = {a} \cup StartsFrom(v, e + 1)
      BY <1>6, <2>1, <2>2, <2>3
    <2> DEFINE S == {L} \cup {k - 1 : k \in {i \in a .. L : v[i] = "SC"}}
    <2>5. e - 1 \in S
      BY <1>0, <2>1
    <2>6. S \subseteq Nat
      <3>1. \A k \in a .. L : k - 1 \in Int /\ (k >= 1 => k - 1 \in Nat)
        BY <2>1
      <3>2. \A k \in a .. L : k >= 1
        BY <1>0, <1>1, <2>1
      <3> QED
        BY <1>0, <3>1, <3>2
    <2>7. \A k \in S : e - 1 <= k
      <3>1. e - 1 <= L
        BY <1>0, <2>1
      <3>2. \A k \in a .. L : v[k] = "SC" => e - 1 <= k - 1
        BY <1>0, <1>1, <1>10, <2>1
      <3> QED
        BY <3>1, <3>2
    <2>8. Min(S) = e - 1
      <3> HIDE DEF S
      <3> QED
        BY <2>5, <2>6, <2>7, MinIs
    <2> QED
      BY <1>5, <2>1, <2>4, <2>8
  <1> QED
    BY <1>8, <1>9, <1>10 DEF L, a, e

\* One element decides for itself.
LEMMA DecidesOne ==
    ASSUME NEW w
    PROVE  Decides(<<w>>) = Wish(w)
  <1> DEFINE W == {i \in DOMAIN <<w>> : Wish(<<w>>[i]) # "none"}
  <1>1. DOMAIN <<w>> = {1} /\ <<w>>[1] = w
    OBVIOUS
  <1>2. W = IF Wish(w) # "none" THEN {1} ELSE {}
    BY <1>1
  <1>3. Max({1}) = 1
    BY MaxIs
  <1> HIDE DEF W
  <1>4. Decides(<<w>>) = IF W = {} THEN "none" ELSE Wish(<<w>>[Max(W)])
    BY DEF Decides, W
  <1> QED
    BY <1>1, <1>2, <1>3, <1>4

\* The last known element decides: one before it only if none of the others is known.
LEMMA DecidesMore ==
    ASSUME NEW S, NEW w \in S, NEW r \in Seq(S)
    PROVE  Decides(<<w>> \o r) = IF Decides(r) = "none" THEN Wish(w) ELSE Decides(r)
  <1> DEFINE q == <<w>> \o r
             R == {i \in DOMAIN r : Wish(r[i]) # "none"}
             Q == {i \in DOMAIN q : Wish(q[i]) # "none"}
             n == Len(r)
  <1>1. /\ n \in Nat /\ DOMAIN r = 1 .. n
        /\ <<w>> \in Seq(S) /\ Len(<<w>>) = 1
    OBVIOUS
  <1>2. /\ q \in Seq(S) /\ Len(q) = 1 + n
        /\ \A i \in 1 .. 1 + n : q[i] = IF i <= 1 THEN <<w>>[i] ELSE r[i - 1]
    BY <1>1, ConcatProperties
  <1>3. DOMAIN q = 1 .. 1 + n
    BY <1>2
  <1>4. q[1] = w /\ \A i \in 1 .. n : q[i + 1] = r[i]
    BY <1>1, <1>2
  <1>5. Decides(q) = IF Q = {} THEN "none" ELSE Wish(q[Max(Q)])
    BY DEF Decides
  <1>6. Decides(r) = IF R = {} THEN "none" ELSE Wish(r[Max(R)])
    BY DEF Decides
  <1>7. R = {i \in 1 .. n : Wish(r[i]) # "none"} /\ Q = {i \in 1 .. 1 + n : Wish(q[i]) # "none"}
    BY <1>1, <1>3
  <1> HIDE DEF q, R, Q, n
  <1>8. CASE R = {}
    <2>1. \A i \in Q : i = 1
      <3> SUFFICES ASSUME NEW i \in 2 .. 1 + n, Wish(q[i]) # "none" PROVE FALSE
        BY <1>1, <1>7
      <3>1. i - 1 \in 1 .. n /\ (i - 1) + 1 = i
        BY <1>1
      <3>2. q[i] = r[i - 1]
        BY <1>4, <3>1
      <3> QED
        BY <1>7, <1>8, <3>1, <3>2
    <2>2. 1 \in Q <=> Wish(w) # "none"
      BY <1>1, <1>4, <1>7
    <2>3. Max({1}) = 1
      BY MaxIs
    <2>4. Q = IF Wish(w) # "none" THEN {1} ELSE {}
      BY <2>1, <2>2
    <2>5. Decides(r) = "none"
      BY <1>6, <1>8
    <2> QED
      BY <1>4, <1>5, <2>3, <2>4, <2>5 DEF q
  <1>9. CASE R # {}
    <2> DEFINE m == Max(R)
    <2>1. m \in R /\ \A k \in R : k <= m
      <3>1. R \subseteq 0 .. n
        BY <1>1, <1>7
      <3> QED
        BY <1>1, <1>9, <3>1, GreatestElement
    <2> HIDE DEF m
    <2>2. m \in 1 .. n /\ Wish(r[m]) # "none" /\ m + 1 \in 1 .. 1 + n
      BY <1>1, <1>7, <2>1
    <2>3. m + 1 \in Q
      BY <1>4, <1>7, <2>2
    <2>4. \A k \in Q : k <= m + 1
      <3> SUFFICES ASSUME NEW k \in 1 .. 1 + n, Wish(q[k]) # "none", k # 1 PROVE k <= m + 1
        BY <1>1, <1>7, <2>2
      <3>1. k - 1 \in 1 .. n /\ (k - 1) + 1 = k
        BY <1>1
      <3>2. q[k] = r[k - 1]
        BY <1>4, <3>1
      <3>3. k - 1 <= m
        BY <1>7, <2>1, <3>1, <3>2
      <3> QED
        BY <2>2, <3>1, <3>3
    <2>5. Max(Q) = m + 1
      <3>1. Q \subseteq Nat
        BY <1>1, <1>7
      <3> QED
        BY <2>3, <2>4, <3>1, MaxIs
    <2>6. Decides(q) = Wish(r[m]) /\ Decides(r) = Wish(r[m])
      BY <1>4, <1>5, <1>6, <1>9, <2>2, <2>3, <2>5 DEF m
    <2> QED
      BY <2>2, <2>6 DEF q
  <1> QED
    BY <1>8, <1>9

\* The elements from place s on are the words from there on, and the last known decides.
Told(v, s, e) ==
    /\ e \in Seq(Seq(Symbols))
    /\ {e[i] : i \in DOMAIN e} = WordsFrom(v, s)
    /\ Decides(e) = LastFrom(v, s)

\* The empty element counts as "keep-alive".
LEMMA EmptyWish == Wish(<<>>) = "keep"
  <1>1. IsPrefix(<<>>, KeepAliveWord)
    BY DEF IsPrefix, KeepAliveWord
  <1> QED
    BY <1>1 DEF Wish

\* Elements has one element first, or no others.
LEMMA ToldStep ==
    ASSUME NEW v \in Seq(Symbols), v # <<>>, NEW s \in 1 .. Len(v) + 1, s = 1 \/ v[s - 1] = "SC",
           NEW g, Ends(v, s) # {} => Told(v, Min(Ends(v, s)) + 1, g[Min(Ends(v, s)) + 1])
    PROVE  Told(v, s, From(v, g, s))
  <1> DEFINE a == Start(v, s)
             e == Min(Ends(v, s))
             L == Len(v)
  <1>0. L \in Nat /\ s \in Nat /\ s >= 1
    OBVIOUS
  <1>1. /\ a \in s .. L + 1
        /\ Ends(v, s) # {} => e \in a + 1 .. L
    BY ElementEnds
  <1>2. /\ Ends(v, s) = {} /\ a = L + 1 =>
               StartsFrom(v, s) = {} /\ Last(v) = "SC"
        /\ Ends(v, s) = {} /\ a # L + 1 =>
               StartsFrom(v, s) = {a} /\ Last(v) # "SC" /\ Word(v, a) = SubSeq(v, a, L)
        /\ Ends(v, s) # {} =>
               StartsFrom(v, s) = {a} \cup StartsFrom(v, e + 1) /\ Word(v, a) = SubSeq(v, a, e - 1)
    BY FirstWord
  <1>3. Ends(v, s) = {} => From(v, g, s) = <<SubSeq(v, a, L)>>
    BY DEF From
  <1>4. Ends(v, s) # {} => From(v, g, s) = <<SubSeq(v, a, e - 1)>> \o g[e + 1]
    BY DEF From
  <1>5. Ends(v, s) # {} => Told(v, e + 1, g[e + 1])
    OBVIOUS
  <1>6. SubSeq(v, a, L) \in Seq(Symbols)
    <2>1. \A i \in a .. L : i \in 1 .. Len(v)
      BY <1>0, <1>1
    <2> QED
      BY <1>0, <1>1, <2>1, SubSeqProperties
  <1>7. Ends(v, s) # {} => SubSeq(v, a, e - 1) \in Seq(Symbols)
    <2> SUFFICES ASSUME Ends(v, s) # {} PROVE SubSeq(v, a, e - 1) \in Seq(Symbols)
      OBVIOUS
    <2> HIDE DEF a, e
    <2>1. a \in Int /\ e - 1 \in Int /\ \A i \in a .. e - 1 : i \in 1 .. Len(v)
      BY <1>0, <1>1
    <2> QED
      BY <2>1, SubSeqProperties
  <1>8. a = L + 1 => SubSeq(v, a, L) = <<>>
    BY <1>0, SubSeqEmpty
  <1> HIDE DEF a, e, L
  <1>9. \A w : {<<w>>[i] : i \in DOMAIN <<w>>} = {w}
    OBVIOUS
  <1>10. CASE Ends(v, s) = {} /\ a = L + 1
    <2>1. From(v, g, s) = << <<>> >>
      BY <1>3, <1>8, <1>10
    <2>2. << <<>> >> \in Seq(Seq(Symbols))
      BY <1>6, <1>8, <1>10
    <2>3. WordsFrom(v, s) = {<<>>} /\ LastFrom(v, s) = "keep"
      BY <1>2, <1>10 DEF WordsFrom, LastFrom
    <2>4. Decides(<< <<>> >>) = "keep"
      BY DecidesOne, EmptyWish
    <2> QED
      BY <1>9, <2>1, <2>2, <2>3, <2>4 DEF Told
  <1>11. CASE Ends(v, s) = {} /\ a # L + 1
    <2> DEFINE w == Word(v, a)
    <2>1. From(v, g, s) = <<w>> /\ w \in Seq(Symbols)
      BY <1>2, <1>3, <1>6, <1>11
    <2>2. WordsFrom(v, s) = {w}
      BY <1>2, <1>11 DEF WordsFrom
    <2>3. LastFrom(v, s) = Wish(w)
      <3> DEFINE known == {b \in StartsFrom(v, s) : Wish(Word(v, b)) # "none"}
      <3>1. LastFrom(v, s) = IF known = {} THEN "none" ELSE Wish(Word(v, Max(known)))
        BY <1>2, <1>11 DEF LastFrom
      <3>2. known = IF Wish(w) # "none" THEN {a} ELSE {}
        BY <1>2, <1>11
      <3>3. Max({a}) = a
        <4>1. {a} \subseteq Nat /\ a \in {a} /\ \A k \in {a} : k <= a
          BY <1>0, <1>1
        <4> QED
          BY <4>1, MaxIs
      <3> HIDE DEF known
      <3> QED
        BY <3>1, <3>2, <3>3
    <2>4. Decides(<<w>>) = Wish(w)
      BY DecidesOne
    <2>5. <<w>> \in Seq(Seq(Symbols))
      BY <2>1
    <2> QED
      BY <1>9, <2>1, <2>2, <2>3, <2>4, <2>5 DEF Told
  <1>12. CASE Ends(v, s) # {}
    <2> DEFINE w == Word(v, a)
               r == g[e + 1]
               q == <<w>> \o r
    <2>1. w \in Seq(Symbols) /\ r \in Seq(Seq(Symbols)) /\ From(v, g, s) = q
      BY <1>2, <1>4, <1>5, <1>7, <1>12 DEF Told
    <2>2. {r[i] : i \in DOMAIN r} = WordsFrom(v, e + 1) /\ Decides(r) = LastFrom(v, e + 1)
      BY <1>5, <1>12 DEF Told
    <2>3. StartsFrom(v, s) = {a} \cup StartsFrom(v, e + 1)
      BY <1>2, <1>12
    <2> HIDE DEF w, r
    <2>4. q \in Seq(Seq(Symbols)) /\ {q[i] : i \in DOMAIN q} = {w} \cup {r[i] : i \in DOMAIN r}
      <3>1. <<w>> \in Seq(Seq(Symbols))
        BY <2>1
      <3>2. q \in Seq(Seq(Symbols)) /\ Range(q) = Range(<<w>>) \cup Range(r)
        BY <2>1, <3>1, ConcatProperties, RangeConcatenation
      <3>3. Range(<<w>>) = {w}
        BY <1>9 DEF Range
      <3> QED
        BY <3>2, <3>3 DEF Range
    <2>5. WordsFrom(v, s) = {w} \cup WordsFrom(v, e + 1)
      BY <2>3 DEF WordsFrom, w
    <2>6. Decides(q) = IF Decides(r) = "none" THEN Wish(w) ELSE Decides(r)
      BY <2>1, DecidesMore
    <2>7. LastFrom(v, s) = IF LastFrom(v, e + 1) = "none" THEN Wish(w) ELSE LastFrom(v, e + 1)
      <3> DEFINE K(t) == {b \in StartsFrom(v, t) : Wish(Word(v, b)) # "none"}
      <3>1. CASE Last(v) = "SC"
        BY <3>1 DEF LastFrom
      <3>2. CASE Last(v) # "SC"
        <4>1. \A t : LastFrom(v, t) = IF K(t) = {} THEN "none" ELSE Wish(Word(v, Max(K(t))))
          BY <3>2 DEF LastFrom
        <4>2. K(s) = K(e + 1) \cup (IF Wish(w) # "none" THEN {a} ELSE {})
          BY <2>3 DEF w
        <4>3. \A b \in K(e + 1) : b \in 0 .. L /\ b > a
          <5>1. \A b \in WordStarts(v) : b \in 0 .. L
            BY DEF WordStarts, L
          <5> QED
            BY <1>0, <1>1, <1>12, <5>1 DEF StartsFrom
        <4>4. \A b \in K(e + 1) : Wish(Word(v, b)) # "none"
          OBVIOUS
        <4> HIDE DEF K
        <4>5. a \in Nat /\ a <= L
          BY <1>0, <1>1, <1>12
        <4>6. CASE K(e + 1) = {}
          <5>1. Max({a}) = a
            <6>1. {a} \subseteq Nat /\ a \in {a} /\ \A k \in {a} : k <= a
              BY <4>5
            <6> QED
              BY <6>1, MaxIs
          <5> QED
            BY <4>1, <4>2, <4>6, <5>1 DEF w
        <4>7. CASE K(e + 1) # {}
          <5> DEFINE m == Max(K(e + 1))
          <5>1. m \in K(e + 1) /\ \A k \in K(e + 1) : k <= m
            <6>1. K(e + 1) \subseteq 0 .. L
              BY <4>3
            <6> QED
              BY <1>0, <4>7, <6>1, GreatestElement
          <5> HIDE DEF m
          <5>2. m \in K(s) /\ \A k \in K(s) : k <= m
            BY <4>2, <4>3, <4>5, <5>1
          <5>3. Max(K(s)) = m
            <6>1. K(s) \subseteq Nat
              BY <4>2, <4>3, <4>5
            <6> QED
              BY <5>2, <6>1, MaxIs
          <5>4. Wish(Word(v, m)) # "none"
            BY <4>4, <5>1
          <5>5. LastFrom(v, s) = Wish(Word(v, m)) /\ LastFrom(v, e + 1) = Wish(Word(v, m))
            BY <4>1, <4>7, <5>2, <5>3 DEF m
          <5> QED
            BY <5>4, <5>5
        <4> QED
          BY <4>6, <4>7
      <3> QED
        BY <3>1, <3>2
    <2> QED
      BY <2>1, <2>2, <2>4, <2>5, <2>6, <2>7 DEF Told
  <1> QED
    BY <1>10, <1>11, <1>12

\* The elements of a value are the words of the value.
LEMMA ElementsAreWords ==
    ASSUME NEW v \in Seq(Symbols), v # <<>>
    PROVE  Told(v, 1, Elements(v))
  <1> DEFINE L == Len(v)
  <1>0. L \in Nat
    OBVIOUS
  <1>1. PICK g : g = [s \in 1 .. L + 1 |-> From(v, g, s)] /\ Elements(v) = g[1]
    BY ElementsDefined
  <1> DEFINE Good(s) == (s = 1 \/ v[s - 1] = "SC") => Told(v, s, g[s])
             T == {n \in 0 .. L : ~ Good(L + 1 - n)}
  <1>2. ASSUME NEW s \in 1 .. L + 1, \A t \in s + 1 .. L + 1 : Good(t)
        PROVE  Good(s)
    <2> SUFFICES ASSUME s = 1 \/ v[s - 1] = "SC" PROVE Told(v, s, g[s])
      OBVIOUS
    <2>1. ASSUME Ends(v, s) # {} PROVE Told(v, Min(Ends(v, s)) + 1, g[Min(Ends(v, s)) + 1])
      <3> DEFINE e == Min(Ends(v, s))
      <3>1. e + 1 \in s + 1 .. L + 1 /\ v[e] = "SC" /\ e \in Int
        <4>1. e + 1 \in s + 1 .. L + 1 /\ v[e] = "SC"
          BY <2>1, FirstWord
        <4>2. e \in Start(v, s) + 1 .. L
          BY <2>1, ElementEnds
        <4> QED
          BY <4>1, <4>2
      <3> HIDE DEF e
      <3>2. (e + 1) - 1 = e
        BY <3>1
      <3>3. Good(e + 1)
        BY <1>2, <3>1
      <3> QED
        BY <3>1, <3>2, <3>3 DEF e
    <2>2. Told(v, s, From(v, g, s))
      BY <2>1, ToldStep
    <2>3. g[s] = From(v, g, s)
      BY <1>1
    <2> QED
      BY <2>2, <2>3
  <1>3. T = {}
    <2> HIDE DEF Good, L
    <2> SUFFICES ASSUME T # {} PROVE FALSE
      OBVIOUS
    <2>1. PICK n \in T : \A k \in T : n <= k
      <3>1. T \subseteq Nat
        BY <1>0
      <3> HIDE DEF T
      <3> QED
        BY <3>1, LeastElement
    <2>2. n \in 0 .. L /\ L + 1 - n \in 1 .. L + 1 /\ ~ Good(L + 1 - n)
      BY <1>0, <2>1
    <2>3. ASSUME NEW t \in L + 1 - n + 1 .. L + 1 PROVE Good(t)
      <3>1. L + 1 - t \in 0 .. L /\ L + 1 - t < n /\ L + 1 - (L + 1 - t) = t
        BY <1>0, <2>2
      <3>2. L + 1 - t \notin T
        <4> HIDE DEF T
        <4>1. ASSUME L + 1 - t \in T PROVE n <= L + 1 - t
          BY <2>1, <4>1
        <4> QED
          BY <1>0, <2>2, <3>1, <4>1
      <3> QED
        BY <3>1, <3>2
    <2>4. Good(L + 1 - n)
      BY <1>2, <2>2, <2>3 DEF L
    <2> QED
      BY <2>2, <2>4
  <1>4. Good(1)
    <2> HIDE DEF Good
    <2>1. L \in 0 .. L /\ L + 1 - L = 1
      BY <1>0
    <2> QED
      BY <1>3, <2>1
  <1> QED
    BY <1>1, <1>4

\* What a value says to the two flags.
LEMMA ValueParsed ==
    ASSUME NEW v \in Seq(Symbols), v # <<>>, NEW old \in BOOLEAN
    PROVE  /\ ParseConnection(v, old) <=> IF LastWord(v) = "none" THEN old ELSE LastWord(v) = "keep"
           /\ ParseTransferEncoding(v, old) <=> old \/ \E w \in Words(v) : IsPrefix(w, ChunkedWord)
  <1>1. Told(v, 1, Elements(v))
    BY ElementsAreWords
  <1>2. StartsFrom(v, 1) = WordStarts(v)
    <2>1. \A a \in WordStarts(v) : a \in 1 .. Len(v)
      BY DEF WordStarts
    <2>2. \A a \in 1 .. Len(v) : a >= 1
      OBVIOUS
    <2> QED
      BY <2>1, <2>2 DEF StartsFrom
  <1>3. WordsFrom(v, 1) = Words(v) /\ LastFrom(v, 1) = LastWord(v)
    BY <1>2 DEF WordsFrom, Words, LastFrom, LastWord
  <1> DEFINE e == Elements(v)
             W == {i \in DOMAIN e : Wish(e[i]) # "none"}
  <1>4. Decides(e) = IF W = {} THEN "none" ELSE Wish(e[Max(W)])
    BY DEF Decides
  <1>5. ParseConnection(v, old) = IF W = {} THEN old ELSE Wish(e[Max(W)]) = "keep"
    BY DEF ParseConnection
  <1>6. W # {} => Wish(e[Max(W)]) # "none"
    <2>1. e \in Seq(Seq(Symbols))
      BY <1>1 DEF Told
    <2>2. DOMAIN e = 1 .. Len(e) /\ Len(e) \in Nat
      BY <2>1
    <2>3. W \subseteq 0 .. Len(e)
      BY <2>2
    <2>4. W # {} => Max(W) \in W
      <3> HIDE DEF W
      <3> QED
        BY <2>2, <2>3, GreatestElement
    <2> QED
      BY <2>4
  <1>7. ParseTransferEncoding(v, old) <=> old \/ \E i \in DOMAIN e : IsPrefix(e[i], ChunkedWord)
    BY DEF ParseTransferEncoding
  <1>8. (\E i \in DOMAIN e : IsPrefix(e[i], ChunkedWord)) <=> \E w \in Words(v) : IsPrefix(w, ChunkedWord)
    <2>1. {e[i] : i \in DOMAIN e} = Words(v)
      BY <1>1, <1>3 DEF Told
    <2> HIDE DEF e, IsPrefix
    <2> QED
      BY <2>1
  <1>9. Decides(e) = LastWord(v)
    BY <1>1, <1>3 DEF Told
  <1> HIDE DEF e, W
  <1> QED
    BY <1>4, <1>5, <1>6, <1>7, <1>8, <1>9

-----------------------------------------------------------------------------
(* Lines: what one symbol more does to the line that the text has at a     *)
(* place.                                                                  *)

KeptPlaces(c, a, b) == {i \in a .. b : c.text[i] \notin {"CR", "SP"}}
UpTo(K, i) == {k \in K : k <= i}

\* No symbols, nothing kept.
LEMMA SqueezedNone ==
    ASSUME NEW c, NEW a \in Int, NEW b \in Int, b < a
    PROVE  Squeezed(c, a, b) = <<>>
  <1>1. KeptPlaces(c, a, b) = {}
    BY DEF KeptPlaces
  <1>2. Squeezed(c, a, b) =
           [n \in 1 .. Cardinality(KeptPlaces(c, a, b)) |->
               c.text[Max({i \in KeptPlaces(c, a, b) : Cardinality(UpTo(KeptPlaces(c, a, b), i)) = n})]]
    BY DEF Squeezed, KeptPlaces, UpTo
  <1>3. Cardinality({}) = 0
    BY FS_EmptySet
  <1>4. 1 .. 0 = {}
    OBVIOUS
  <1> HIDE DEF KeptPlaces, UpTo
  <1>5. Squeezed(c, a, b) = [n \in {} |-> c.text[Max({i \in {} : Cardinality(UpTo({}, i)) = n})]]
    BY <1>1, <1>2, <1>3, <1>4
  <1> QED
    BY <1>5

\* A symbol more is dropped, or comes last.
LEMMA SqueezedMore ==
    ASSUME NEW c, NEW a \in Int, NEW b \in Nat, a <= b, b >= 1, a >= 1,
           Squeezed(c, a, b - 1) \in Seq(Symbols)
    PROVE  Squeezed(c, a, b) = IF c.text[b] \in {"CR", "SP"} THEN Squeezed(c, a, b - 1)
                               ELSE Append(Squeezed(c, a, b - 1), c.text[b])
  <1> DEFINE K == KeptPlaces(c, a, b - 1)
             J == KeptPlaces(c, a, b)
             m == Cardinality(K)
  <1>1. /\ Squeezed(c, a, b) = [n \in 1 .. Cardinality(J) |->
                                  c.text[Max({i \in J : Cardinality(UpTo(J, i)) = n})]]
        /\ Squeezed(c, a, b - 1) = [n \in 1 .. m |->
                                  c.text[Max({i \in K : Cardinality(UpTo(K, i)) = n})]]
    BY DEF Squeezed, KeptPlaces, UpTo
  <1>2. J = IF c.text[b] \in {"CR", "SP"} THEN K ELSE K \cup {b}
    BY DEF KeptPlaces
  <1>3. K \subseteq a .. b - 1
    BY DEF KeptPlaces
  <1>4. b \notin K /\ \A i \in K : i \in Nat /\ i < b
    BY <1>3
  <1>5. IsFiniteSet(K) /\ m \in Nat
    <2>1. IsFiniteSet(a .. b - 1)
      BY FS_Interval
    <2> HIDE DEF K
    <2>2. IsFiniteSet(K)
      BY <1>3, <2>1, FS_Subset
    <2> QED
      BY <2>2, FS_CardinalityType
  <1> HIDE DEF K, J, m
  <1>6. CASE c.text[b] \in {"CR", "SP"}
    BY <1>1, <1>2, <1>6 DEF m
  <1>7. CASE c.text[b] \notin {"CR", "SP"}
    <2>1. J = K \cup {b} /\ Cardinality(J) = m + 1
      BY <1>2, <1>4, <1>5, <1>7, FS_AddElement DEF m
    <2>2. ASSUME NEW i \in K PROVE UpTo(J, i) = UpTo(K, i) /\ Cardinality(UpTo(K, i)) <= m
      <3>1. UpTo(J, i) = UpTo(K, i)
        BY <1>4, <2>1 DEF UpTo
      <3>2. UpTo(K, i) \subseteq K
        BY DEF UpTo
      <3> QED
        BY <1>5, <3>1, <3>2, FS_Subset DEF m
    <2>3. UpTo(J, b) = J
      BY <1>4, <2>1 DEF UpTo
    <2>4. ASSUME NEW n \in 1 .. m
          PROVE  {i \in J : Cardinality(UpTo(J, i)) = n} = {i \in K : Cardinality(UpTo(K, i)) = n}
      <3>1. m + 1 # n
        BY <1>5
      <3> QED
        BY <2>1, <2>2, <2>3, <3>1
    <2>5. {i \in J : Cardinality(UpTo(J, i)) = m + 1} = {b}
      <3>1. \A i \in K : Cardinality(UpTo(K, i)) # m + 1
        BY <1>5, <2>2
      <3> QED
        BY <2>1, <2>2, <2>3, <3>1
    <2>6. Max({b}) = b
      <3> DEFINE S == {b}
      <3>1. S \subseteq Nat /\ b \in S /\ \A k \in S : k <= b
        OBVIOUS
      <3> HIDE DEF S
      <3>2. Max(S) = b
        BY <3>1, MaxIs
      <3> QED
        BY <3>2 DEF S
    <2> DEFINE s == Squeezed(c, a, b - 1)
               t == Squeezed(c, a, b)
    <2>7. t = [n \in 1 .. m + 1 |-> c.text[Max({i \in J : Cardinality(UpTo(J, i)) = n})]]
      BY <1>1, <2>1
    <2>8. s = [n \in 1 .. m |-> c.text[Max({i \in K : Cardinality(UpTo(K, i)) = n})]]
      BY <1>1
    <2>9. \A n \in 1 .. m : n \in 1 .. m + 1 /\ t[n] = s[n]
      <3> TAKE n \in 1 .. m
      <3>1. n \in 1 .. m + 1
        BY <1>5
      <3>2. t[n] = c.text[Max({i \in J : Cardinality(UpTo(J, i)) = n})]
        BY <2>7, <3>1
      <3>3. s[n] = c.text[Max({i \in K : Cardinality(UpTo(K, i)) = n})]
        BY <2>8
      <3> QED
        BY <2>4, <3>1, <3>2, <3>3
    <2>10. t[m + 1] = c.text[b]
      <3>1. m + 1 \in 1 .. m + 1
        BY <1>5
      <3>2. t[m + 1] = c.text[Max({i \in J : Cardinality(UpTo(J, i)) = m + 1})]
        BY <2>7, <3>1
      <3> QED
        BY <2>5, <2>6, <3>2
    <2>11. DOMAIN t = 1 .. m + 1 /\ DOMAIN s = 1 .. m /\ t = [n \in 1 .. m + 1 |-> t[n]]
      BY <2>7, <2>8
    <2>12. s \in Seq(Symbols)
      OBVIOUS
    <2> HIDE DEF s, t
    <2>13. Len(s) = m
      BY <1>5, <2>11, <2>12
    <2>14. Append(s, c.text[b]) = [n \in 1 .. m + 1 |-> IF n = m + 1 THEN c.text[b] ELSE s[n]]
      BY <2>12, <2>13
    <2>15. \A n \in 1 .. m + 1 : t[n] = IF n = m + 1 THEN c.text[b] ELSE s[n]
      BY <1>5, <2>9, <2>10
    <2>16. t = [n \in 1 .. m + 1 |-> IF n = m + 1 THEN c.text[b] ELSE s[n]]
      BY <2>11, <2>15
    <2> QED
      BY <1>7, <2>14, <2>16 DEF s, t
  <1> QED
    BY <1>6, <1>7

-----------------------------------------------------------------------------

\* A line as the buffer holds it.
Cut(s) == SubSeq(s, 1, Min({Len(s), MAX_LENGTH_STRING - 1}))

\* The beginning of a sequence.
LEMMA HeadOf ==
    ASSUME NEW S, NEW s \in Seq(S), NEW m \in Nat, m <= Len(s)
    PROVE  /\ SubSeq(s, 1, m) \in Seq(S) /\ Len(SubSeq(s, 1, m)) = m
           /\ \A i \in 1 .. m : SubSeq(s, 1, m)[i] = s[i]
  <1>1. \A i \in 1 .. m : i \in 1 .. Len(s)
    OBVIOUS
  <1>2. /\ SubSeq(s, 1, m) \in Seq(S) /\ Len(SubSeq(s, 1, m)) = IF 1 <= m THEN m - 1 + 1 ELSE 0
        /\ \A i \in 1 .. m - 1 + 1 : SubSeq(s, 1, m)[i] = s[1 + i - 1]
    BY <1>1, SubSeqProperties
  <1> QED
    BY <1>2

\* A line is cut to the room of the buffer.
LEMMA CutIs ==
    ASSUME NEW s \in Seq(Symbols)
    PROVE  /\ Cut(s) \in Seq(Symbols)
           /\ Len(s) <= MAX_LENGTH_STRING - 1 => Cut(s) = s
           /\ Len(s) >= MAX_LENGTH_STRING - 1 =>
                  Len(Cut(s)) = MAX_LENGTH_STRING - 1 /\ Cut(s) = SubSeq(s, 1, MAX_LENGTH_STRING - 1)
  <1> DEFINE n == Len(s)
             m == MAX_LENGTH_STRING - 1
             S == {n, m}
  <1>1. n \in Nat /\ m \in Nat
    BY ConstantsAssumption
  <1>2. S \subseteq Nat /\ S # {}
    BY <1>1
  <1>3. Cut(s) = SubSeq(s, 1, Min(S))
    BY DEF Cut
  <1>4. n <= m => Min(S) = n
    <2> HIDE DEF n, m
    <2>1. n <= m => n \in S /\ \A k \in S : n <= k
      BY <1>1
    <2> HIDE DEF S
    <2> QED
      BY <1>2, <2>1, MinIs
  <1>5. n >= m => Min(S) = m
    <2> HIDE DEF n, m
    <2>1. n >= m => m \in S /\ \A k \in S : m <= k
      BY <1>1
    <2> HIDE DEF S
    <2> QED
      BY <1>2, <2>1, MinIs
  <1>6. n <= m => Cut(s) = s
    <2> HIDE DEF m, S
    <2> QED
      BY <1>3, <1>4, SubSeqFull
  <1>7. n >= m => Cut(s) = SubSeq(s, 1, m) /\ SubSeq(s, 1, m) \in Seq(Symbols) /\ Len(SubSeq(s, 1, m)) = m
    <2> SUFFICES ASSUME n >= m
                 PROVE  Cut(s) = SubSeq(s, 1, m) /\ SubSeq(s, 1, m) \in Seq(Symbols) /\ Len(SubSeq(s, 1, m)) = m
      OBVIOUS
    <2>1. Cut(s) = SubSeq(s, 1, m)
      BY <1>3, <1>5
    <2>2. \A i \in 1 .. m : i \in 1 .. Len(s)
      BY <1>1
    <2> HIDE DEF m, S
    <2>3. SubSeq(s, 1, m) \in Seq(Symbols) /\ Len(SubSeq(s, 1, m)) = IF 1 <= m THEN m - 1 + 1 ELSE 0
      BY <1>1, <2>2, SubSeqProperties
    <2> QED
      BY <1>1, <2>1, <2>3
  <1>8. Cut(s) \in Seq(Symbols)
    <2> HIDE DEF m
    <2> QED
      BY <1>1, <1>6, <1>7
  <1>9. n <= MAX_LENGTH_STRING - 1 => Cut(s) = s
    BY <1>6
  <1>10. n >= MAX_LENGTH_STRING - 1 =>
             Len(Cut(s)) = MAX_LENGTH_STRING - 1 /\ Cut(s) = SubSeq(s, 1, MAX_LENGTH_STRING - 1)
    BY <1>7
  <1> QED
    BY <1>8, <1>9, <1>10

\* A symbol more, unless the buffer is full.
LEMMA CutMore ==
    ASSUME NEW s \in Seq(Symbols), NEW x \in Symbols
    PROVE  Cut(Append(s, x)) = IF Len(Cut(s)) = MAX_LENGTH_STRING - 1 THEN Cut(s) ELSE Append(Cut(s), x)
  <1> DEFINE m == MAX_LENGTH_STRING - 1
  <1>1. m \in Nat /\ Len(s) \in Nat
    BY ConstantsAssumption
  <1>2. Append(s, x) \in Seq(Symbols) /\ Len(Append(s, x)) = Len(s) + 1
    BY AppendProperties
  <1>3. /\ Len(s) <= m => Cut(s) = s
        /\ Len(s) >= m => Len(Cut(s)) = m /\ Cut(s) = SubSeq(s, 1, m)
    BY CutIs
  <1>4. /\ Len(s) + 1 <= m => Cut(Append(s, x)) = Append(s, x)
        /\ Len(s) + 1 >= m => Cut(Append(s, x)) = SubSeq(Append(s, x), 1, m)
    <2> HIDE DEF m
    <2> QED
      BY <1>2, CutIs DEF m
  <1>5. CASE Len(s) >= m
    <2>1. SubSeq(Append(s, x), 1, m) = SubSeq(s, 1, m)
      <3>1. \A i \in 1 .. m : i \in 1 .. Len(s) /\ i \in 1 .. Len(s) + 1
        BY <1>1, <1>5
      <3>2. \A i \in 1 .. Len(s) : Append(s, x)[i] = s[i]
        OBVIOUS
      <3>3. \A i \in 1 .. m : Append(s, x)[i] = s[i]
        BY <3>1, <3>2
      <3> HIDE DEF m
      <3>4. /\ SubSeq(s, 1, m) \in Seq(Symbols) /\ Len(SubSeq(s, 1, m)) = m
            /\ \A i \in 1 .. m : SubSeq(s, 1, m)[i] = s[i]
        BY <1>1, <3>1, HeadOf
      <3>5. /\ SubSeq(Append(s, x), 1, m) \in Seq(Symbols) /\ Len(SubSeq(Append(s, x), 1, m)) = m
            /\ \A i \in 1 .. m : SubSeq(Append(s, x), 1, m)[i] = Append(s, x)[i]
        <4> DEFINE t == Append(s, x)
        <4>1. t \in Seq(Symbols) /\ m <= Len(t)
          <5>1. m <= Len(s) + 1
            BY <1>1, <1>5
          <5> QED
            BY <1>2, <5>1
        <4> HIDE DEF t
        <4>2. /\ SubSeq(t, 1, m) \in Seq(Symbols) /\ Len(SubSeq(t, 1, m)) = m
              /\ \A i \in 1 .. m : SubSeq(t, 1, m)[i] = t[i]
          BY <1>1, <4>1, HeadOf
        <4> QED
          BY <4>2 DEF t
      <3> QED
        BY <3>3, <3>4, <3>5, SeqEqual
    <2>2. Len(s) + 1 >= m
      BY <1>1, <1>5
    <2>3. Cut(Append(s, x)) = SubSeq(Append(s, x), 1, m)
      BY <1>4, <2>2
    <2>4. Len(Cut(s)) = m /\ Cut(s) = SubSeq(s, 1, m)
      BY <1>3, <1>5
    <2> QED
      BY <2>1, <2>3, <2>4, Zenon
  <1>6. CASE ~ (Len(s) >= m)
    <2>1. Len(s) + 1 <= m /\ Len(s) <= m /\ Len(s) # m
      BY <1>1, <1>6
    <2>2. Cut(s) = s /\ Cut(Append(s, x)) = Append(s, x)
      BY <1>3, <1>4, <2>1
    <2> HIDE DEF m
    <2>3. Len(Cut(s)) # m
      BY <2>1, <2>2
    <2> QED
      BY <2>2, <2>3 DEF m
  <1> QED
    BY <1>5, <1>6

CallOK(c) ==
    /\ c.text \in Seq(Symbols)
    /\ c.carry \in Seq(Symbols)
    /\ Len(c.carry) <= MAX_LENGTH_STRING - 1

\* The line being read at p, as far as it has come, begins before p.
Begun(c, p) ==
    /\ LineStart(c, p) <= p
    /\ Squeezed(c, LineStart(c, p), p - 1) \in Seq(Symbols)

Starts(c, p) == {1} \cup {k + 2 : k \in {n \in NewLines(c) : n < p}}

\* A line starts somewhere in the text.
LEMMA LineStartType ==
    ASSUME NEW c, NEW p \in Nat
    PROVE  LineStart(c, p) \in Nat /\ LineStart(c, p) >= 1
  <1>1. /\ Starts(c, p) \subseteq 0 .. p + 2 /\ Starts(c, p) # {}
        /\ \A k \in Starts(c, p) : k >= 1
    <2>1. \A n \in NewLines(c) : n \in Int /\ n >= 1
      BY DEF NewLines
    <2> QED
      BY <2>1 DEF Starts
  <1>2. LineStart(c, p) = Max(Starts(c, p))
    BY DEF LineStart, Starts
  <1>3. LineStart(c, p) \in Starts(c, p)
    BY <1>1, <1>2, GreatestElement
  <1> QED
    BY <1>1, <1>3

\* The line that has begun is a sequence that fits into the buffer.
LEMMA LineIs ==
    ASSUME NEW c, CallOK(c), NEW p \in Nat, Begun(c, p)
    PROVE  LET line == (IF LineStart(c, p) = 1 THEN c.carry ELSE <<>>) \o Squeezed(c, LineStart(c, p), p - 1)
           IN /\ line \in Seq(Symbols)
              /\ Line(c, p) = Cut(line)
              /\ Line(c, p) \in Seq(Symbols)
              /\ Len(Line(c, p)) <= MAX_LENGTH_STRING - 1
  <1> DEFINE old == IF LineStart(c, p) = 1 THEN c.carry ELSE <<>>
             new == Squeezed(c, LineStart(c, p), p - 1)
             line == old \o new
  <1>1. old \in Seq(Symbols) /\ new \in Seq(Symbols)
    <2>1. <<>> \in Seq(Symbols) /\ c.carry \in Seq(Symbols)
      BY DEF CallOK
    <2>2. old \in Seq(Symbols)
      BY <2>1, Zenon
    <2> QED
      BY <2>2 DEF Begun
  <1>2. Line(c, p) = Cut(line)
    BY DEF Line, Cut
  <1> HIDE DEF old, new
  <1>3. line \in Seq(Symbols)
    BY <1>1, ConcatProperties
  <1> HIDE DEF line
  <1>4. Len(line) \in Nat /\ MAX_LENGTH_STRING - 1 \in Nat
    BY <1>3, ConstantsAssumption
  <1>5. Cut(line) \in Seq(Symbols) /\ Len(Cut(line)) <= MAX_LENGTH_STRING - 1
    BY <1>3, <1>4, CutIs
  <1> QED
    BY <1>2, <1>3, <1>5 DEF line, old, new

\* The first line continues what the last call left.
LEMMA LineFirst ==
    ASSUME NEW c, CallOK(c)
    PROVE  /\ Begun(c, 1)
           /\ Line(c, 1) = c.carry
  <1>1. LineStart(c, 1) = 1
    <2>1. {n \in NewLines(c) : n < 1} = {}
      BY DEF NewLines
    <2>2. Starts(c, 1) = {1}
      BY <2>1 DEF Starts
    <2>3. Max({1}) = 1
      BY MaxIs
    <2> QED
      BY <2>2, <2>3 DEF LineStart, Starts
  <1>2. Squeezed(c, 1, 1 - 1) = <<>>
    BY SqueezedNone
  <1>3. Begun(c, 1)
    <2>1. <<>> \in Seq(Symbols) /\ 1 <= 1
      OBVIOUS
    <2>2. Squeezed(c, LineStart(c, 1), 1 - 1) \in Seq(Symbols)
      BY <1>1, <1>2, <2>1, Zenon
    <2> QED
      BY <1>1, <2>1, <2>2 DEF Begun
  <1>4. c.carry \o <<>> = c.carry
    BY ConcatEmptySeq DEF CallOK
  <1>5. Cut(c.carry) = c.carry
    BY CutIs DEF CallOK
  <1> QED
    BY <1>1, <1>2, <1>3, <1>4, <1>5, LineIs

\* After a newline a line is empty.
LEMMA LineNew ==
    ASSUME NEW c, CallOK(c), NEW p \in NewLines(c)
    PROVE  /\ Begun(c, p + 2)
           /\ Line(c, p + 2) = <<>>
           /\ {j \in NewLines(c) : j < p + 2} = {j \in NewLines(c) : j < p} \cup {p}
  <1>1. p \in Nat /\ p >= 1 /\ c.text[p + 1] = "LF"
    BY DEF NewLines
  <1>2. \A n \in NewLines(c) : n \in Nat /\ n # p + 1
    BY <1>1 DEF NewLines
  <1>3. {j \in NewLines(c) : j < p + 2} = {j \in NewLines(c) : j < p} \cup {p}
    <2>1. \A j \in NewLines(c) : j < p + 2 <=> j < p \/ j = p
      BY <1>1, <1>2
    <2> QED
      BY <2>1
  <1>4. LineStart(c, p + 2) = p + 2
    <2>1. p + 2 \in Starts(c, p + 2) /\ \A k \in Starts(c, p + 2) : k \in Nat /\ k <= p + 2
      <3>1. \A n \in NewLines(c) : n < p + 2 => n + 2 \in Nat /\ n + 2 <= p + 2
        BY <1>1, <1>2
      <3>2. p < p + 2 /\ 1 <= p + 2
        BY <1>1
      <3> QED
        BY <3>1, <3>2 DEF Starts
    <2> DEFINE S == Starts(c, p + 2)
    <2>2. LineStart(c, p + 2) = Max(S)
      BY DEF LineStart, Starts
    <2> HIDE DEF S
    <2>3. Max(S) = p + 2
      BY <2>1, MaxIs DEF S
    <2> QED
      BY <2>2, <2>3
  <1> DEFINE q == p + 2
  <1>5. q \in Nat /\ q # 1 /\ LineStart(c, q) = q
    BY <1>1, <1>4
  <1>6. {j \in NewLines(c) : j < q} = {j \in NewLines(c) : j < p} \cup {p}
    BY <1>3
  <1> HIDE DEF q
  <1>7. Squeezed(c, q, q - 1) = <<>>
    BY <1>5, SqueezedNone
  <1>8. <<>> \in Seq(Symbols) /\ Len(<<>>) <= MAX_LENGTH_STRING - 1 /\ <<>> \o <<>> = <<>>
    BY ConstantsAssumption
  <1>9. Begun(c, q)
    <2>1. Squeezed(c, LineStart(c, q), q - 1) = <<>>
      BY <1>5, <1>7
    <2>2. Squeezed(c, LineStart(c, q), q - 1) \in Seq(Symbols)
      BY <1>8, <2>1, Zenon
    <2>3. LineStart(c, q) <= q
      BY <1>5
    <2> QED
      BY <2>2, <2>3, Zenon DEF Begun
  <1>10. Line(c, q) = Cut((IF LineStart(c, q) = 1 THEN c.carry ELSE <<>>)
                            \o Squeezed(c, LineStart(c, q), q - 1))
    BY <1>5, <1>9, LineIs
  <1>11. Line(c, q) = Cut(<<>>)
    BY <1>5, <1>7, <1>8, <1>10
  <1>12. Cut(<<>>) = <<>>
    BY <1>8, CutIs
  <1> QED
    BY <1>6, <1>9, <1>11, <1>12 DEF q

\* A symbol that begins no newline belongs to the line.
LEMMA LineMore ==
    ASSUME NEW c, CallOK(c), NEW p \in 1 .. Len(c.text), p \notin NewLines(c), Begun(c, p)
    PROVE  /\ Begun(c, p + 1)
           /\ Line(c, p + 1) =
                  IF c.text[p] \in {"CR", "SP"} \/ Len(Line(c, p)) = MAX_LENGTH_STRING - 1 THEN Line(c, p)
                  ELSE Append(Line(c, p), c.text[p])
           /\ {j \in NewLines(c) : j < p + 1} = {j \in NewLines(c) : j < p}
  <1> DEFINE a == LineStart(c, p)
             x == c.text[p]
             s == Squeezed(c, a, p - 1)
             t == Squeezed(c, a, p)
             old == IF a = 1 THEN c.carry ELSE <<>>
  <1>1. p \in Nat /\ p >= 1 /\ x \in Symbols
    BY DEF CallOK
  <1>2. \A j \in NewLines(c) : j \in Int
    BY DEF NewLines
  <1>3. {j \in NewLines(c) : j < p + 1} = {j \in NewLines(c) : j < p}
    <2>1. \A j \in NewLines(c) : j < p + 1 <=> j < p
      BY <1>1, <1>2
    <2> QED
      BY <2>1
  <1>4. LineStart(c, p + 1) = a
    BY <1>3 DEF LineStart
  <1>5. a \in Nat /\ a >= 1 /\ a <= p /\ s \in Seq(Symbols)
    BY <1>1, LineStartType DEF Begun
  <1>6. t = IF x \in {"CR", "SP"} THEN s ELSE Append(s, x)
    BY <1>1, <1>5, SqueezedMore
  <1>7. t \in Seq(Symbols)
    <2>1. Append(s, x) \in Seq(Symbols)
      BY <1>1, <1>5, AppendProperties
    <2> QED
      BY <1>5, <1>6, <2>1
  <1>8. p + 1 - 1 = p /\ a <= p + 1 /\ p + 1 \in Nat
    BY <1>1, <1>5
  <1>9. Begun(c, p + 1)
    BY <1>4, <1>7, <1>8 DEF Begun
  <1>10. Line(c, p) = Cut(old \o s) /\ old \o s \in Seq(Symbols)
    BY <1>1, LineIs
  <1>11. Line(c, p + 1) = Cut(old \o t)
    BY <1>4, <1>8, <1>9, LineIs
  <1>12. CASE x \in {"CR", "SP"}
    BY <1>3, <1>6, <1>9, <1>10, <1>11, <1>12
  <1>13. CASE x \notin {"CR", "SP"}
    <2>1. t = Append(s, x)
      BY <1>6, <1>13
    <2>2. old \in Seq(Symbols)
      <3>1. <<>> \in Seq(Symbols) /\ c.carry \in Seq(Symbols)
        BY DEF CallOK
      <3> QED
        BY <3>1, Zenon
    <2> HIDE DEF s, t, x, old
    <2>3. old \o Append(s, x) = Append(old \o s, x)
      <3>1. <<x>> \in Seq(Symbols)
        BY <1>1
      <3>2. Append(s, x) = s \o <<x>> /\ Append(old \o s, x) = (old \o s) \o <<x>>
        BY <1>1, <1>5, <1>10, AppendIsConcat
      <3>3. (old \o s) \o <<x>> = old \o (s \o <<x>>)
        BY <1>5, <2>2, <3>1, ConcatAssociative
      <3> QED
        BY <3>2, <3>3
    <2>4. Cut(Append(old \o s, x)) =
              IF Len(Cut(old \o s)) = MAX_LENGTH_STRING - 1 THEN Cut(old \o s) ELSE Append(Cut(old \o s), x)
      <3> DEFINE q == old \o s
      <3>1. q \in Seq(Symbols)
        BY <1>10
      <3> HIDE DEF q
      <3>2. Cut(Append(q, x)) =
                IF Len(Cut(q)) = MAX_LENGTH_STRING - 1 THEN Cut(q) ELSE Append(Cut(q), x)
        BY <1>1, <3>1, CutMore
      <3> QED
        BY <3>2 DEF q
    <2>5. Line(c, p + 1) = IF Len(Line(c, p)) = MAX_LENGTH_STRING - 1 THEN Line(c, p) ELSE Append(Line(c, p), x)
      BY <1>10, <1>11, <2>1, <2>3, <2>4
    <2> QED
      BY <1>3, <1>9, <1>13, <2>5 DEF x
  <1> QED
    BY <1>12, <1>13

-----------------------------------------------------------------------------
(* The invariant, and the stored header as the line it is.                 *)

\* The name ends with the first colon, or where the buffer was full.
NameFound ==
    /\ lenName = 0 => \A i \in 0 .. ParseBuff_ptr - 1 : oneParameterBuffer[i] # ":"
    /\ lenName # 0 =>
           /\ oneParameterBuffer[lenName - 1] = ":" \/ lenName = MAX_LENGTH_STRING - 1
           /\ \A i \in 0 .. lenName - 2 : oneParameterBuffer[i] # ":"

\* The headers, and those that say something, that end before p.
HeadersBefore(c, p, name) ==
    {j \in NewLines(c) : j < p /\ Len(Line(c, j)) > 2 /\ IsPrefix(<<name, ":">>, Line(c, j))}
SaidBefore(c, p) == {j \in HeadersBefore(c, p, "Connection") : LastWord(Value(c, j)) # "none"}

KeepsAlive(c, p) ==
    IF SaidBefore(c, p) = {} THEN c.keepAlive ELSE LastWord(Value(c, Max(SaidBefore(c, p)))) = "keep"
Chunks(c, p) ==
    \/ c.chunk
    \/ \E j \in HeadersBefore(c, p, "Transfer-Encoding") :
           \E w \in Words(Value(c, j)) : IsPrefix(w, ChunkedWord)

\* What the call has done when it comes to the symbol at p.
ParsedTo(p) ==
    /\ Begun(call, p)
    /\ Stored(0, ParseBuff_ptr) = Line(call, p)
    /\ \A j \in NewLines(call) : j < p => Line(call, j) # <<>>
    /\ keepAlive <=> KeepsAlive(call, p)
    /\ chunk <=> Chunks(call, p)
    /\ ~ ended

LinesType ==
    /\ oneParameterBuffer \in [Place -> Symbols]
    /\ keepAlive \in BOOLEAN /\ chunk \in BOOLEAN /\ ended \in BOOLEAN
    /\ call.keepAlive \in BOOLEAN /\ call.chunk \in BOOLEAN
    /\ CallOK(call)

LinesInv ==
    /\ IndInv
    /\ LinesType
    /\ NameFound
    /\ pc = "parse" => ParsedTo(buff + 1)
    /\ ParsedAsLines

\* The buffer from a to b.
LEMMA StoredIs ==
    ASSUME WithinBuffer, oneParameterBuffer \in [Place -> Symbols],
           NEW a \in 0 .. ParseBuff_ptr, NEW b \in a .. ParseBuff_ptr
    PROVE  /\ Stored(a, b) \in Seq(Symbols)
           /\ Len(Stored(a, b)) = b - a
           /\ \A i \in 1 .. b - a : Stored(a, b)[i] = oneParameterBuffer[a + i - 1]
  <1>1. /\ ParseBuff_ptr \in Nat /\ ParseBuff_ptr <= MAX_LENGTH_STRING - 1 /\ MAX_LENGTH_STRING \in Nat
        /\ a \in Nat /\ b \in Nat /\ b - a \in Nat /\ b <= ParseBuff_ptr
    BY ConstantsAssumption DEF WithinBuffer, Place
  <1>2. \A i \in 1 .. b - a : oneParameterBuffer[a + i - 1] \in Symbols
    <2> SUFFICES ASSUME NEW i \in 1 .. b - a PROVE a + i - 1 \in Place
      OBVIOUS
    <2> QED
      BY <1>1 DEF Place
  <1>3. Stored(a, b) = [i \in 1 .. b - a |-> oneParameterBuffer[a + i - 1]]
    BY DEF Stored
  <1> DEFINE s == Stored(a, b)
  <1>4. s \in [1 .. b - a -> Symbols] /\ \A i \in 1 .. b - a : s[i] = oneParameterBuffer[a + i - 1]
    BY <1>2, <1>3
  <1> HIDE DEF s
  <1>5. s \in Seq(Symbols) /\ Len(s) = b - a
    BY <1>1, <1>4
  <1> QED
    BY <1>4, <1>5 DEF s

\* HeaderEnds recognises a header by its stored name as the line does by its beginning.
LEMMA HeaderIs ==
    ASSUME WithinBuffer, oneParameterBuffer \in [Place -> Symbols], NameFound,
           NEW h, h # ":"
    PROVE  LET line  == Stored(0, ParseBuff_ptr)
               known == Stored(lenName, ParseBuff_ptr) # <<>> /\ Stored(0, lenName) = <<h, ":">>
           IN /\ known <=> Len(line) > 2 /\ IsPrefix(<<h, ":">>, line)
              /\ known => /\ Stored(lenName, ParseBuff_ptr) = SubSeq(line, 3, Len(line))
                          /\ Stored(lenName, ParseBuff_ptr) \in Seq(Symbols)
  <1> DEFINE line  == Stored(0, ParseBuff_ptr)
             name  == Stored(0, lenName)
             value == Stored(lenName, ParseBuff_ptr)
             n == ParseBuff_ptr
             w == <<h, ":">>
             U == Symbols \cup {":", h}
  <1>0. /\ n \in Nat /\ lenName \in Nat /\ lenName <= n /\ n <= MAX_LENGTH_STRING - 1
        /\ MAX_LENGTH_STRING \in Nat
    BY ConstantsAssumption DEF WithinBuffer, Place
  <1>1. /\ line \in Seq(Symbols) /\ Len(line) = n
        /\ \A i \in 1 .. n : line[i] = oneParameterBuffer[i - 1]
    <2>1. 0 \in 0 .. n /\ n \in 0 .. n /\ n - 0 = n
      BY <1>0
    <2>2. \A i \in 1 .. n : 0 + i - 1 = i - 1
      BY <1>0
    <2>3. /\ line \in Seq(Symbols) /\ Len(line) = n - 0
          /\ \A i \in 1 .. n - 0 : line[i] = oneParameterBuffer[0 + i - 1]
      BY <2>1, StoredIs
    <2> HIDE DEF line, n
    <2> QED
      BY <2>1, <2>2, <2>3
  <1>2. /\ name \in Seq(Symbols) /\ Len(name) = lenName
        /\ \A i \in 1 .. lenName : name[i] = oneParameterBuffer[i - 1]
    <2>1. 0 \in 0 .. n /\ lenName \in 0 .. n /\ lenName - 0 = lenName
      BY <1>0
    <2>2. \A i \in 1 .. lenName : 0 + i - 1 = i - 1
      BY <1>0
    <2> QED
      BY <2>1, <2>2, StoredIs
  <1>3. /\ value \in Seq(Symbols) /\ Len(value) = n - lenName
        /\ \A i \in 1 .. n - lenName : value[i] = oneParameterBuffer[lenName + i - 1]
    <2>1. lenName \in 0 .. n /\ n \in lenName .. n
      BY <1>0
    <2> QED
      BY <2>1, StoredIs
  <1>4. w \in Seq(U) /\ Len(w) = 2 /\ w[1] = h /\ w[2] = ":"
    <2>1. Len(w) = 2 /\ w[1] = h /\ w[2] = ":"
      OBVIOUS
    <2>2. w \in Seq(U)
      OBVIOUS
    <2> QED
      BY <2>1, <2>2
  <1> HIDE DEF line, name, value, w, n
  <1>11. name \in Seq(U) /\ line \in Seq(U)
    BY <1>1, <1>2, SeqMonotonic
  <1>5. name = w <=> lenName = 2 /\ oneParameterBuffer[0] = h /\ oneParameterBuffer[1] = ":"
    <2>1. ASSUME name = w PROVE lenName = 2 /\ oneParameterBuffer[0] = h /\ oneParameterBuffer[1] = ":"
      <3>1. lenName = 2
        BY <1>2, <1>4, <2>1
      <3>2. name[1] = oneParameterBuffer[1 - 1] /\ name[2] = oneParameterBuffer[2 - 1]
        BY <1>2, <3>1
      <3> QED
        BY <1>4, <2>1, <3>1, <3>2
    <2>2. ASSUME lenName = 2, oneParameterBuffer[0] = h, oneParameterBuffer[1] = ":"
          PROVE  name = w
      <3>1. name[1] = oneParameterBuffer[1 - 1] /\ name[2] = oneParameterBuffer[2 - 1]
        BY <1>2, <2>2
      <3>2. name[1] = w[1] /\ name[2] = w[2] /\ Len(name) = Len(w)
        BY <1>2, <1>4, <2>2, <3>1
      <3>3. \A i \in 1 .. Len(name) : name[i] = w[i]
        BY <1>4, <3>2
      <3> QED
        BY <1>4, <1>11, <3>2, <3>3, SeqEqual
    <2> QED
      BY <2>1, <2>2
  <1>6. n > 2 => (IsPrefix(w, line) <=> oneParameterBuffer[0] = h /\ oneParameterBuffer[1] = ":")
    <2> SUFFICES ASSUME n > 2
                 PROVE  IsPrefix(w, line) <=> oneParameterBuffer[0] = h /\ oneParameterBuffer[1] = ":"
      OBVIOUS
    <2>1. line[1] = oneParameterBuffer[0] /\ line[2] = oneParameterBuffer[1]
      <3>1. 1 \in 1 .. n /\ 2 \in 1 .. n /\ 1 - 1 = 0 /\ 2 - 1 = 1
        BY <1>0
      <3> QED
        BY <1>1, <3>1
    <2>2. /\ SubSeq(line, 1, 2) \in Seq(U) /\ Len(SubSeq(line, 1, 2)) = 2
          /\ \A i \in 1 .. 2 : SubSeq(line, 1, 2)[i] = line[i]
      BY <1>0, <1>1, <1>11, HeadOf
    <2>3. SubSeq(w, 1, Len(w)) = w
      BY <1>4, SubSeqFull
    <2>4. IsPrefix(w, line) <=> w = SubSeq(line, 1, 2)
      BY <1>0, <1>1, <1>4, <2>3 DEF IsPrefix
    <2>5. w = SubSeq(line, 1, 2) <=> w[1] = line[1] /\ w[2] = line[2]
      <3>1. (w[1] = line[1] /\ w[2] = line[2]) => \A i \in 1 .. Len(w) : w[i] = SubSeq(line, 1, 2)[i]
        BY <1>4, <2>2
      <3> QED
        BY <1>4, <2>2, <3>1, SeqEqual
    <2> QED
      BY <1>4, <2>1, <2>4, <2>5
  <1>7. value # <<>> <=> n > lenName
    <2>1. value = <<>> <=> Len(value) = 0
      BY <1>3, EmptySeq
    <2> QED
      BY <1>0, <1>3, <2>1
  <1>8. ASSUME n > 2, oneParameterBuffer[0] = h, oneParameterBuffer[1] = ":" PROVE lenName = 2
    <2>1. lenName # 0
      <3>1. 1 \in 0 .. n - 1
        BY <1>0, <1>8
      <3> QED
        BY <1>8, <3>1 DEF NameFound, n
    <2>2. lenName # 1
      <3>1. 1 # MAX_LENGTH_STRING - 1 /\ 1 - 1 = 0
        BY <1>0, <1>8
      <3> QED
        BY <1>8, <3>1 DEF NameFound
    <2>3. ~ (lenName >= 3)
      <3>1. lenName >= 3 => 1 \in 0 .. lenName - 2
        BY <1>0
      <3> QED
        BY <1>8, <2>1, <3>1 DEF NameFound
    <2> QED
      BY <1>0, <2>1, <2>2, <2>3
  <1>9. (value # <<>> /\ name = w) <=> (Len(line) > 2 /\ IsPrefix(w, line))
    BY <1>0, <1>1, <1>5, <1>6, <1>7, <1>8
  <1>10. ASSUME value # <<>>, name = w PROVE value = SubSeq(line, 3, Len(line))
    <2>1. lenName = 2 /\ n > 2
      BY <1>5, <1>7, <1>10
    <2> DEFINE v == SubSeq(line, 3, Len(line))
    <2>2. /\ v \in Seq(Symbols)
          /\ Len(v) = IF 3 <= Len(line) THEN Len(line) - 3 + 1 ELSE 0
          /\ \A i \in 1 .. Len(line) - 3 + 1 : v[i] = line[3 + i - 1]
      <3>1. \A i \in 3 .. Len(line) : line[i] \in Symbols
        BY <1>0, <1>1
      <3> QED
        BY <1>0, <1>1, <3>1, SubSeqProperties
    <2> HIDE DEF v
    <2>3. Len(v) = Len(value)
      BY <1>0, <1>1, <1>3, <2>1, <2>2
    <2>4. \A i \in 1 .. Len(value) : value[i] = v[i]
      <3> TAKE i \in 1 .. Len(value)
      <3>1. /\ i \in 1 .. n - lenName /\ i \in 1 .. Len(line) - 3 + 1
            /\ 3 + i - 1 \in 1 .. n /\ (3 + i - 1) - 1 = lenName + i - 1
        BY <1>0, <1>1, <1>3, <2>1
      <3>2. value[i] = oneParameterBuffer[lenName + i - 1]
        BY <1>3, <3>1
      <3>3. v[i] = line[3 + i - 1] /\ line[3 + i - 1] = oneParameterBuffer[(3 + i - 1) - 1]
        BY <1>1, <2>2, <3>1
      <3> QED
        BY <3>1, <3>2, <3>3
    <2> QED
      BY <1>3, <2>2, <2>3, <2>4, SeqEqual DEF v
  <1> QED
    BY <1>3, <1>9, <1>10 DEF line, name, value, w, n

-----------------------------------------------------------------------------
(* The steps.                                                              *)

\* Where no line has ended, nothing has been said.
LEMMA SameBefore ==
    ASSUME NEW c, NEW p, NEW q, {j \in NewLines(c) : j < q} = {j \in NewLines(c) : j < p}
    PROVE  /\ KeepsAlive(c, q) <=> KeepsAlive(c, p)
           /\ Chunks(c, q) <=> Chunks(c, p)
  <1>1. \A name : HeadersBefore(c, q, name) = HeadersBefore(c, p, name)
    BY DEF HeadersBefore
  <1>2. SaidBefore(c, q) = SaidBefore(c, p)
    BY <1>1 DEF SaidBefore
  <1> QED
    BY <1>1, <1>2 DEF KeepsAlive, Chunks

\* The line that ends at p names a header.
Names(c, p, name) == Len(Line(c, p)) > 2 /\ IsPrefix(<<name, ":">>, Line(c, p))

\* One line more decides, if it has a word that is known.
LEMMA MoreBefore ==
    ASSUME NEW c, NEW p \in NewLines(c), NEW q,
           {j \in NewLines(c) : j < q} = {j \in NewLines(c) : j < p} \cup {p}
    PROVE  /\ KeepsAlive(c, q) <=>
                  IF Names(c, p, "Connection") /\ LastWord(Value(c, p)) # "none"
                  THEN LastWord(Value(c, p)) = "keep" ELSE KeepsAlive(c, p)
           /\ Chunks(c, q) <=>
                  \/ Chunks(c, p)
                  \/ /\ Names(c, p, "Transfer-Encoding")
                     /\ \E w \in Words(Value(c, p)) : IsPrefix(w, ChunkedWord)
  <1>1. \A name : HeadersBefore(c, q, name) =
                      HeadersBefore(c, p, name) \cup (IF Names(c, p, name) THEN {p} ELSE {})
    BY DEF HeadersBefore, Names
  <1>2. SaidBefore(c, q) = SaidBefore(c, p) \cup
            (IF Names(c, p, "Connection") /\ LastWord(Value(c, p)) # "none" THEN {p} ELSE {})
    BY <1>1 DEF SaidBefore
  <1>3. p \in SaidBefore(c, q) => Max(SaidBefore(c, q)) = p
    <2>1. p \in Nat /\ \A j \in NewLines(c) : j \in Nat
      BY DEF NewLines
    <2>2. \A j \in SaidBefore(c, p) : j \in Nat /\ j < p
      BY <2>1 DEF SaidBefore, HeadersBefore
    <2>3. SaidBefore(c, q) \subseteq Nat /\ \A j \in SaidBefore(c, q) : j <= p
      BY <1>2, <2>1, <2>2
    <2> QED
      BY <2>3, MaxIs
  <1>4. KeepsAlive(c, q) <=>
            IF Names(c, p, "Connection") /\ LastWord(Value(c, p)) # "none"
            THEN LastWord(Value(c, p)) = "keep" ELSE KeepsAlive(c, p)
    BY <1>2, <1>3 DEF KeepsAlive
  <1>5. Chunks(c, q) <=>
            \/ Chunks(c, p)
            \/ /\ Names(c, p, "Transfer-Encoding")
               /\ \E w \in Words(Value(c, p)) : IsPrefix(w, ChunkedWord)
    <2> HIDE DEF IsPrefix
    <2> QED
      BY <1>1 DEF Chunks
  <1> QED
    BY <1>4, <1>5

\* The parser sees the text of its call.
LEMMA AtText ==
    ASSUME IndInv, LinesType, Parsing
    PROVE  /\ buff + 1 \in 1 .. Len(call.text)
           /\ message[buff] = call.text[buff + 1]
           /\ message[buff] \in Symbols
           /\ AtNewLine <=> buff + 1 \in NewLines(call)
  <1>1. /\ buff \in Nat /\ count \in Nat /\ count > 0 /\ buff + count = Len(call.text)
        /\ \A i \in 0 .. Len(call.text) - 1 : message[i] = call.text[i + 1]
        /\ message[Len(call.text)] = "NUL"
    BY DEF IndInv, Parsed, Parsing, Holds
  <1>2. call.text \in Seq(Symbols) /\ Len(call.text) \in Nat
    BY DEF LinesType, CallOK
  <1>3. buff + 1 \in 1 .. Len(call.text) /\ buff \in 0 .. Len(call.text) - 1
    BY <1>1, <1>2
  <1>4. message[buff] = call.text[buff + 1]
    BY <1>1, <1>3
  <1>5. message[buff] \in Symbols
    BY <1>2, <1>3, <1>4
  <1>6. CASE buff + 1 = Len(call.text)
    <2>1. message[buff + 1] # "LF"
      BY <1>1, <1>6
    <2>2. buff + 1 \notin NewLines(call)
      BY <1>1, <1>2, <1>6 DEF NewLines
    <2> QED
      BY <1>3, <1>4, <1>5, <2>1, <2>2 DEF AtNewLine
  <1>7. CASE buff + 1 # Len(call.text)
    <2>1. buff + 1 \in 1 .. Len(call.text) - 1 /\ buff + 1 \in 0 .. Len(call.text) - 1
      BY <1>1, <1>2, <1>3, <1>7
    <2>2. message[buff + 1] = call.text[(buff + 1) + 1]
      BY <1>1, <2>1
    <2>3. buff + 1 \in NewLines(call) <=> call.text[buff + 1] = "CR" /\ call.text[(buff + 1) + 1] = "LF"
      BY <2>1 DEF NewLines
    <2> QED
      BY <1>3, <1>4, <1>5, <2>2, <2>3 DEF AtNewLine
  <1> QED
    BY <1>6, <1>7

-----------------------------------------------------------------------------

\* A symbol that is dropped changes nothing.
LEMMA DropLines ==
    ASSUME LinesInv, Drop
    PROVE  LinesType' /\ NameFound' /\ ParsedTo(buff + 1)'
  <1> DEFINE p == buff + 1
  <1>1. /\ Parsing /\ ~ AtNewLine /\ message[buff] \in {"CR", "SP"} /\ buff' = buff + 1
        /\ UNCHANGED <<static, object, ended, call>>
    BY DEF Drop, Advance
  <1>2. /\ p \in 1 .. Len(call.text) /\ call.text[p] \in {"CR", "SP"} /\ p \notin NewLines(call)
    BY <1>1, AtText DEF LinesInv
  <1>3. ParsedTo(p) /\ CallOK(call)
    BY <1>1 DEF LinesInv, LinesType, Parsing
  <1> HIDE DEF p
  <1>4. /\ Begun(call, p + 1) /\ Line(call, p + 1) = Line(call, p)
        /\ {j \in NewLines(call) : j < p + 1} = {j \in NewLines(call) : j < p}
    BY <1>2, <1>3, LineMore DEF ParsedTo
  <1>5. (KeepsAlive(call, p + 1) <=> KeepsAlive(call, p)) /\ (Chunks(call, p + 1) <=> Chunks(call, p))
    BY <1>4, SameBefore
  <1>6. ParsedTo(p + 1)
    BY <1>3, <1>4, <1>5 DEF ParsedTo
  <1>7. ParsedTo(buff + 1)'
    <2>1. buff' + 1 = p + 1
      BY <1>1 DEF p
    <2> QED
      BY <1>1, <1>6, <2>1 DEF ParsedTo, static, object, Stored
  <1>8. LinesType' /\ NameFound'
    BY <1>1 DEF LinesInv, LinesType, NameFound, static, object
  <1> QED
    BY <1>7, <1>8

\* The first m places of a buffer as a sequence.
LEMMA BufferAsLine ==
    ASSUME NEW b \in [Place -> Symbols], NEW m \in Place
    PROVE  LET s == [i \in 1 .. m - 0 |-> b[0 + i - 1]]
           IN /\ s \in Seq(Symbols) /\ Len(s) = m
              /\ \A i \in 1 .. m : s[i] = b[i - 1]
  <1> DEFINE s == [i \in 1 .. m - 0 |-> b[0 + i - 1]]
  <1>1. m \in Nat /\ m <= MAX_LENGTH_STRING - 1 /\ MAX_LENGTH_STRING \in Nat /\ m - 0 = m
    BY ConstantsAssumption DEF Place
  <1>2. \A i \in 1 .. m : 0 + i - 1 = i - 1 /\ i - 1 \in Place
    BY <1>1 DEF Place
  <1>3. s \in [1 .. m -> Symbols] /\ \A i \in 1 .. m : s[i] = b[i - 1]
    BY <1>1, <1>2
  <1> HIDE DEF s
  <1>4. s \in Seq(Symbols) /\ Len(s) = m
    BY <1>1, <1>3
  <1> QED
    BY <1>3, <1>4 DEF s

\* A sequence with one more element.
LEMMA AppendIs ==
    ASSUME NEW s \in Seq(Symbols), NEW x \in Symbols, NEW n, Len(s) = n
    PROVE  /\ Append(s, x) \in Seq(Symbols) /\ Len(Append(s, x)) = n + 1
           /\ \A i \in 1 .. n : Append(s, x)[i] = s[i]
           /\ Append(s, x)[n + 1] = x
  BY AppendProperties

\* A symbol that is stored is the next of the line, unless the buffer is full.
LEMMA StoreLines ==
    ASSUME LinesInv, Store
    PROVE  LinesType' /\ NameFound' /\ ParsedTo(buff + 1)'
  <1> DEFINE p == buff + 1
             n == ParseBuff_ptr
             x == message[buff]
             m == MAX_LENGTH_STRING - 1
             b == oneParameterBuffer
             line == Line(call, p)
  <1>1. /\ Parsing /\ x \notin {"CR", "SP"} /\ buff' = buff + 1
        /\ b' = [b EXCEPT ![n] = x]
        /\ n' = After(n)
        /\ lenName' = IF x = ":" /\ lenName = 0 THEN n' ELSE lenName
        /\ UNCHANGED <<object, ended, call>>
    BY DEF Store, Advance
  <1>2. /\ p \in 1 .. Len(call.text) /\ call.text[p] = x /\ x \in Symbols
        /\ p \notin NewLines(call)
    <2>1. p \in 1 .. Len(call.text) /\ call.text[p] = x /\ x \in Symbols
      BY <1>1, AtText DEF LinesInv
    <2>2. p \notin NewLines(call)
      BY <1>1, <2>1 DEF NewLines
    <2> QED
      BY <2>1, <2>2
  <1>3. ParsedTo(p) /\ CallOK(call) /\ b \in [Place -> Symbols]
    BY <1>1 DEF LinesInv, LinesType, Parsing
  <1>4. n \in Place /\ lenName \in 0 .. n
    BY DEF LinesInv, IndInv, WithinBuffer
  <1>5. m \in Nat /\ m + 1 = MAX_LENGTH_STRING /\ n \in Nat /\ n <= m /\ lenName \in Nat /\ lenName <= n
    BY <1>4, ConstantsAssumption DEF Place
  <1>6. n' = (IF n = m THEN m ELSE n + 1) /\ n' \in Place
    BY <1>1, <1>5 DEF After, Place
  <1> HIDE DEF p, x, m
  <1>7. /\ Begun(call, p + 1)
        /\ Line(call, p + 1) = IF Len(line) = m THEN line ELSE Append(line, x)
        /\ {j \in NewLines(call) : j < p + 1} = {j \in NewLines(call) : j < p}
    BY <1>1, <1>2, <1>3, LineMore DEF ParsedTo, m
  <1>8. (KeepsAlive(call, p + 1) <=> KeepsAlive(call, p)) /\ (Chunks(call, p + 1) <=> Chunks(call, p))
    BY <1>7, SameBefore
  <1>9. b' \in [Place -> Symbols]
    BY <1>1, <1>2, <1>3
  <1>10. /\ line = [i \in 1 .. n - 0 |-> b[0 + i - 1]]
         /\ line \in Seq(Symbols) /\ Len(line) = n
         /\ \A i \in 1 .. n : line[i] = b[i - 1]
    <2>1. line = [i \in 1 .. n - 0 |-> b[0 + i - 1]]
      BY <1>3 DEF ParsedTo, Stored
    <2> QED
      BY <1>3, <1>4, <2>1, BufferAsLine
  <1> DEFINE new == [i \in 1 .. n' - 0 |-> b'[0 + i - 1]]
  <1>11. new \in Seq(Symbols) /\ Len(new) = n' /\ \A i \in 1 .. n' : new[i] = b'[i - 1]
    BY <1>6, <1>9, BufferAsLine
  <1>12. Stored(0, n)' = new
    BY DEF Stored
  <1> HIDE DEF new, line, n, b
  <1>13. \A i \in Place : b'[i] = IF i = n THEN x ELSE b[i]
    BY <1>1, <1>3
  <1>14. Line(call, p + 1) = new
    <2>1. CASE n = m
      <3>1. \A i \in 1 .. n : i - 1 \in Place /\ i - 1 # n
        BY <1>5 DEF Place, m
      <3>2. \A i \in 1 .. n : new[i] = line[i]
        BY <1>6, <1>10, <1>11, <1>13, <2>1, <3>1
      <3>3. Len(new) = Len(line)
        BY <1>6, <1>10, <1>11, <2>1
      <3>4. new = line
        BY <1>10, <1>11, <3>2, <3>3, SeqEqual
      <3> QED
        BY <1>7, <1>10, <2>1, <3>4
    <2>2. CASE n # m
      <3> DEFINE t == Append(line, x)
      <3>1. /\ t \in Seq(Symbols) /\ Len(t) = n + 1
            /\ \A i \in 1 .. n : t[i] = line[i]
            /\ t[n + 1] = x
        <4>1. line \in Seq(Symbols) /\ x \in Symbols /\ Len(line) = n
          BY <1>2, <1>10
        <4> QED
          BY <4>1, AppendIs
      <3>2. Line(call, p + 1) = t
        BY <1>7, <1>10, <2>2
      <3> HIDE DEF t
      <3>3. n' = n + 1
        BY <1>6, <2>2
      <3>4. \A i \in 1 .. n + 1 : i - 1 \in Place /\ (i - 1 = n <=> i = n + 1)
        BY <1>5, <2>2 DEF Place, m
      <3>5. \A i \in 1 .. n + 1 : new[i] = b'[i - 1]
        BY <1>11, <3>3
      <3>6. \A i \in 1 .. n + 1 : i # n + 1 => i \in 1 .. n
        BY <1>5
      <3>7. \A i \in 1 .. n + 1 : new[i] = t[i]
        BY <1>10, <1>13, <3>1, <3>4, <3>5, <3>6
      <3>8. new = t
        BY <1>11, <3>1, <3>3, <3>7, SeqEqual
      <3> QED
        BY <3>2, <3>8
    <2> QED
      BY <2>1, <2>2
  <1>15. ParsedTo(buff + 1)'
    <2>1. buff' + 1 = p + 1
      BY <1>1 DEF p
    <2>2. Stored(0, ParseBuff_ptr)' = Line(call, p + 1)
      BY <1>12, <1>14 DEF n
    <2>3. Begun(call', buff' + 1)
      BY <1>1, <1>7, <2>1
    <2>4. Stored(0, ParseBuff_ptr)' = Line(call', buff' + 1)
      BY <1>1, <2>1, <2>2
    <2>5. \A j \in NewLines(call) : j < p + 1 => Line(call, j) # <<>>
      BY <1>3, <1>7 DEF ParsedTo
    <2>6. (keepAlive' <=> KeepsAlive(call', buff' + 1)) /\ (chunk' <=> Chunks(call', buff' + 1)) /\ ~ ended'
      BY <1>1, <1>3, <1>8, <2>1 DEF ParsedTo, object
    <2>7. \A j \in NewLines(call') : j < buff' + 1 => Line(call', j) # <<>>
      BY <1>1, <2>1, <2>5
    <2> QED
      BY <2>3, <2>4, <2>6, <2>7 DEF ParsedTo
  <1>16. LinesType'
    BY <1>1, <1>9 DEF LinesInv, LinesType, object, b
  <1>17. NameFound'
    <2>0. /\ lenName = 0 => \A i \in 0 .. n - 1 : b[i] # ":"
          /\ lenName # 0 => /\ b[lenName - 1] = ":" \/ lenName = m
                            /\ \A i \in 0 .. lenName - 2 : b[i] # ":"
      BY DEF LinesInv, NameFound, m, n, b
    <2> SUFFICES /\ lenName' = 0 => \A i \in 0 .. n' - 1 : b'[i] # ":"
                 /\ lenName' # 0 => /\ b'[lenName' - 1] = ":" \/ lenName' = m
                                    /\ \A i \in 0 .. lenName' - 2 : b'[i] # ":"
      BY DEF NameFound, m, n, b
    <2>1. \A i \in 0 .. n - 1 : i \in Place /\ b'[i] = b[i]
      BY <1>5, <1>13 DEF Place, m
    <2>2. b'[n] = x
      BY <1>4, <1>13 DEF n
    <2>3. CASE lenName # 0
      <3>1. lenName' = lenName
        BY <1>1, <2>3
      <3>2. lenName - 1 \in 0 .. n - 1 /\ \A i \in 0 .. lenName - 2 : i \in 0 .. n - 1
        BY <1>5, <2>3
      <3> QED
        BY <2>0, <2>1, <2>3, <3>1, <3>2
    <2>4. CASE lenName = 0 /\ x # ":"
      <3>1. lenName' = 0
        BY <1>1, <2>4
      <3>2. \A i \in 0 .. n' - 1 : i \in 0 .. n - 1 \/ i = n
        BY <1>5, <1>6
      <3> QED
        BY <2>0, <2>1, <2>2, <2>4, <3>1, <3>2
    <2>5. CASE lenName = 0 /\ x = ":"
      <3>1. lenName' = n'
        BY <1>1, <2>5
      <3>2. n' = 0 => \A i \in 0 .. n' - 1 : FALSE
        BY <1>6
      <3>3. n' # m => n' - 1 = n
        BY <1>5, <1>6
      <3>4. \A i \in 0 .. n' - 2 : i \in 0 .. n - 1
        BY <1>5, <1>6
      <3> QED
        BY <2>0, <2>1, <2>2, <2>5, <3>1, <3>2, <3>3, <3>4
    <2> QED
      BY <2>3, <2>4, <2>5
  <1> QED
    BY <1>15, <1>16, <1>17

\* A newline after a line that is not empty ends a header.
LEMMA HeaderLines ==
    ASSUME LinesInv, HeaderEnds
    PROVE  LinesType' /\ NameFound' /\ ParsedTo(buff + 1)'
  <1> DEFINE p == buff + 1
             line  == Stored(0, ParseBuff_ptr)
             name  == Stored(0, lenName)
             value == Stored(lenName, ParseBuff_ptr)
             known(h) == value # <<>> /\ name = <<h, ":">>
  <1>1. /\ Parsing /\ AtNewLine /\ ParseBuff_ptr # 0 /\ buff' = buff + 2
        /\ ParseBuff_ptr' = 0 /\ lenName' = 0
        /\ UNCHANGED <<pc, message, oneParameterBuffer, ended, call>>
    BY DEF HeaderEnds, Advance, Reset
  <1>2. /\ keepAlive' = IF known("Connection") THEN ParseConnection(value, keepAlive) ELSE keepAlive
        /\ chunk' = IF known("Transfer-Encoding") THEN ParseTransferEncoding(value, chunk) ELSE chunk
    BY DEF HeaderEnds
  <1>3. p \in NewLines(call)
    BY <1>1, AtText DEF LinesInv
  <1>4. /\ ParsedTo(p) /\ CallOK(call) /\ NameFound /\ WithinBuffer
        /\ oneParameterBuffer \in [Place -> Symbols]
        /\ keepAlive \in BOOLEAN /\ chunk \in BOOLEAN
    BY <1>1 DEF LinesInv, LinesType, Parsing, IndInv
  <1>5. /\ Begun(call, p + 2) /\ Line(call, p + 2) = <<>>
        /\ {j \in NewLines(call) : j < p + 2} = {j \in NewLines(call) : j < p} \cup {p}
    BY <1>3, <1>4, LineNew
  <1>6. line = Line(call, p)
    BY <1>4 DEF ParsedTo
  <1>7. ASSUME NEW h \in {"Connection", "Transfer-Encoding"}
        PROVE  /\ known(h) <=> Names(call, p, h)
               /\ known(h) => value = Value(call, p) /\ value \in Seq(Symbols)
    <2>1. h # ":"
      OBVIOUS
    <2>2. /\ known(h) <=> Len(line) > 2 /\ IsPrefix(<<h, ":">>, line)
          /\ known(h) => value = SubSeq(line, 3, Len(line)) /\ value \in Seq(Symbols)
      BY <1>4, <2>1, HeaderIs
    <2> HIDE DEF line, name, value, IsPrefix
    <2> QED
      BY <1>6, <2>2 DEF Names, Value
  <1>8. /\ KeepsAlive(call, p + 2) <=>
               IF Names(call, p, "Connection") /\ LastWord(Value(call, p)) # "none"
               THEN LastWord(Value(call, p)) = "keep" ELSE KeepsAlive(call, p)
        /\ Chunks(call, p + 2) <=>
               \/ Chunks(call, p)
               \/ /\ Names(call, p, "Transfer-Encoding")
                  /\ \E w \in Words(Value(call, p)) : IsPrefix(w, ChunkedWord)
    BY <1>3, <1>5, MoreBefore
  <1>9. ASSUME value # <<>>, value \in Seq(Symbols)
        PROVE  /\ ParseConnection(value, keepAlive) <=>
                      IF LastWord(value) = "none" THEN keepAlive ELSE LastWord(value) = "keep"
               /\ ParseTransferEncoding(value, chunk) <=>
                      chunk \/ \E w \in Words(value) : IsPrefix(w, ChunkedWord)
    BY <1>4, <1>9, ValueParsed
  <1>10. (keepAlive <=> KeepsAlive(call, p)) /\ (chunk <=> Chunks(call, p)) /\ ~ ended
         /\ \A j \in NewLines(call) : j < p => Line(call, j) # <<>>
    BY <1>4 DEF ParsedTo
  <1> HIDE DEF value, name, line, p
  <1>11. keepAlive' <=> KeepsAlive(call, p + 2)
    <2>1. CASE known("Connection")
      BY <1>2, <1>7, <1>8, <1>9, <1>10, <2>1
    <2>2. CASE ~ known("Connection")
      BY <1>2, <1>7, <1>8, <1>10, <2>2
    <2> QED
      BY <2>1, <2>2
  <1>12. chunk' <=> Chunks(call, p + 2)
    <2> HIDE DEF IsPrefix
    <2>1. CASE known("Transfer-Encoding")
      BY <1>2, <1>7, <1>8, <1>9, <1>10, <2>1
    <2>2. CASE ~ known("Transfer-Encoding")
      BY <1>2, <1>7, <1>8, <1>10, <2>2
    <2> QED
      BY <2>1, <2>2
  <1>13. line # <<>>
    <2>1. 0 \in 0 .. ParseBuff_ptr /\ ParseBuff_ptr \in 0 .. ParseBuff_ptr /\ ParseBuff_ptr \in Nat
      BY <1>4, ConstantsAssumption DEF WithinBuffer, Place
    <2>2. line \in Seq(Symbols) /\ Len(line) = ParseBuff_ptr - 0
      BY <1>4, <2>1, StoredIs DEF line
    <2> QED
      BY <1>1, <2>1, <2>2
  <1>14. ParsedTo(buff + 1)'
    <2>1. buff' + 1 = p + 2
      <3>1. buff \in Nat
        BY <1>1 DEF LinesInv, IndInv, Parsed, Parsing
      <3> QED
        BY <1>1, <3>1 DEF p
    <2>2. Stored(0, ParseBuff_ptr)' = <<>>
      <3>1. Stored(0, ParseBuff_ptr)' = [i \in 1 .. 0 - 0 |-> oneParameterBuffer'[0 + i - 1]]
        BY <1>1 DEF Stored
      <3>2. 1 .. 0 - 0 = {}
        OBVIOUS
      <3> QED
        BY <3>1, <3>2
    <2>3. Begun(call', buff' + 1)
      BY <1>1, <1>5, <2>1
    <2>4. Stored(0, ParseBuff_ptr)' = Line(call', buff' + 1)
      BY <1>1, <1>5, <2>1, <2>2
    <2>5. \A j \in NewLines(call) : j < p + 2 => Line(call, j) # <<>>
      BY <1>5, <1>6, <1>10, <1>13
    <2>6. (keepAlive' <=> KeepsAlive(call', buff' + 1)) /\ (chunk' <=> Chunks(call', buff' + 1)) /\ ~ ended'
      BY <1>1, <1>10, <1>11, <1>12, <2>1
    <2>7. \A j \in NewLines(call') : j < buff' + 1 => Line(call', j) # <<>>
      BY <1>1, <2>1, <2>5
    <2> QED
      BY <2>3, <2>4, <2>6, <2>7 DEF ParsedTo
  <1>15. keepAlive' \in BOOLEAN /\ chunk' \in BOOLEAN
    <2>1. (IF LastWord(value) = "none" THEN keepAlive ELSE LastWord(value) = "keep") \in BOOLEAN
      BY <1>4
    <2>2. ParseConnection(value, keepAlive) \in BOOLEAN
      BY <1>4 DEF ParseConnection
    <2>3. ParseTransferEncoding(value, chunk) \in BOOLEAN
      BY DEF ParseTransferEncoding
    <2> QED
      BY <1>2, <1>4, <2>2, <2>3
  <1>16. LinesType'
    BY <1>1, <1>15 DEF LinesInv, LinesType
  <1>17. NameFound'
    <2>1. 0 .. 0 - 1 = {}
      OBVIOUS
    <2> QED
      BY <1>1, <2>1 DEF NameFound
  <1> QED
    BY <1>14, <1>16, <1>17

\* A call begins with the line that the last call left.
LEMMA ReadLines ==
    ASSUME LinesInv, NEW t \in Texts, Read(t)
    PROVE  LinesType' /\ NameFound' /\ ParsedTo(buff + 1)'
  <1>1. /\ buff' = 0 /\ keepAlive' \in BOOLEAN /\ chunk' \in BOOLEAN /\ ended' = FALSE
        /\ call' = [n |-> call.n + 1, text |-> t,
                    carry |-> [i \in 1 .. ParseBuff_ptr |-> oneParameterBuffer[i - 1]],
                    keepAlive |-> keepAlive', chunk |-> chunk']
        /\ UNCHANGED <<oneParameterBuffer, ParseBuff_ptr, lenName>>
    BY DEF Read, static
  <1> DEFINE carry == [i \in 1 .. ParseBuff_ptr |-> oneParameterBuffer[i - 1]]
             c == call'
  <1>2. /\ c.text = t /\ c.carry = carry
        /\ c.keepAlive = keepAlive' /\ c.chunk = chunk'
    BY <1>1
  <1>3. oneParameterBuffer \in [Place -> Symbols] /\ ParseBuff_ptr \in Place
    BY DEF LinesInv, LinesType, IndInv, WithinBuffer
  <1>4. ParseBuff_ptr \in Nat /\ ParseBuff_ptr <= MAX_LENGTH_STRING - 1
    BY <1>3, ConstantsAssumption DEF Place
  <1>5. Stored(0, ParseBuff_ptr) = carry
    <2>1. ParseBuff_ptr - 0 = ParseBuff_ptr /\ \A i \in 1 .. ParseBuff_ptr : 0 + i - 1 = i - 1
      BY <1>4
    <2> QED
      BY <2>1 DEF Stored
  <1>6. carry \in Seq(Symbols) /\ Len(carry) <= MAX_LENGTH_STRING - 1
    <2>1. Stored(0, ParseBuff_ptr) \in Seq(Symbols) /\ Len(Stored(0, ParseBuff_ptr)) = ParseBuff_ptr
      BY <1>3, BufferAsLine DEF Stored
    <2> QED
      BY <1>4, <1>5, <2>1
  <1>7. t \in Seq(Symbols)
    <2>1. t \in Seq(STRING)
      BY ConstantsAssumption
    <2> QED
      BY <2>1, SeqMonotonic DEF Symbols
  <1> HIDE DEF carry, c
  <1>8. CallOK(c)
    BY <1>2, <1>6, <1>7 DEF CallOK
  <1>9. Begun(c, 1) /\ Line(c, 1) = carry
    BY <1>2, <1>8, LineFirst
  <1>10. {j \in NewLines(c) : j < 1} = {}
    BY DEF NewLines
  <1>11. (KeepsAlive(c, 1) <=> c.keepAlive) /\ (Chunks(c, 1) <=> c.chunk)
    <2>1. \A h : HeadersBefore(c, 1, h) = {}
      BY <1>10 DEF HeadersBefore
    <2>2. SaidBefore(c, 1) = {}
      BY <2>1 DEF SaidBefore
    <2> QED
      BY <2>1, <2>2 DEF KeepsAlive, Chunks
  <1>12. ParsedTo(buff + 1)'
    <2>1. buff' + 1 = 1
      BY <1>1
    <2>2. Stored(0, ParseBuff_ptr)' = carry
      BY <1>1, <1>5 DEF Stored
    <2>3. Begun(call', buff' + 1) /\ Stored(0, ParseBuff_ptr)' = Line(call', buff' + 1)
      BY <1>9, <2>1, <2>2 DEF c
    <2>4. (keepAlive' <=> KeepsAlive(call', buff' + 1)) /\ (chunk' <=> Chunks(call', buff' + 1)) /\ ~ ended'
      BY <1>1, <1>2, <1>11, <2>1 DEF c
    <2>5. \A j \in NewLines(call') : j < buff' + 1 => Line(call', j) # <<>>
      BY <1>10, <2>1 DEF c
    <2> QED
      BY <2>3, <2>4, <2>5 DEF ParsedTo
  <1>13. LinesType'
    BY <1>1, <1>2, <1>3, <1>8 DEF LinesType, c, Place
  <1>14. NameFound'
    BY <1>1 DEF LinesInv, NameFound
  <1> QED
    BY <1>12, <1>13, <1>14

\* The parser stops at the first line that is empty, or at the end of the text.
LEMMA StopIs ==
    ASSUME NEW c, CallOK(c), NEW p \in Nat, p <= Len(c.text) + 1,
           \A j \in NewLines(c) : j < p => Line(c, j) # <<>>,
           (p \in NewLines(c) /\ Line(c, p) = <<>>) \/ p = Len(c.text) + 1
    PROVE  Stop(c) = p /\ (Blank(c) # {} <=> p \in NewLines(c))
  <1>1. Len(c.text) \in Nat /\ \A j \in NewLines(c) : j \in Nat /\ j <= Len(c.text)
    BY DEF CallOK, NewLines
  <1>2. \A j \in Blank(c) : j \in NewLines(c) /\ j >= p
    <2>1. \A j \in NewLines(c) : j < p \/ j >= p
      BY <1>1
    <2> QED
      BY <2>1 DEF Blank
  <1>3. p \in NewLines(c) => p \in Blank(c)
    BY <1>1 DEF Blank
  <1>4. p \notin NewLines(c) => Blank(c) = {}
    BY <1>1, <1>2
  <1>5. Stop(c) = p
    <2> DEFINE S == {Len(c.text) + 1} \cup Blank(c)
    <2>1. p \in S
      BY <1>3
    <2>2. S \subseteq Nat /\ \A k \in S : p <= k
      BY <1>1, <1>2
    <2> HIDE DEF S
    <2>3. Min(S) = p
      BY <2>1, <2>2, MinIs
    <2> QED
      BY <2>3 DEF Stop, S
  <1> QED
    BY <1>3, <1>4, <1>5

\* What the headers before the blank line say is what has been said where the parser stops.
LEMMA SaidAtStop ==
    ASSUME NEW c
    PROVE  /\ KeepsAlive(c, Stop(c)) <=>
                  IF Says(c) = {} THEN c.keepAlive ELSE LastWord(Value(c, Max(Says(c)))) = "keep"
           /\ Chunks(c, Stop(c)) <=>
                  \/ c.chunk
                  \/ \E j \in Headers(c, "Transfer-Encoding") :
                         \E w \in Words(Value(c, j)) : IsPrefix(w, ChunkedWord)
  <1>1. \A name : Headers(c, name) = HeadersBefore(c, Stop(c), name)
    BY DEF Headers, HeadersBefore
  <1>2. Says(c) = SaidBefore(c, Stop(c))
    BY <1>1 DEF Says, SaidBefore
  <1> QED
    BY <1>1, <1>2, Zenon DEF KeepsAlive, Chunks

\* What the parser has done when it returns at p, the blank line or the end of the text.
LEMMA Returns ==
    ASSUME ParsedTo(buff + 1), CallOK(call), UNCHANGED <<static, object, call>>,
           NEW p, p = buff + 1, p \in Nat, p <= Len(call.text) + 1,
           ended' \in BOOLEAN,
           ended' => p \in NewLines(call) /\ Line(call, p) = <<>>,
           ~ ended' => p = Len(call.text) + 1
    PROVE  ParsedAsLines'
  <1>1. p = Len(call.text) + 1 => p \notin NewLines(call)
    BY DEF CallOK, NewLines
  <1>2. Stop(call) = p /\ (Blank(call) # {} <=> p \in NewLines(call))
    <2>1. \A j \in NewLines(call) : j < p => Line(call, j) # <<>>
      BY DEF ParsedTo
    <2> QED
      BY <2>1, StopIs
  <1>3. ended' <=> Blank(call) # {}
    BY <1>1, <1>2
  <1>4. /\ keepAlive <=> IF Says(call) = {} THEN call.keepAlive
                         ELSE LastWord(Value(call, Max(Says(call)))) = "keep"
        /\ chunk <=> \/ call.chunk
                     \/ \E j \in Headers(call, "Transfer-Encoding") :
                            \E w \in Words(Value(call, j)) : IsPrefix(w, ChunkedWord)
        /\ Stored(0, ParseBuff_ptr) = Line(call, Stop(call))
    <2>1. (keepAlive <=> KeepsAlive(call, p)) /\ (chunk <=> Chunks(call, p))
          /\ Stored(0, ParseBuff_ptr) = Line(call, p)
      BY DEF ParsedTo
    <2> HIDE DEF Says, Headers, Stop, Value, Words, LastWord, IsPrefix, Stored
    <2> QED
      BY <1>2, <2>1, SaidAtStop
  <1>5. call' = call /\ keepAlive' = keepAlive /\ chunk' = chunk
        /\ Stored(0, ParseBuff_ptr)' = Stored(0, ParseBuff_ptr)
    BY DEF static, object, Stored
  <1> HIDE DEF Says, Headers, Stop, Blank, Value, Words, LastWord, IsPrefix, Stored
  <1> QED
    BY <1>3, <1>4, <1>5 DEF ParsedAsLines

\* The invariant holds initially and every step preserves it.
LEMMA LinesInductive == Spec => []LinesInv
  <1>1. Init => LinesInv
    <2> SUFFICES ASSUME Init PROVE LinesInv
      OBVIOUS
    <2>1. IndInv
      <3>1. WithinBuffer
        BY ConstantsAssumption DEF Init, WithinBuffer, Place
      <3>2. Text
        BY ConstantsAssumption DEF Init, Text
      <3>3. Parsed
        BY DEF Init, Parsed
      <3> QED
        BY <3>1, <3>2, <3>3 DEF IndInv
    <2>2. LinesType
      <3>1. oneParameterBuffer = [i \in Place |-> "NUL"] /\ "NUL" \in Symbols
        BY DEF Init, Symbols
      <3>2. oneParameterBuffer \in [Place -> Symbols]
        BY <3>1
      <3>3. <<>> \in Seq(Symbols) /\ Len(<<>>) <= MAX_LENGTH_STRING - 1
        BY ConstantsAssumption
      <3>4. call.text = <<>> /\ call.carry = <<>> /\ call.keepAlive = FALSE /\ call.chunk = FALSE
        BY DEF Init
      <3>5. CallOK(call)
        BY <3>3, <3>4, Zenon DEF CallOK
      <3>6. keepAlive = FALSE /\ chunk = FALSE /\ ended = FALSE
        BY DEF Init
      <3> QED
        BY <3>2, <3>4, <3>5, <3>6 DEF LinesType
    <2>3. NameFound
      BY DEF Init, NameFound
    <2>4. ParsedAsLines
      BY DEF Init, ParsedAsLines, Returned
    <2>5. pc # "parse"
      BY DEF Init
    <2> QED
      BY <2>1, <2>2, <2>3, <2>4, <2>5 DEF LinesInv
  <1>2. LinesInv /\ UNCHANGED vars => LinesInv'
    <2> SUFFICES ASSUME LinesInv, UNCHANGED vars PROVE LinesInv'
      OBVIOUS
    <2>1. IndInv'
      BY DEF vars, static, object, LinesInv, IndInv, WithinBuffer, Text, Parsed, Holds
    <2>2. LinesType' /\ NameFound'
      BY DEF vars, static, object, LinesInv, LinesType, NameFound
    <2>3. (pc = "parse" => ParsedTo(buff + 1))'
      BY DEF vars, static, object, LinesInv, ParsedTo, Stored
    <2>4. ParsedAsLines'
      <3> HIDE DEF Says, Headers, Stop, Blank, Value, Words, LastWord, IsPrefix
      <3> QED
        BY DEF vars, static, object, LinesInv, ParsedAsLines, Returned, Stored
    <2> QED
      BY <2>1, <2>2, <2>3, <2>4 DEF LinesInv
  <1>3. LinesInv /\ Next => LinesInv'
    <2> SUFFICES ASSUME LinesInv, Next PROVE LinesInv'
      OBVIOUS
    <2>1. IndInv'
      BY ReadStep, ParseStep DEF LinesInv
    <2>2. ASSUME pc' = "parse", LinesType' /\ NameFound' /\ ParsedTo(buff + 1)' PROVE LinesInv'
      BY <2>1, <2>2 DEF LinesInv, ParsedAsLines, Returned
    <2>3. ASSUME pc' = "read", LinesType', NameFound', ParsedAsLines' PROVE LinesInv'
      BY <2>1, <2>3 DEF LinesInv
    <2>4. ASSUME pc = "parse"
          PROVE  /\ buff \in Nat /\ count \in Nat /\ buff + count = Len(call.text)
                 /\ ParsedTo(buff + 1) /\ CallOK(call)
      BY <2>4 DEF LinesInv, LinesType, IndInv, Parsed
    <2>5. ASSUME NEW t \in Texts, Read(t) PROVE LinesInv'
      BY <2>2, <2>5, ReadLines DEF Read
    <2>6. CASE BlankLine
      <3> DEFINE p == buff + 1
      <3>1. /\ Parsing /\ AtNewLine /\ ParseBuff_ptr = 0 /\ ended' = TRUE /\ pc' = "read"
            /\ UNCHANGED <<static, object, call>> /\ UNCHANGED oneParameterBuffer
        BY <2>6 DEF BlankLine, static
      <3>2. p \in NewLines(call) /\ p \in 1 .. Len(call.text)
        BY <3>1, AtText DEF LinesInv
      <3>3. Line(call, p) = <<>>
        <4>1. Stored(0, ParseBuff_ptr) = [i \in 1 .. 0 - 0 |-> oneParameterBuffer[0 + i - 1]]
          BY <3>1 DEF Stored
        <4>2. 1 .. 0 - 0 = {}
          OBVIOUS
        <4>3. Stored(0, ParseBuff_ptr) = <<>>
          BY <4>1, <4>2
        <4> QED
          BY <2>4, <3>1, <4>3 DEF ParsedTo, Parsing
      <3>4. LinesType' /\ NameFound'
        BY <3>1 DEF LinesInv, LinesType, NameFound, static, object
      <3>5. p \in Nat /\ p <= Len(call.text) + 1
        BY <2>4, <3>1, <3>2 DEF Parsing
      <3>6. ParsedTo(buff + 1) /\ CallOK(call)
        BY <2>4, <3>1 DEF Parsing
      <3>7. ParsedAsLines'
        BY <3>1, <3>2, <3>3, <3>5, <3>6, Returns
      <3> QED
        BY <2>3, <3>1, <3>4, <3>7
    <2>7. CASE HeaderEnds
      BY <2>2, <2>7, HeaderLines DEF HeaderEnds, Parsing
    <2>8. CASE Drop
      BY <2>2, <2>8, DropLines DEF Drop, Parsing
    <2>9. CASE Store
      BY <2>2, <2>9, StoreLines DEF Store, Parsing
    <2>10. CASE EndOfText
      <3> DEFINE p == buff + 1
      <3>1. pc = "parse" /\ count = 0 /\ pc' = "read" /\ UNCHANGED <<static, object, ended, call>>
        BY <2>10 DEF EndOfText
      <3>2. p = Len(call.text) + 1 /\ p \in Nat /\ p <= Len(call.text) + 1
        BY <2>4, <3>1
      <3>3. ParsedTo(buff + 1) /\ CallOK(call) /\ ~ ended'
        BY <2>4, <3>1 DEF ParsedTo
      <3>4. LinesType' /\ NameFound'
        BY <3>1 DEF LinesInv, LinesType, NameFound, static, object
      <3>5. ended' \in BOOLEAN
        BY <3>4 DEF LinesType
      <3>6. ParsedAsLines'
        BY <3>1, <3>2, <3>3, <3>5, Returns
      <3> QED
        BY <2>3, <3>1, <3>4, <3>6
    <2> QED
      BY <2>5, <2>6, <2>7, <2>8, <2>9, <2>10 DEF Next
  <1> QED
    BY <1>1, <1>2, <1>3, PTL DEF Spec

\* However headers follow each other over lines, reads and calls, the parser does to the
\* request what the complete headers before the blank line say, and no state of one
\* header reaches another.
THEOREM ParsesAsLines == Spec => []ParsedAsLines
  <1>1. LinesInv => ParsedAsLines
    BY DEF LinesInv
  <1> QED
    BY <1>1, LinesInductive, PTL

-----------------------------------------------------------------------------
(* Sequences of sequences.                                                 *)

\* What FlattenSeq has of the first i sequences, when g has it for fewer.
Joined(s, g, i) == IF i = 1 THEN s[i] ELSE g[i - 1] \o s[i]

\* FlattenSeq is the function it is defined by.
LEMMA FlattenDefined ==
    ASSUME NEW s, Len(s) \in Nat, Len(s) # 0
    PROVE  \E g : g = [i \in 1 .. Len(s) |-> Joined(s, g, i)] /\ FlattenSeq(s) = g[Len(s)]
  <1> DEFINE L == Len(s)
             Has(n) == \E g : g = [i \in 1 .. n |-> Joined(s, g, i)]
             T == {n \in 0 .. L : ~ Has(n)}
  <1>1. Has(0)
    <2> DEFINE g == [i \in 1 .. 0 |-> 0]
    <2>1. 1 .. 0 = {}
      OBVIOUS
    <2>2. g = [i \in 1 .. 0 |-> Joined(s, g, i)]
      BY <2>1
    <2> QED
      BY <2>2
  <1>2. ASSUME NEW n \in 1 .. L, Has(n - 1)
        PROVE  Has(n)
    <2>1. PICK g : g = [i \in 1 .. n - 1 |-> Joined(s, g, i)]
      BY <1>2
    <2> DEFINE h == [i \in 1 .. n |-> IF i = n THEN Joined(s, g, i) ELSE g[i]]
    <2>2. ASSUME NEW i \in 1 .. n
          PROVE  h[i] = Joined(s, h, i)
      <3>1. h[i] = Joined(s, g, i)
        <4>1. i # n => i \in 1 .. n - 1
          OBVIOUS
        <4>2. i # n => g[i] = Joined(s, g, i)
          BY <2>1, <4>1
        <4> QED
          BY <4>2
      <3>2. i # 1 => i - 1 \in 1 .. n /\ i - 1 # n
        OBVIOUS
      <3>3. i # 1 => h[i - 1] = g[i - 1]
        BY <3>2
      <3> HIDE DEF h
      <3> QED
        BY <3>1, <3>3 DEF Joined
    <2>3. h = [i \in 1 .. n |-> h[i]]
      OBVIOUS
    <2> HIDE DEF h
    <2>4. h = [i \in 1 .. n |-> Joined(s, h, i)]
      BY <2>2, <2>3
    <2> QED
      BY <2>4
  <1> HIDE DEF Has
  <1>3. T = {}
    <2> SUFFICES ASSUME T # {} PROVE FALSE
      OBVIOUS
    <2>1. PICK n \in T : \A k \in T : n <= k
      <3>1. T \subseteq Nat
        OBVIOUS
      <3> HIDE DEF T
      <3> QED
        BY <3>1, LeastElement
    <2>2. n \in 1 .. L /\ n - 1 \in 0 .. L /\ n - 1 \notin T
      BY <1>1, <2>1
    <2>3. Has(n - 1)
      BY <2>2
    <2> QED
      BY <1>2, <2>1, <2>2, <2>3
  <1>4. \E g : g = [i \in 1 .. Len(s) |-> Joined(s, g, i)]
    <2>1. L \in 0 .. L
      OBVIOUS
    <2> QED
      BY <1>3, <2>1 DEF Has
  <1> DEFINE g1 == CHOOSE g : g = [i \in 1 .. Len(s) |-> Joined(s, g, i)]
  <1>5. g1 = [i \in 1 .. Len(s) |-> Joined(s, g1, i)]
    BY <1>4
  <1>6. FlattenSeq(s) = g1[Len(s)]
    BY DEF FlattenSeq, Joined
  <1> QED
    BY <1>5, <1>6

\* Where each of the sequences begins in the joined one, and that it is there.
Lies(s, t, at) ==
    /\ at \in [1 .. Len(s) + 1 -> Nat]
    /\ at[1] = 1 /\ at[Len(s) + 1] = Len(t) + 1
    /\ \A i \in 1 .. Len(s) :
           /\ at[i + 1] = at[i] + Len(s[i])
           /\ \A k \in 1 .. Len(s[i]) :
                  at[i] + k - 1 \in 1 .. Len(t) /\ t[at[i] + k - 1] = s[i][k]

\* Each of the sequences is somewhere in the joined one, one after the other.
LEMMA FlattenIs ==
    ASSUME NEW S, NEW s \in Seq(Seq(S))
    PROVE  FlattenSeq(s) \in Seq(S) /\ \E at : Lies(s, FlattenSeq(s), at)
  <1> DEFINE L == Len(s)
  <1>0. L \in Nat /\ \A i \in 1 .. L : s[i] \in Seq(S) /\ Len(s[i]) \in Nat
    OBVIOUS
  <1>1. CASE L = 0
    <2>1. s = <<>>
      BY <1>1, EmptySeq
    <2>2. FlattenSeq(s) = <<>>
      BY <1>1, <2>1 DEF FlattenSeq
    <2> DEFINE at == [i \in 1 .. 1 |-> 1]
    <2>3. <<>> \in Seq(S) /\ Len(<<>>) = 0
      OBVIOUS
    <2>4. at \in [1 .. L + 1 -> Nat] /\ at[1] = 1 /\ at[L + 1] = 0 + 1 /\ \A i \in 1 .. L : FALSE
      BY <1>1
    <2> HIDE DEF at
    <2>5. Lies(s, FlattenSeq(s), at)
      BY <2>2, <2>3, <2>4 DEF Lies
    <2> QED
      BY <2>2, <2>3, <2>5, Zenon
  <1>2. CASE L # 0
    <2>1. PICK g : g = [i \in 1 .. L |-> Joined(s, g, i)] /\ FlattenSeq(s) = g[L]
      BY <1>0, <1>2, FlattenDefined
    <2>2. g[1] = s[1] /\ \A i \in 2 .. L : g[i] = g[i - 1] \o s[i]
      <3>1. 1 \in 1 .. L /\ \A i \in 2 .. L : i \in 1 .. L /\ i # 1
        BY <1>0, <1>2
      <3> QED
        BY <2>1, <3>1 DEF Joined
    <2> DEFINE at == [i \in 1 .. L + 1 |-> IF i = 1 THEN 1 ELSE Len(g[i - 1]) + 1]
               Good(n) == /\ g[n] \in Seq(S)
                          /\ at[n + 1] = at[n] + Len(s[n]) /\ at[n] \in Nat
                          /\ \A i \in 1 .. n : \A k \in 1 .. Len(s[i]) :
                                 /\ at[i] + k - 1 \in 1 .. Len(g[n])
                                 /\ g[n][at[i] + k - 1] = s[i][k]
               T == {n \in 1 .. L : ~ Good(n)}
    <2>3. at[1] = 1 /\ \A i \in 1 .. L : at[i + 1] = Len(g[i]) + 1
      <3>1. 1 \in 1 .. L + 1 /\ \A i \in 1 .. L : i + 1 \in 1 .. L + 1 /\ i + 1 # 1 /\ (i + 1) - 1 = i
        BY <1>0
      <3> QED
        BY <3>1
    <2>4. at = [i \in 1 .. L + 1 |-> at[i]]
      OBVIOUS
    <2> HIDE DEF at
    <2>5. Good(1)
      <3>1. 1 \in 1 .. L /\ s[1] \in Seq(S) /\ Len(s[1]) \in Nat
        BY <1>0, <1>2
      <3>2. at[1 + 1] = Len(s[1]) + 1
        BY <2>2, <2>3, <3>1
      <3> QED
        BY <2>2, <2>3, <3>1, <3>2
    <2>6. ASSUME NEW n \in 2 .. L, Good(n - 1)
          PROVE  Good(n)
      <3> DEFINE a == g[n - 1]
                 b == s[n]
      <3>1. n - 1 \in 1 .. L /\ n \in 1 .. L /\ (n - 1) + 1 = n
        BY <1>0
      <3>2. a \in Seq(S) /\ b \in Seq(S) /\ Len(a) \in Nat /\ Len(b) \in Nat /\ g[n] = a \o b
        <4>1. a \in Seq(S)
          BY <2>6
        <4>2. b \in Seq(S) /\ g[n] = a \o b
          BY <1>0, <2>2, <3>1
        <4> HIDE DEF a, b
        <4> QED
          BY <4>1, <4>2
      <3>3. at[n] = Len(a) + 1 /\ at[n + 1] = Len(g[n]) + 1
        BY <2>3, <3>1
      <3>4. \A i \in 1 .. n - 1 : \A k \in 1 .. Len(s[i]) :
                at[i] + k - 1 \in 1 .. Len(a) /\ a[at[i] + k - 1] = s[i][k]
        BY <2>6
      <3> HIDE DEF a, b
      <3>5. /\ a \o b \in Seq(S) /\ Len(a \o b) = Len(a) + Len(b)
            /\ \A j \in 1 .. Len(a) + Len(b) : (a \o b)[j] = IF j <= Len(a) THEN a[j] ELSE b[j - Len(a)]
        BY <3>2, ConcatProperties
      <3>6. at[n + 1] = at[n] + Len(b) /\ at[n] \in Nat
        BY <3>2, <3>3, <3>5
      <3>7. ASSUME NEW i \in 1 .. n, NEW k \in 1 .. Len(s[i])
            PROVE  at[i] + k - 1 \in 1 .. Len(a) + Len(b) /\ (a \o b)[at[i] + k - 1] = s[i][k]
        <4>1. CASE i # n
          <5> DEFINE j == at[i] + k - 1
          <5>1. i \in 1 .. n - 1
            BY <3>1, <4>1
          <5>2. j \in 1 .. Len(a) /\ a[j] = s[i][k]
            BY <3>4, <5>1
          <5> HIDE DEF j
          <5>3. j \in 1 .. Len(a) + Len(b) /\ j <= Len(a)
            BY <3>2, <5>2
          <5> QED
            BY <3>5, <5>2, <5>3 DEF j
        <4>2. CASE i = n
          <5> DEFINE j == at[i] + k - 1
          <5>1. k \in 1 .. Len(b) /\ j = Len(a) + k
            BY <3>2, <3>3, <4>2 DEF b
          <5> HIDE DEF j
          <5>2. j \in 1 .. Len(a) + Len(b) /\ ~ (j <= Len(a)) /\ j - Len(a) = k
            BY <3>2, <5>1
          <5> QED
            BY <3>5, <4>2, <5>2 DEF b, j
        <4> QED
          BY <4>1, <4>2
      <3> QED
        BY <3>2, <3>5, <3>6, <3>7 DEF b
    <2>7. T = {}
      <3> HIDE DEF Good
      <3> SUFFICES ASSUME T # {} PROVE FALSE
        OBVIOUS
      <3>1. PICK n \in T : \A k \in T : n <= k
        <4>1. T \subseteq Nat
          OBVIOUS
        <4> HIDE DEF T
        <4> QED
          BY <4>1, LeastElement
      <3>2. n \in 2 .. L /\ n - 1 \in 1 .. L /\ n - 1 \notin T
        BY <1>0, <2>5, <3>1
      <3>3. Good(n - 1)
        BY <3>2
      <3> QED
        BY <2>6, <3>1, <3>2, <3>3
    <2>8. \A n \in 1 .. L : Good(n)
      <3> HIDE DEF Good
      <3> QED
        BY <2>7
    <2>9. L \in 1 .. L
      BY <1>0, <1>2
    <2>10. g[L] \in Seq(S) /\ at[L + 1] = Len(g[L]) + 1
      BY <2>3, <2>8, <2>9
    <2>11. at \in [1 .. L + 1 -> Nat]
      <3>1. \A i \in 1 .. L : at[i] \in Nat
        BY <2>8
      <3>2. at[L + 1] \in Nat
        BY <2>10
      <3>3. \A i \in 1 .. L + 1 : i \in 1 .. L \/ i = L + 1
        BY <1>0
      <3> QED
        BY <2>4, <3>1, <3>2, <3>3
    <2>12. \A i \in 1 .. L : /\ at[i + 1] = at[i] + Len(s[i])
                             /\ \A k \in 1 .. Len(s[i]) :
                                    at[i] + k - 1 \in 1 .. Len(g[L]) /\ g[L][at[i] + k - 1] = s[i][k]
      BY <2>8, <2>9
    <2> HIDE DEF Good, T
    <2>13. Lies(s, g[L], at)
      BY <2>3, <2>10, <2>11, <2>12 DEF Lies
    <2> QED
      BY <2>1, <2>10, <2>13
  <1> QED
    BY <1>1, <1>2

-----------------------------------------------------------------------------
(* The symbols of a header, added to a line.                               *)

\* The symbols of units.
UnitSymbol ==
    {"CR", "LF", "SP", ":", "Connection", "Transfer-Encoding", "User-Agent",
     "clo", "se", "keep-", "alive", "chunk", "ed", "x", "y"}

\* The place of the space in a header.
Space(h) == IF h = "agent" THEN 4 ELSE 3

\* Five symbols each, one of them a space: what is kept is the others.
LEMMA HeaderSymbolsAre ==
    ASSUME NEW h \in C!HeaderTexts
    PROVE  LET s == HeaderSymbols(h)
               k == Kept(h)
           IN /\ s \in Seq(UnitSymbol) /\ Len(s) = 5
              /\ \A i \in 1 .. 5 : s[i] \notin {"CR", "SC"} /\ (s[i] = "SP" <=> i = Space(h))
              /\ k \in Seq(UnitSymbol) /\ Len(k) = 4
              /\ \A i \in 1 .. 4 : k[i] = IF i < Space(h) THEN s[i] ELSE s[i + 1]
  <1>1. h \in {"close", "keep", "chunked", "agent"}
    BY DEF C!HeaderTexts
  <1>2. CASE h = "close"
    <2>1. /\ HeaderSymbols(h) = <<"Connection", ":", "SP", "clo", "se">>
          /\ Kept(h) = <<"Connection", ":", "clo", "se">> /\ Space(h) = 3
      BY <1>2 DEF HeaderSymbols, Kept, Space
    <2> QED
      BY <2>1 DEF UnitSymbol
  <1>3. CASE h = "keep"
    <2>1. /\ HeaderSymbols(h) = <<"Connection", ":", "SP", "keep-", "alive">>
          /\ Kept(h) = <<"Connection", ":", "keep-", "alive">> /\ Space(h) = 3
      BY <1>3 DEF HeaderSymbols, Kept, Space
    <2> QED
      BY <2>1 DEF UnitSymbol
  <1>4. CASE h = "chunked"
    <2>1. /\ HeaderSymbols(h) = <<"Transfer-Encoding", ":", "SP", "chunk", "ed">>
          /\ Kept(h) = <<"Transfer-Encoding", ":", "chunk", "ed">> /\ Space(h) = 3
      BY <1>4 DEF HeaderSymbols, Kept, Space
    <2> QED
      BY <2>1 DEF UnitSymbol
  <1>5. CASE h = "agent"
    <2>1. /\ HeaderSymbols(h) = <<"User-Agent", ":", "x", "SP", "y">>
          /\ Kept(h) = <<"User-Agent", ":", "x", "y">> /\ Space(h) = 4
      BY <1>5 DEF HeaderSymbols, Kept, Space
    <2> QED
      BY <2>1 DEF UnitSymbol
  <1> QED
    BY <1>1, <1>2, <1>3, <1>4, <1>5

\* The buffer has room for a header.
LEMMA Room == MAX_LENGTH_STRING - 1 \in Nat /\ MAX_LENGTH_STRING - 1 >= 5
  <1>1. "agent" \in C!HeaderTexts
    BY DEF C!HeaderTexts
  <1>2. Len(HeaderSymbols("agent")) = 5
    BY <1>1, HeaderSymbolsAre
  <1>3. Len(HeaderSymbols("agent")) < MAX_LENGTH_STRING
    BY <1>1, UnitsAssumption
  <1> QED
    BY <1>2, <1>3, ConstantsAssumption

\* A unit is a newline or the text of a header.
LEMMA UnitIs ==
    ASSUME NEW x \in HeaderUnit
    PROVE  /\ UnitSymbols(x) \in Seq(UnitSymbol)
           /\ \/ x.kind = "N" /\ UnitSymbols(x) = <<"CR", "LF">>
              \/ /\ x.kind = "T" /\ x.h \in C!HeaderTexts
                 /\ UnitSymbols(x) = HeaderSymbols(x.h)
  <1>1. CASE x = NewLineUnit
    <2>1. x.kind = "N"
      BY <1>1 DEF NewLineUnit, C!Unit
    <2>2. UnitSymbols(x) = <<"CR", "LF">>
      BY <2>1 DEF UnitSymbols
    <2>3. <<"CR", "LF">> \in Seq(UnitSymbol)
      BY DEF UnitSymbol
    <2> QED
      BY <2>1, <2>2, <2>3, Zenon
  <1>2. ASSUME NEW h \in C!HeaderTexts, x = TextUnit(h)
        PROVE  /\ x.kind = "T" /\ x.h \in C!HeaderTexts
               /\ UnitSymbols(x) = HeaderSymbols(x.h) /\ UnitSymbols(x) \in Seq(UnitSymbol)
    <2>1. x.kind = "T" /\ x.h = h
      BY <1>2 DEF TextUnit, C!Unit
    <2>2. UnitSymbols(x) = HeaderSymbols(h)
      BY <2>1 DEF UnitSymbols
    <2> QED
      BY <2>1, <2>2, HeaderSymbolsAre
  <1> QED
    BY <1>1, <1>2 DEF HeaderUnit

\* A line with a symbol more, as LineMore has it.
Add(l, x) == IF x \in {"CR", "SP"} \/ Len(l) = MAX_LENGTH_STRING - 1 THEN l ELSE Append(l, x)

\* A line that is no header, and says nothing: more than one text in it, and no semicolon.
Plain(l) == \A i \in 1 .. Len(l) : l[i] # "SC"
Junk(l) == Len(l) > 4 /\ Plain(l)

\* What a symbol more makes of a line.
LEMMA AddIs ==
    ASSUME NEW l \in Seq(Symbols), Len(l) <= MAX_LENGTH_STRING - 1, NEW x \in Symbols
    PROVE  /\ Add(l, x) \in Seq(Symbols)
           /\ Len(Add(l, x)) <= MAX_LENGTH_STRING - 1 /\ Len(l) <= Len(Add(l, x))
           /\ x # "SC" /\ Plain(l) => Plain(Add(l, x))
           /\ x = "SP" => Add(l, x) = l
           /\ x \notin {"CR", "SP"} /\ Len(l) >= 4 => Len(Add(l, x)) > 4
           /\ x \notin {"CR", "SP"} /\ Len(l) < 4 =>
                  /\ Len(Add(l, x)) = Len(l) + 1
                  /\ Add(l, x)[Len(l) + 1] = x
                  /\ \A i \in 1 .. Len(l) : Add(l, x)[i] = l[i]
  <1> DEFINE m == MAX_LENGTH_STRING - 1
  <1>1. m \in Nat /\ m >= 5
    BY Room
  <1> HIDE DEF m
  <1>2. /\ Append(l, x) \in Seq(Symbols) /\ Len(Append(l, x)) = Len(l) + 1
        /\ \A i \in 1 .. Len(l) : Append(l, x)[i] = l[i]
        /\ Append(l, x)[Len(l) + 1] = x
    BY AppendProperties
  <1>3. Len(l) \in Nat /\ Len(l) <= m
    BY DEF m
  <1>4. CASE x \in {"CR", "SP"} \/ Len(l) = m
    <2>1. Add(l, x) = l
      BY <1>4 DEF Add, m
    <2> QED
      BY <1>1, <1>3, <1>4, <2>1 DEF m
  <1>5. CASE ~ (x \in {"CR", "SP"} \/ Len(l) = m)
    <2> DEFINE t == Append(l, x)
    <2>1. Add(l, x) = t
      BY <1>5 DEF Add, m
    <2>2. /\ t \in Seq(Symbols) /\ Len(t) = Len(l) + 1
          /\ \A i \in 1 .. Len(l) : t[i] = l[i]
          /\ t[Len(l) + 1] = x
      BY <1>2
    <2> HIDE DEF t
    <2>3. x # "SC" /\ Plain(l) => Plain(t)
      <3>1. \A i \in 1 .. Len(t) : i \in 1 .. Len(l) \/ i = Len(l) + 1
        BY <1>3, <2>2
      <3> QED
        BY <2>2, <3>1 DEF Plain
    <2>4. Len(t) <= m /\ Len(l) <= Len(t) /\ (Len(l) >= 4 => Len(t) > 4)
      <3>1. Len(l) # m
        BY <1>5
      <3>2. Len(t) = Len(l) + 1
        BY <2>2
      <3> QED
        BY <1>1, <1>3, <3>1, <3>2
    <2> QED
      BY <1>5, <2>1, <2>2, <2>3, <2>4 DEF m
  <1> QED
    BY <1>4, <1>5

\* A line with the text of a header more.
AddText(l, s) == Add(Add(Add(Add(Add(l, s[1]), s[2]), s[3]), s[4]), s[5])

\* A header alone in its line is kept whole; after something else it makes the line say nothing.
LEMMA AddTextIs ==
    ASSUME NEW l \in Seq(Symbols), Len(l) <= MAX_LENGTH_STRING - 1, NEW h \in C!HeaderTexts,
           NEW s, s = HeaderSymbols(h), \A i \in 1 .. 5 : s[i] \in Symbols
    PROVE  /\ l = <<>> => AddText(l, s) = Kept(h)
           /\ Len(l) >= 4 /\ Plain(l) => Junk(AddText(l, s))
  <1>1. /\ \A i \in 1 .. 5 : s[i] \notin {"CR", "SC"} /\ (s[i] = "SP" <=> i = Space(h))
        /\ Kept(h) \in Seq(UnitSymbol) /\ Len(Kept(h)) = 4
        /\ \A i \in 1 .. 4 : Kept(h)[i] = IF i < Space(h) THEN s[i] ELSE s[i + 1]
        /\ Space(h) = 3 \/ Space(h) = 4
    BY HeaderSymbolsAre DEF Space
  <1> DEFINE l1 == Add(l, s[1])
             l2 == Add(l1, s[2])
             l3 == Add(l2, s[3])
             l4 == Add(l3, s[4])
             l5 == Add(l4, s[5])
             m == MAX_LENGTH_STRING - 1
  <1>2. AddText(l, s) = l5
    BY DEF AddText
  <1>3. /\ s[1] \in Symbols /\ s[1] \notin {"CR", "SP", "SC"}
        /\ s[2] \in Symbols /\ s[2] \notin {"CR", "SP", "SC"}
        /\ s[3] \in Symbols /\ s[3] \notin {"CR", "SC"} /\ (s[3] = "SP" <=> Space(h) = 3)
        /\ s[4] \in Symbols /\ s[4] \notin {"CR", "SC"} /\ (s[4] = "SP" <=> Space(h) = 4)
        /\ s[5] \in Symbols /\ s[5] \notin {"CR", "SP", "SC"}
    BY <1>1
  <1>4. /\ Kept(h)[1] = s[1] /\ Kept(h)[2] = s[2]
        /\ Kept(h)[3] = (IF Space(h) = 3 THEN s[4] ELSE s[3]) /\ Kept(h)[4] = s[5]
    <2>1. 1 \in 1 .. 4 /\ 2 \in 1 .. 4 /\ 3 \in 1 .. 4 /\ 4 \in 1 .. 4
      OBVIOUS
    <2> QED
      BY <1>1, <2>1
  <1> DEFINE P(k, x, t) ==
          /\ t \in Seq(Symbols) /\ Len(t) <= m /\ Len(k) <= Len(t)
          /\ Plain(k) => Plain(t)
          /\ x = "SP" => t = k
          /\ x # "SP" /\ Len(k) >= 4 => Len(t) > 4
          /\ x # "SP" /\ Len(k) < 4 =>
                 /\ Len(t) = Len(k) + 1 /\ t[Len(k) + 1] = x
                 /\ \A i \in 1 .. Len(k) : t[i] = k[i]
  <1>5. P(l, s[1], l1)
    BY <1>3, AddIs
  <1> HIDE DEF l1
  <1>6. P(l1, s[2], l2)
    BY <1>3, <1>5, AddIs
  <1> HIDE DEF l2
  <1>7. P(l2, s[3], l3)
    BY <1>3, <1>6, AddIs
  <1> HIDE DEF l3
  <1>8. P(l3, s[4], l4)
    BY <1>3, <1>7, AddIs
  <1> HIDE DEF l4
  <1>9. P(l4, s[5], l5)
    BY <1>3, <1>8, AddIs
  <1> HIDE DEF l5, m
  <1>10. ASSUME Len(l) >= 4, Plain(l) PROVE Junk(l5)
    <2>1. /\ Len(l) \in Nat /\ Len(l1) \in Nat /\ Len(l2) \in Nat /\ Len(l3) \in Nat
          /\ Len(l4) \in Nat /\ Len(l5) \in Nat
      BY <1>5, <1>6, <1>7, <1>8, <1>9
    <2>2. Len(l4) >= 4
      BY <1>5, <1>6, <1>7, <1>8, <1>10, <2>1
    <2>3. Len(l5) > 4
      BY <1>3, <1>9, <2>2
    <2>4. Plain(l5)
      BY <1>5, <1>6, <1>7, <1>8, <1>9, <1>10
    <2> QED
      BY <2>3, <2>4 DEF Junk
  <1>11. ASSUME l = <<>> PROVE l5 = Kept(h)
    <2>0. Len(l) = 0
      BY <1>11
    <2>1. Len(l1) = 1 /\ l1[1] = s[1]
      BY <1>3, <1>5, <2>0
    <2>2. Len(l2) = 2 /\ l2[1] = s[1] /\ l2[2] = s[2]
      <3>1. 1 \in 1 .. 1
        OBVIOUS
      <3> QED
        BY <1>3, <1>6, <2>1, <3>1
    <2>3. /\ Len(l4) = 3 /\ l4[1] = s[1] /\ l4[2] = s[2]
          /\ l4[3] = IF Space(h) = 3 THEN s[4] ELSE s[3]
      <3>1. 1 \in 1 .. 2 /\ 2 \in 1 .. 2
        OBVIOUS
      <3>2. CASE Space(h) = 3
        <4>1. l3 = l2
          BY <1>3, <1>7, <3>2
        <4>2. s[4] # "SP" /\ Len(l3) = 2 /\ l3[1] = s[1] /\ l3[2] = s[2]
          BY <1>3, <2>2, <3>2, <4>1
        <4>3. Len(l4) = 3 /\ l4[1] = s[1] /\ l4[2] = s[2] /\ l4[3] = s[4]
          BY <1>8, <3>1, <4>2
        <4> QED
          BY <3>2, <4>3
      <3>3. CASE Space(h) = 4
        <4>1. Len(l3) = 3 /\ l3[1] = s[1] /\ l3[2] = s[2] /\ l3[3] = s[3]
          BY <1>3, <1>7, <2>2, <3>1, <3>3
        <4>2. l4 = l3
          BY <1>3, <1>8, <3>3
        <4> QED
          BY <3>3, <4>1, <4>2
      <3> QED
        BY <1>1, <3>2, <3>3
    <2>4. Len(l5) = 4 /\ l5[1] = l4[1] /\ l5[2] = l4[2] /\ l5[3] = l4[3] /\ l5[4] = s[5]
      <3>1. 1 \in 1 .. 3 /\ 2 \in 1 .. 3 /\ 3 \in 1 .. 3
        OBVIOUS
      <3> QED
        BY <1>3, <1>9, <2>3, <3>1
    <2>5. \A i \in 1 .. 4 : l5[i] = Kept(h)[i]
      <3>1. \A i \in 1 .. 4 : i = 1 \/ i = 2 \/ i = 3 \/ i = 4
        OBVIOUS
      <3> QED
        BY <1>4, <2>3, <2>4, <3>1
    <2> DEFINE U == Symbols \cup UnitSymbol
    <2>6. l5 \in Seq(U) /\ Kept(h) \in Seq(U)
      BY <1>1, <1>9, SeqMonotonic
    <2> HIDE DEF U
    <2> QED
      BY <1>1, <2>4, <2>5, <2>6, SeqEqual
  <1> QED
    BY <1>2, <1>10, <1>11

\* What the text of a header does to the line.
LEMMA TextMore ==
    ASSUME NEW c, CallOK(c), NEW p \in Nat, p >= 1, p + 4 <= Len(c.text),
           NEW h \in C!HeaderTexts, \A k \in 1 .. 5 : c.text[p + k - 1] = HeaderSymbols(h)[k],
           Begun(c, p)
    PROVE  /\ Begun(c, p + 5)
           /\ Line(c, p + 5) = AddText(Line(c, p), HeaderSymbols(h))
           /\ {j \in NewLines(c) : j < p + 5} = {j \in NewLines(c) : j < p}
  <1> DEFINE s == HeaderSymbols(h)
  <1>1. \A i \in 1 .. 5 : s[i] # "CR"
    BY HeaderSymbolsAre
  <1>2. Len(c.text) \in Nat
    BY DEF CallOK
  <1> HIDE DEF s
  <1>3. ASSUME NEW k \in 1 .. 5, NEW q, q = p + k - 1, Begun(c, q)
        PROVE  /\ Begun(c, q + 1) /\ Line(c, q + 1) = Add(Line(c, q), s[k])
               /\ {j \in NewLines(c) : j < q + 1} = {j \in NewLines(c) : j < q}
    <2>1. q \in 1 .. Len(c.text) /\ q \in Nat
      <3> DEFINE n == Len(c.text)
      <3>1. n \in Nat /\ p + 4 <= n /\ q = p + k - 1
        BY <1>2, <1>3
      <3> HIDE DEF n
      <3>2. q \in 1 .. n /\ q \in Nat
        BY <3>1
      <3> QED
        BY <3>2 DEF n
    <2>2. c.text[q] = s[k] /\ c.text[q] # "CR"
      BY <1>1, <1>3 DEF s
    <2>3. q \notin NewLines(c)
      BY <2>2 DEF NewLines
    <2> QED
      BY <1>3, <2>1, <2>2, <2>3, LineMore DEF Add
  <1>4. /\ p = p + 1 - 1 /\ p + 1 = p + 2 - 1 /\ p + 2 = p + 3 - 1 /\ p + 3 = p + 4 - 1
        /\ p + 4 = p + 5 - 1
        /\ (p + 1) + 1 = p + 2 /\ (p + 2) + 1 = p + 3 /\ (p + 3) + 1 = p + 4 /\ (p + 4) + 1 = p + 5
    OBVIOUS
  <1>5. 1 \in 1 .. 5 /\ 2 \in 1 .. 5 /\ 3 \in 1 .. 5 /\ 4 \in 1 .. 5 /\ 5 \in 1 .. 5
    OBVIOUS
  <1> DEFINE N(q) == {j \in NewLines(c) : j < q}
             B(q) == Begun(c, q)
             L(q) == Line(c, q)
             A(l, x) == Add(l, x)
  <1>6. B(p + 1) /\ L(p + 1) = A(L(p), s[1]) /\ N(p + 1) = N(p)
    BY <1>3, <1>4, <1>5
  <1>7. B(p + 2) /\ L(p + 2) = A(L(p + 1), s[2]) /\ N(p + 2) = N(p + 1)
    <2>1. B((p + 1) + 1) /\ L((p + 1) + 1) = A(L(p + 1), s[2]) /\ N((p + 1) + 1) = N(p + 1)
      BY <1>3, <1>4, <1>5, <1>6
    <2> QED
      BY <1>4, <2>1
  <1>8. B(p + 3) /\ L(p + 3) = A(L(p + 2), s[3]) /\ N(p + 3) = N(p + 2)
    <2>1. B((p + 2) + 1) /\ L((p + 2) + 1) = A(L(p + 2), s[3]) /\ N((p + 2) + 1) = N(p + 2)
      BY <1>3, <1>4, <1>5, <1>7
    <2> QED
      BY <1>4, <2>1
  <1>9. B(p + 4) /\ L(p + 4) = A(L(p + 3), s[4]) /\ N(p + 4) = N(p + 3)
    <2>1. B((p + 3) + 1) /\ L((p + 3) + 1) = A(L(p + 3), s[4]) /\ N((p + 3) + 1) = N(p + 3)
      BY <1>3, <1>4, <1>5, <1>8
    <2> QED
      BY <1>4, <2>1
  <1>10. B(p + 5) /\ L(p + 5) = A(L(p + 4), s[5]) /\ N(p + 5) = N(p + 4)
    <2>1. B((p + 4) + 1) /\ L((p + 4) + 1) = A(L(p + 4), s[5]) /\ N((p + 4) + 1) = N(p + 4)
      BY <1>3, <1>4, <1>5, <1>9
    <2> QED
      BY <1>4, <2>1
  <1>11. L(p + 5) = A(A(A(A(A(L(p), s[1]), s[2]), s[3]), s[4]), s[5])
    <2> HIDE DEF A, L
    <2> QED
      BY <1>6, <1>7, <1>8, <1>9, <1>10
  <1> QED
    BY <1>6, <1>7, <1>8, <1>9, <1>10, <1>11 DEF AddText, s

-----------------------------------------------------------------------------
(* What the line of a header says, and what a longer one does not.         *)

\* A line that begins with two given symbols.
LEMMA BeginsWith ==
    ASSUME NEW S, NEW l \in Seq(S), Len(l) >= 2, NEW a, NEW b
    PROVE  IsPrefix(<<a, b>>, l) <=> l[1] = a /\ l[2] = b
  <1> DEFINE w == <<a, b>>
             U == S \cup {a, b}
             h == SubSeq(l, 1, 2)
  <1>1. Len(w) = 2 /\ w[1] = a /\ w[2] = b /\ w \in Seq(U)
    <2>1. Len(w) = 2 /\ w[1] = a /\ w[2] = b
      OBVIOUS
    <2>2. w \in Seq(U)
      OBVIOUS
    <2> QED
      BY <2>1, <2>2
  <1>2. l \in Seq(U)
    BY SeqMonotonic
  <1>3. Len(l) \in Nat
    OBVIOUS
  <1> HIDE DEF w, U
  <1>4. h \in Seq(U) /\ Len(h) = 2 /\ \A i \in 1 .. 2 : h[i] = l[i]
    BY <1>2, <1>3, HeadOf
  <1>5. SubSeq(w, 1, Len(w)) = w
    BY <1>1, SubSeqFull
  <1>6. IsPrefix(w, l) <=> w = h
    BY <1>1, <1>3, <1>5 DEF IsPrefix
  <1> HIDE DEF h
  <1>7. w = h <=> w[1] = l[1] /\ w[2] = l[2]
    <2>1. h[1] = l[1] /\ h[2] = l[2]
      BY <1>4
    <2>2. w[1] = l[1] /\ w[2] = l[2] => \A i \in 1 .. Len(w) : w[i] = h[i]
      <3>1. \A i \in 1 .. 2 : i = 1 \/ i = 2
        OBVIOUS
      <3> QED
        BY <1>1, <2>1, <3>1
    <2> QED
      BY <1>1, <1>4, <2>1, <2>2, SeqEqual
  <1> QED
    BY <1>1, <1>6, <1>7 DEF w

\* What a line says.
Named(l, name) == Len(l) > 2 /\ IsPrefix(<<name, ":">>, l)
ValueOf(l) == SubSeq(l, 3, Len(l))
ChunkedIn(v) == \E w \in Words(v) : IsPrefix(w, ChunkedWord)

\* What comes after the name and the colon.
LEMMA ValueIs ==
    ASSUME NEW l \in Seq(Symbols), Len(l) >= 2
    PROVE  /\ ValueOf(l) \in Seq(Symbols) /\ Len(ValueOf(l)) = Len(l) - 2
           /\ \A i \in 1 .. Len(l) - 2 : ValueOf(l)[i] = l[i + 2]
  <1> DEFINE v == SubSeq(l, 3, Len(l))
  <1>1. Len(l) \in Nat
    OBVIOUS
  <1>2. /\ v \in Seq(Symbols)
        /\ Len(v) = IF 3 <= Len(l) THEN Len(l) - 3 + 1 ELSE 0
        /\ \A i \in 1 .. Len(l) - 3 + 1 : v[i] = l[3 + i - 1]
    <2>1. \A i \in 3 .. Len(l) : l[i] \in Symbols
      BY <1>1
    <2> QED
      BY <1>1, <2>1, SubSeqProperties
  <1>3. ValueOf(l) = v
    BY DEF ValueOf
  <1> HIDE DEF v
  <1>4. Len(v) = Len(l) - 2
    <2> DEFINE n == Len(l)
    <2>1. n \in Nat /\ n >= 2 /\ Len(v) = IF 3 <= n THEN n - 3 + 1 ELSE 0
      BY <1>1, <1>2
    <2> HIDE DEF n
    <2>2. Len(v) = n - 2
      BY <2>1
    <2> QED
      BY <2>2 DEF n
  <1>5. \A i \in 1 .. Len(l) - 2 : i \in 1 .. Len(l) - 3 + 1 /\ 3 + i - 1 = i + 2
    BY <1>1
  <1>6. \A i \in 1 .. Len(l) - 2 : v[i] = l[i + 2]
    BY <1>2, <1>5
  <1> QED
    BY <1>2, <1>3, <1>4, <1>6

\* A value without semicolons is one word.
LEMMA OneWord ==
    ASSUME NEW v \in Seq(Symbols), Len(v) >= 1, Plain(v)
    PROVE  Words(v) = {v} /\ LastWord(v) = Wish(v)
  <1>1. Len(v) \in Nat /\ DOMAIN v = 1 .. Len(v)
    OBVIOUS
  <1>2. \A i \in DOMAIN v : v[i] # "SC"
    BY <1>1 DEF Plain
  <1>3. Last(v) # "SC"
    BY <1>1, <1>2 DEF Last
  <1>4. WordStarts(v) = {1}
    <2>1. \A a \in DOMAIN v : a # 1 => a - 1 \in DOMAIN v
      BY <1>1
    <2>2. \A a \in WordStarts(v) : a = 1
      BY <1>2, <2>1 DEF WordStarts
    <2>3. 1 \in WordStarts(v)
      BY <1>1, <1>2 DEF WordStarts
    <2> QED
      BY <2>2, <2>3
  <1>5. Word(v, 1) = v
    <2>1. {e \in 1 .. Len(v) : v[e] = "SC"} = {}
      BY <1>1, <1>2
    <2>2. Word(v, 1) = SubSeq(v, 1, Min({Len(v)}))
      BY <2>1 DEF Word
    <2> DEFINE S == {Len(v)}
    <2>3. S \subseteq Nat /\ Len(v) \in S /\ \A k \in S : Len(v) <= k
      BY <1>1
    <2> HIDE DEF S
    <2>4. Min(S) = Len(v)
      BY <2>3, MinIs
    <2> QED
      BY <2>2, <2>4, SubSeqFull DEF S
  <1>6. Words(v) = {v}
    BY <1>3, <1>4, <1>5 DEF Words
  <1>7. LastWord(v) = Wish(v)
    <2> HIDE DEF Wish
    <2>1. CASE Wish(v) = "none"
      <3>1. {a \in WordStarts(v) : Wish(Word(v, a)) # "none"} = {}
        BY <1>4, <1>5, <2>1
      <3> QED
        BY <1>3, <2>1, <3>1 DEF LastWord
    <2>2. CASE Wish(v) # "none"
      <3>1. {a \in WordStarts(v) : Wish(Word(v, a)) # "none"} = {1}
        BY <1>4, <1>5, <2>2
      <3> DEFINE S == {1}
      <3>2. S \subseteq Nat /\ 1 \in S /\ \A k \in S : k <= 1
        OBVIOUS
      <3> HIDE DEF S
      <3>3. Max(S) = 1
        BY <3>2, MaxIs
      <3>4. LastWord(v) = Wish(Word(v, Max(S)))
        BY <1>3, <3>1 DEF LastWord, S
      <3> QED
        BY <1>5, <3>3, <3>4
    <2> QED
      BY <2>1, <2>2
  <1> QED
    BY <1>6, <1>7

\* The words with a meaning, which are of two symbols.
LEMMA KnownWords ==
    /\ Wish(CloseWord) = "close" /\ Wish(KeepAliveWord) = "keep"
    /\ IsPrefix(ChunkedWord, ChunkedWord)
    /\ \A v \in Seq(Symbols) : Len(v) > 2 => Wish(v) = "none" /\ ~ IsPrefix(v, ChunkedWord)
  <1>1. Len(CloseWord) = 2 /\ Len(KeepAliveWord) = 2 /\ Len(ChunkedWord) = 2
    BY DEF CloseWord, KeepAliveWord, ChunkedWord
  <1>2. IsPrefix(CloseWord, CloseWord) /\ IsPrefix(KeepAliveWord, KeepAliveWord) /\ IsPrefix(ChunkedWord, ChunkedWord)
    BY <1>1 DEF IsPrefix
  <1>3. ~ IsPrefix(CloseWord, KeepAliveWord)
    <2>1. KeepAliveWord \in Seq({"keep-", "alive"}) /\ KeepAliveWord[1] = "keep-"
      BY DEF KeepAliveWord
    <2>2. IsPrefix(<<"clo", "se">>, KeepAliveWord) <=> KeepAliveWord[1] = "clo" /\ KeepAliveWord[2] = "se"
      BY <1>1, <2>1, BeginsWith
    <2> QED
      BY <2>1, <2>2 DEF CloseWord
  <1>4. ASSUME NEW v \in Seq(Symbols), Len(v) > 2
        PROVE  ~ IsPrefix(v, CloseWord) /\ ~ IsPrefix(v, KeepAliveWord) /\ ~ IsPrefix(v, ChunkedWord)
    <2>1. Len(v) \in Nat /\ ~ (Len(v) <= 2)
      BY <1>4
    <2> QED
      BY <1>1, <2>1 DEF IsPrefix
  <1> HIDE DEF IsPrefix
  <1>5. Wish(CloseWord) = "close" /\ Wish(KeepAliveWord) = "keep"
    BY <1>2, <1>3 DEF Wish
  <1>6. \A v \in Seq(Symbols) : Len(v) > 2 => Wish(v) = "none" /\ ~ IsPrefix(v, ChunkedWord)
    BY <1>4 DEF Wish
  <1> QED
    BY <1>2, <1>5, <1>6

\* What the line of a header says.
LEMMA KeptSays ==
    ASSUME NEW l \in Seq(Symbols), NEW h \in C!HeaderTexts, l = Kept(h)
    PROVE  /\ Named(l, "Connection") <=> h \in {"close", "keep"}
           /\ Named(l, "Transfer-Encoding") <=> h = "chunked"
           /\ h \in {"close", "keep"} => LastWord(ValueOf(l)) = h
           /\ h = "chunked" => ChunkedIn(ValueOf(l))
  <1>1. Len(l) = 4
    BY HeaderSymbolsAre
  <1>2. \A name : Named(l, name) <=> l[1] = name /\ l[2] = ":"
    BY <1>1, BeginsWith DEF Named
  <1> DEFINE v == ValueOf(l)
  <1>3. v \in Seq(Symbols) /\ Len(v) = 2 /\ v[1] = l[3] /\ v[2] = l[4]
    <2>0. Len(l) >= 2
      BY <1>1
    <2>1. v \in Seq(Symbols) /\ Len(v) = Len(l) - 2 /\ \A i \in 1 .. Len(l) - 2 : v[i] = l[i + 2]
      BY <2>0, ValueIs
    <2>2. 4 - 2 = 2 /\ 1 + 2 = 3 /\ 2 + 2 = 4 /\ 1 \in 1 .. 2 /\ 2 \in 1 .. 2
      OBVIOUS
    <2> HIDE DEF v
    <2> QED
      BY <1>1, <2>1, <2>2
  <1> HIDE DEF v
  <1>4. ASSUME NEW w, NEW a, NEW b, w = <<a, b>>, l[3] = a, l[4] = b
        PROVE  v = w
    <2> DEFINE U == Symbols \cup {a, b}
    <2>1. Len(w) = 2 /\ w[1] = a /\ w[2] = b
      BY <1>4
    <2>2. <<a, b>> \in Seq(U)
      OBVIOUS
    <2>3. v \in Seq(U)
      BY <1>3, SeqMonotonic
    <2> HIDE DEF U
    <2>4. \A i \in 1 .. 2 : i = 1 \/ i = 2
      OBVIOUS
    <2>5. \A i \in 1 .. Len(v) : v[i] = w[i]
      BY <1>3, <1>4, <2>1, <2>4
    <2>6. w \in Seq(U)
      BY <1>4, <2>2, Zenon
    <2> QED
      BY <1>3, <2>1, <2>3, <2>5, <2>6, SeqEqual
  <1>5. v[1] # "SC" /\ v[2] # "SC" => Words(v) = {v} /\ LastWord(v) = Wish(v)
    <2>1. \A i \in 1 .. 2 : i = 1 \/ i = 2
      OBVIOUS
    <2>2. v[1] # "SC" /\ v[2] # "SC" => Plain(v)
      BY <1>3, <2>1 DEF Plain
    <2>3. Len(v) >= 1
      BY <1>3
    <2> HIDE DEF Words, LastWord, Wish, Plain
    <2> QED
      BY <1>3, <2>2, <2>3, OneWord
  <1>6. h \in {"close", "keep", "chunked", "agent"}
    BY DEF C!HeaderTexts
  <1> HIDE DEF Wish, LastWord, IsPrefix
  <1>7. CASE h = "close"
    <2>1. l[1] = "Connection" /\ l[2] = ":" /\ l[3] = "clo" /\ l[4] = "se"
      BY <1>7 DEF Kept
    <2>2. v = CloseWord
      BY <1>4, <2>1 DEF CloseWord
    <2>3. LastWord(v) = "close"
      BY <1>3, <1>5, <2>1, <2>2, KnownWords
    <2> QED
      BY <1>2, <1>7, <2>1, <2>3 DEF v
  <1>8. CASE h = "keep"
    <2>1. l[1] = "Connection" /\ l[2] = ":" /\ l[3] = "keep-" /\ l[4] = "alive"
      BY <1>8 DEF Kept
    <2>2. v = KeepAliveWord
      BY <1>4, <2>1 DEF KeepAliveWord
    <2>3. LastWord(v) = "keep"
      BY <1>3, <1>5, <2>1, <2>2, KnownWords
    <2> QED
      BY <1>2, <1>8, <2>1, <2>3 DEF v
  <1>9. CASE h = "chunked"
    <2>1. l[1] = "Transfer-Encoding" /\ l[2] = ":" /\ l[3] = "chunk" /\ l[4] = "ed"
      BY <1>9 DEF Kept
    <2>2. v = ChunkedWord
      BY <1>4, <2>1 DEF ChunkedWord
    <2>3. ChunkedIn(v)
      BY <1>3, <1>5, <2>1, <2>2, KnownWords DEF ChunkedIn
    <2> QED
      BY <1>2, <1>9, <2>1, <2>3 DEF v
  <1>10. CASE h = "agent"
    <2>1. l[1] = "User-Agent"
      BY <1>10 DEF Kept
    <2> QED
      BY <1>2, <1>10, <2>1
  <1> QED
    BY <1>6, <1>7, <1>8, <1>9, <1>10

\* A longer line without a semicolon says nothing.
LEMMA JunkSays ==
    ASSUME NEW l \in Seq(Symbols), Junk(l)
    PROVE  LastWord(ValueOf(l)) = "none" /\ ~ ChunkedIn(ValueOf(l))
  <1> DEFINE v == ValueOf(l)
  <1>1. Len(l) \in Nat /\ Len(l) > 4 /\ Plain(l)
    BY DEF Junk
  <1>2. v \in Seq(Symbols) /\ Len(v) = Len(l) - 2 /\ \A i \in 1 .. Len(l) - 2 : v[i] = l[i + 2]
    BY <1>1, ValueIs
  <1> HIDE DEF v
  <1>3. Len(v) > 2 /\ Len(v) >= 1
    BY <1>1, <1>2
  <1>4. Plain(v)
    <2>1. \A i \in 1 .. Len(l) - 2 : i + 2 \in 1 .. Len(l)
      BY <1>1
    <2> QED
      BY <1>1, <1>2, <2>1 DEF Plain
  <1>5. Words(v) = {v} /\ LastWord(v) = Wish(v)
    BY <1>2, <1>3, <1>4, OneWord
  <1> HIDE DEF Wish, LastWord, IsPrefix
  <1>6. Wish(v) = "none" /\ ~ IsPrefix(v, ChunkedWord)
    BY <1>2, <1>3, KnownWords
  <1> QED
    BY <1>5, <1>6 DEF ChunkedIn, v

-----------------------------------------------------------------------------
(* Connection's parser, unit by unit.                                      *)

\* Connection has operators of its own for them.
LEMMA SameExtremes == \A S : C!Max(S) = Max(S) /\ C!Min(S) = Min(S)
  BY DEF Max, Min, C!Max, C!Min

\* No header is called "none" or "junk".
LEMMA NoCarryIs == C!NoCarry.h = "none" /\ "none" \notin C!HeaderTexts /\ "junk" \notin C!HeaderTexts
  BY DEF C!NoCarry, C!HeaderTexts

\* What one unit more does to Connection's carry.
LEMMA PendingNext ==
    ASSUME NEW cc, NEW u \in Seq(HeaderUnit), NEW i \in 1 .. Len(u)
    PROVE  C!Pending(cc, u, i + 1) =
               IF u[i].kind = "N" THEN C!NoCarry
               ELSE [h |-> IF C!Pending(cc, u, i) = C!NoCarry THEN u[i].h ELSE "junk", i |-> u[i].i]
  <1>1. Len(u) \in Nat /\ i + 1 # 1 /\ (i + 1) - 1 = i /\ (i + 1) - 2 = i - 1 /\ (i + 1 = 2 <=> i = 1)
    OBVIOUS
  <1> DEFINE free == IF i = 1 THEN cc = C!NoCarry ELSE u[i - 1].kind = "N"
  <1>2. C!Pending(cc, u, i + 1) =
            IF u[i].kind = "N" THEN C!NoCarry
            ELSE [h |-> IF u[i].kind = "T" /\ free THEN u[i].h ELSE "junk", i |-> u[i].i]
    <2> DEFINE k == i + 1
    <2>1. k # 1 /\ k - 1 = i /\ k - 2 = i - 1 /\ (k = 2 <=> i = 1)
      BY <1>1
    <2> HIDE DEF k
    <2>2. C!Pending(cc, u, k) =
              IF u[i].kind = "N" THEN C!NoCarry
              ELSE [h |-> IF u[i].kind = "T" /\ free THEN u[i].h ELSE "junk", i |-> u[i].i]
      BY <2>1 DEF C!Pending
    <2> QED
      BY <2>2 DEF k
  <1>3. u[i].kind = "N" \/ u[i].kind = "T"
    BY UnitIs
  <1>4. free <=> C!Pending(cc, u, i) = C!NoCarry
    <2>1. CASE i = 1
      BY <2>1 DEF C!Pending
    <2>2. CASE i # 1
      <3>1. i - 1 \in 1 .. Len(u) /\ i - 1 # i
        BY <1>1, <2>2
      <3> DEFINE x == u[i - 1]
      <3>2. x.kind = "N" \/ x.h \in C!HeaderTexts
        BY <3>1, UnitIs
      <3>3. ASSUME x.kind # "N" PROVE C!Pending(cc, u, i).h # "none"
        <4> DEFINE y == IF x.kind = "T" /\ (IF i = 2 THEN cc = C!NoCarry ELSE u[i - 2].kind = "N") THEN x.h ELSE "junk"
        <4>1. C!Pending(cc, u, i) = [h |-> y, i |-> x.i]
          BY <2>2, <3>3 DEF C!Pending
        <4>2. y # "none"
          BY <3>2, <3>3, NoCarryIs
        <4> HIDE DEF y
        <4> QED
          BY <4>1, <4>2
      <3>4. x.kind = "N" => C!Pending(cc, u, i) = C!NoCarry
        BY <2>2 DEF C!Pending
      <3> QED
        BY <2>2, <3>3, <3>4, NoCarryIs
    <2> QED
      BY <2>1, <2>2
  <1> HIDE DEF free
  <1> QED
    BY <1>2, <1>3, <1>4

\* What the units before the i-th say to the flags, as Connection has it.
Wishes(cc, u, i) == {j \in 1 .. i - 1 : u[j].kind = "N" /\ C!Pending(cc, u, j).h \in {"close", "keep"}}
Codings(cc, u, i) == {j \in 1 .. i - 1 : u[j].kind = "N" /\ C!Pending(cc, u, j).h \in {"chunked"}}
UnitsKeep(old, cc, u, i) ==
    IF Wishes(cc, u, i) = {} THEN old ELSE C!Pending(cc, u, Max(Wishes(cc, u, i))).h = "keep"
UnitsChunk(old, cc, u, i) == old \/ Codings(cc, u, i) # {}

\* What one unit more says.
LEMMA UnitsMore ==
    ASSUME NEW old, NEW cc, NEW u, NEW i \in Nat, i >= 1
    PROVE  /\ UnitsKeep(old, cc, u, i + 1) <=>
                  IF u[i].kind = "N" /\ C!Pending(cc, u, i).h \in {"close", "keep"}
                  THEN C!Pending(cc, u, i).h = "keep" ELSE UnitsKeep(old, cc, u, i)
           /\ UnitsChunk(old, cc, u, i + 1) <=>
                  UnitsChunk(old, cc, u, i) \/ (u[i].kind = "N" /\ C!Pending(cc, u, i).h = "chunked")
  <1>1. 1 .. (i + 1) - 1 = (1 .. i - 1) \cup {i}
    OBVIOUS
  <1>2. /\ Wishes(cc, u, i + 1) = Wishes(cc, u, i) \cup
               (IF u[i].kind = "N" /\ C!Pending(cc, u, i).h \in {"close", "keep"} THEN {i} ELSE {})
        /\ Codings(cc, u, i + 1) = Codings(cc, u, i) \cup
               (IF u[i].kind = "N" /\ C!Pending(cc, u, i).h = "chunked" THEN {i} ELSE {})
    BY <1>1 DEF Wishes, Codings
  <1>3. i \in Wishes(cc, u, i + 1) => Max(Wishes(cc, u, i + 1)) = i
    <2>1. Wishes(cc, u, i + 1) \subseteq Nat /\ \A j \in Wishes(cc, u, i + 1) : j <= i
      BY DEF Wishes
    <2> QED
      BY <2>1, MaxIs
  <1>4. UnitsKeep(old, cc, u, i + 1) <=>
            IF u[i].kind = "N" /\ C!Pending(cc, u, i).h \in {"close", "keep"}
            THEN C!Pending(cc, u, i).h = "keep" ELSE UnitsKeep(old, cc, u, i)
    BY <1>2, <1>3 DEF UnitsKeep
  <1>5. UnitsChunk(old, cc, u, i + 1) <=>
            UnitsChunk(old, cc, u, i) \/ (u[i].kind = "N" /\ C!Pending(cc, u, i).h = "chunked")
    BY <1>2 DEF UnitsChunk
  <1> QED
    BY <1>4, <1>5

\* What a newline more says.
LEMMA UnitsNewLine ==
    ASSUME NEW old, NEW cc, NEW u, NEW i \in Nat, i >= 1, u[i].kind = "N"
    PROVE  /\ UnitsKeep(old, cc, u, i + 1) <=>
                  IF C!Pending(cc, u, i).h \in {"close", "keep"}
                  THEN C!Pending(cc, u, i).h = "keep" ELSE UnitsKeep(old, cc, u, i)
           /\ UnitsChunk(old, cc, u, i + 1) <=>
                  UnitsChunk(old, cc, u, i) \/ C!Pending(cc, u, i).h = "chunked"
  BY UnitsMore

\* The line in the buffer is what Connection's carry stands for.
Stands(l, p) ==
    \/ p = C!NoCarry /\ l = <<>>
    \/ p.h \in C!HeaderTexts /\ l = Kept(p.h)
    \/ p.h = "junk" /\ Junk(l)

\* The line says what Connection's carry says.
LEMMA StandsIs ==
    ASSUME NEW l \in Seq(Symbols), NEW p, Stands(l, p)
    PROVE  /\ p = C!NoCarry <=> l = <<>>
           /\ p # C!NoCarry => Len(l) >= 4 /\ Plain(l)
           /\ p # C!NoCarry =>
                  /\ (Named(l, "Connection") /\ LastWord(ValueOf(l)) # "none") <=> p.h \in {"close", "keep"}
                  /\ p.h \in {"close", "keep"} => LastWord(ValueOf(l)) = p.h
                  /\ (Named(l, "Transfer-Encoding") /\ ChunkedIn(ValueOf(l))) <=> p.h = "chunked"
  <1>1. CASE p = C!NoCarry /\ l = <<>>
    BY <1>1
  <1>2. CASE p.h \in C!HeaderTexts /\ l = Kept(p.h)
    <2>1. p # C!NoCarry
      BY <1>2, NoCarryIs
    <2>2. Len(l) = 4 /\ \A i \in 1 .. 4 : l[i] # "SC"
      <3>1. LET s == HeaderSymbols(p.h)
            IN /\ Len(l) = 4 /\ \A i \in 1 .. 5 : s[i] # "SC"
               /\ \A i \in 1 .. 4 : l[i] = IF i < Space(p.h) THEN s[i] ELSE s[i + 1]
        BY <1>2, HeaderSymbolsAre
      <3>2. \A i \in 1 .. 4 : i \in 1 .. 5 /\ i + 1 \in 1 .. 5
        OBVIOUS
      <3> QED
        BY <3>1, <3>2
    <2>3. Len(l) >= 4 /\ Plain(l) /\ l # <<>>
      BY <2>2 DEF Plain
    <2>4. /\ Named(l, "Connection") <=> p.h \in {"close", "keep"}
          /\ Named(l, "Transfer-Encoding") <=> p.h = "chunked"
          /\ p.h \in {"close", "keep"} => LastWord(ValueOf(l)) = p.h
          /\ p.h = "chunked" => ChunkedIn(ValueOf(l))
      BY <1>2, KeptSays
    <2> HIDE DEF Named, LastWord, ValueOf, ChunkedIn, Plain
    <2> QED
      BY <2>1, <2>3, <2>4
  <1>3. CASE p.h = "junk" /\ Junk(l)
    <2>1. p # C!NoCarry
      BY <1>3, NoCarryIs
    <2>2. Len(l) >= 4 /\ Plain(l) /\ l # <<>>
      <3>1. Len(l) \in Nat /\ Len(l) > 4 /\ Plain(l)
        BY <1>3 DEF Junk
      <3>2. l # <<>>
        BY <3>1
      <3> QED
        BY <3>1, <3>2
    <2>3. LastWord(ValueOf(l)) = "none" /\ ~ ChunkedIn(ValueOf(l))
      BY <1>3, JunkSays
    <2> HIDE DEF Named, LastWord, ValueOf, ChunkedIn, Plain
    <2> QED
      BY <1>3, <2>1, <2>2, <2>3
  <1> QED
    BY <1>1, <1>2, <1>3 DEF Stands

-----------------------------------------------------------------------------
(* The two parsers, side by side.                                          *)

SymbolsOfEach(u) == [i \in DOMAIN u |-> UnitSymbols(u[i])]

\* Each unit has its symbols in the text.
LEMMA SymbolsOfIs ==
    ASSUME NEW u \in Seq(HeaderUnit)
    PROVE  \E at : Lies(SymbolsOfEach(u), SymbolsOf(u), at)
  <1> DEFINE s == SymbolsOfEach(u)
  <1>1. \A i \in 1 .. Len(u) : UnitSymbols(u[i]) \in Seq(UnitSymbol)
    BY UnitIs
  <1>2. s \in Seq(Seq(UnitSymbol))
    <2>1. DOMAIN u = 1 .. Len(u) /\ Len(u) \in Nat
      OBVIOUS
    <2>2. s \in [1 .. Len(u) -> Seq(UnitSymbol)]
      BY <1>1, <2>1 DEF SymbolsOfEach
    <2> HIDE DEF s
    <2> QED
      BY <2>1, <2>2
  <1>3. SymbolsOf(u) = FlattenSeq(s)
    BY DEF SymbolsOf, SymbolsOfEach
  <1> HIDE DEF s
  <1>4. \E at : Lies(s, FlattenSeq(s), at)
    BY <1>2, FlattenIs
  <1> QED
    BY <1>3, <1>4 DEF s

\* Where each unit is in the text.
LEMMA UnitAt ==
    ASSUME NEW u \in Seq(HeaderUnit), NEW t, NEW at, Lies(SymbolsOfEach(u), t, at), Len(t) \in Nat,
           NEW i \in 1 .. Len(u)
    PROVE  /\ at[i] \in Nat /\ at[i] >= 1
           /\ u[i].kind = "N" =>
                  /\ at[i + 1] = at[i] + 2 /\ at[i] + 1 <= Len(t)
                  /\ t[at[i]] = "CR" /\ t[at[i] + 1] = "LF"
           /\ u[i].kind # "N" =>
                  /\ u[i].h \in C!HeaderTexts
                  /\ at[i + 1] = at[i] + 5 /\ at[i] + 4 <= Len(t)
                  /\ \A k \in 1 .. 5 : t[at[i] + k - 1] = HeaderSymbols(u[i].h)[k]
  <1> DEFINE s == UnitSymbols(u[i])
             p == at[i]
  <1>1. Len(u) \in Nat /\ DOMAIN u = 1 .. Len(u)
    OBVIOUS
  <1>2. SymbolsOfEach(u)[i] = s /\ Len(SymbolsOfEach(u)) = Len(u)
    <2>1. SymbolsOfEach(u)[i] = s
      BY <1>1 DEF SymbolsOfEach
    <2>2. DOMAIN SymbolsOfEach(u) = 1 .. Len(u)
      BY <1>1 DEF SymbolsOfEach
    <2>3. SymbolsOfEach(u) \in Seq(Seq(UnitSymbol))
      <3>1. \A j \in 1 .. Len(u) : UnitSymbols(u[j]) \in Seq(UnitSymbol)
        BY UnitIs
      <3>2. SymbolsOfEach(u) \in [1 .. Len(u) -> Seq(UnitSymbol)]
        BY <1>1, <3>1 DEF SymbolsOfEach
      <3> QED
        BY <1>1, <3>2
    <2> QED
      BY <1>1, <2>1, <2>2, <2>3
  <1>3. /\ p \in Nat /\ at[i + 1] = p + Len(s)
        /\ \A k \in 1 .. Len(s) : p + k - 1 \in 1 .. Len(t) /\ t[p + k - 1] = s[k]
    <2>1. i \in 1 .. Len(u) + 1
      BY <1>1
    <2> HIDE DEF s
    <2> QED
      BY <1>2, <2>1 DEF Lies
  <1>4. \/ u[i].kind = "N" /\ s = <<"CR", "LF">>
        \/ u[i].kind = "T" /\ u[i].h \in C!HeaderTexts /\ s = HeaderSymbols(u[i].h)
    BY UnitIs
  <1> HIDE DEF s, p
  <1>5. CASE u[i].kind = "N"
    <2>1. Len(s) = 2 /\ s[1] = "CR" /\ s[2] = "LF"
      BY <1>4, <1>5
    <2>2. 1 \in 1 .. 2 /\ 2 \in 1 .. 2 /\ p + 1 - 1 = p /\ p + 2 - 1 = p + 1
      BY <1>3
    <2>3. p \in 1 .. Len(t) /\ t[p] = s[1] /\ p + 1 \in 1 .. Len(t) /\ t[p + 1] = s[2]
      <3>1. p + 1 - 1 \in 1 .. Len(t) /\ t[p + 1 - 1] = s[1]
        BY <1>3, <2>1, <2>2
      <3>2. p + 2 - 1 \in 1 .. Len(t) /\ t[p + 2 - 1] = s[2]
        BY <1>3, <2>1, <2>2
      <3> QED
        BY <2>2, <3>1, <3>2
    <2> QED
      BY <1>3, <1>5, <2>1, <2>3 DEF p
  <1>6. CASE u[i].kind # "N"
    <2>1. u[i].h \in C!HeaderTexts /\ s = HeaderSymbols(u[i].h) /\ Len(s) = 5
      BY <1>4, <1>6, HeaderSymbolsAre
    <2>2. 1 \in 1 .. 5 /\ 5 \in 1 .. 5 /\ p + 1 - 1 = p /\ p + 5 - 1 = p + 4
      BY <1>3
    <2>3. p \in 1 .. Len(t) /\ p + 4 \in 1 .. Len(t)
      BY <1>3, <2>1, <2>2
    <2>4. \A k \in 1 .. 5 : t[p + k - 1] = s[k]
      BY <1>3, <2>1
    <2> QED
      BY <1>3, <1>6, <2>1, <2>3, <2>4 DEF p
  <1> QED
    BY <1>5, <1>6

HasText(t, p, h) == \A k \in 1 .. 5 : t[p + k - 1] = HeaderSymbols(h)[k]

\* Where the text of a header is in the text of the call.
LEMMA TextAt ==
    ASSUME NEW u \in Seq(HeaderUnit), NEW t, NEW at, Lies(SymbolsOfEach(u), t, at), Len(t) \in Nat,
           NEW i \in 1 .. Len(u), u[i].kind # "N"
    PROVE  /\ at[i] \in Nat /\ at[i] >= 1
           /\ u[i].h \in C!HeaderTexts
           /\ at[i + 1] = at[i] + 5 /\ at[i] + 4 <= Len(t)
           /\ HasText(t, at[i], u[i].h)
  BY UnitAt DEF HasText

\* What the parser has done when it comes to the i-th unit of its text, which starts at p.
Walk(c, cc, u, p, i) ==
    /\ Begun(c, p)
    /\ Stands(Line(c, p), C!Pending(cc, u, i))
    /\ \A j \in NewLines(c) : j < p => Line(c, j) # <<>>
    /\ KeepsAlive(c, p) <=> UnitsKeep(c.keepAlive, cc, u, i)
    /\ Chunks(c, p) <=> UnitsChunk(c.chunk, cc, u, i)

\* The two parsers begin with the same.
LEMMA WalkFirst ==
    ASSUME NEW c, CallOK(c), NEW cc, Stands(c.carry, cc), NEW u
    PROVE  Walk(c, cc, u, 1, 1)
  <1>1. Begun(c, 1) /\ Line(c, 1) = c.carry
    BY LineFirst
  <1>2. {j \in NewLines(c) : j < 1} = {}
    BY DEF NewLines
  <1>3. (KeepsAlive(c, 1) <=> c.keepAlive) /\ (Chunks(c, 1) <=> c.chunk)
    <2>1. \A h : HeadersBefore(c, 1, h) = {}
      BY <1>2 DEF HeadersBefore
    <2>2. SaidBefore(c, 1) = {}
      BY <2>1 DEF SaidBefore
    <2> QED
      BY <2>1, <2>2 DEF KeepsAlive, Chunks
  <1>4. 1 .. 1 - 1 = {}
    OBVIOUS
  <1>5. Wishes(cc, u, 1) = {} /\ Codings(cc, u, 1) = {}
    BY <1>4 DEF Wishes, Codings
  <1>6. (UnitsKeep(c.keepAlive, cc, u, 1) <=> c.keepAlive) /\ (UnitsChunk(c.chunk, cc, u, 1) <=> c.chunk)
    BY <1>5 DEF UnitsKeep, UnitsChunk
  <1>7. C!Pending(cc, u, 1) = cc
    BY DEF C!Pending
  <1> QED
    BY <1>1, <1>2, <1>3, <1>6, <1>7 DEF Walk

\* A header more: both have it in the buffer.
LEMMA WalkText ==
    ASSUME NEW c, CallOK(c), NEW cc, NEW u \in Seq(HeaderUnit), NEW at,
           Lies(SymbolsOfEach(u), c.text, at), NEW i \in 1 .. Len(u),
           Walk(c, cc, u, at[i], i), u[i].kind # "N"
    PROVE  Walk(c, cc, u, at[i + 1], i + 1)
  <1> DEFINE p == at[i]
             h == u[i].h
             s == HeaderSymbols(h)
             l == Line(c, p)
             old == C!Pending(cc, u, i)
             new == C!Pending(cc, u, i + 1)
  <1>0. Len(c.text) \in Nat /\ i \in Nat /\ i >= 1
    BY DEF CallOK
  <1>1. /\ p \in Nat /\ p >= 1 /\ at[i + 1] = p + 5 /\ h \in C!HeaderTexts /\ p + 4 <= Len(c.text)
        /\ \A k \in 1 .. 5 : c.text[p + k - 1] = s[k]
    <2> DEFINE t == c.text
    <2>1. Lies(SymbolsOfEach(u), t, at) /\ Len(t) \in Nat
      BY <1>0
    <2> HIDE DEF t
    <2>2. /\ at[i] \in Nat /\ at[i] >= 1
          /\ u[i].h \in C!HeaderTexts
          /\ at[i + 1] = at[i] + 5 /\ at[i] + 4 <= Len(t)
      BY <2>1, TextAt
    <2>3. HasText(t, at[i], u[i].h)
      BY <2>1, TextAt
    <2> QED
      BY <2>2, <2>3 DEF t, HasText
  <1>2. Begun(c, p) /\ Stands(l, old)
    BY DEF Walk
  <1> HIDE DEF p
  <1>3. /\ Begun(c, p + 5) /\ Line(c, p + 5) = AddText(l, s)
        /\ {j \in NewLines(c) : j < p + 5} = {j \in NewLines(c) : j < p}
    BY <1>1, <1>2, TextMore
  <1>4. l \in Seq(Symbols) /\ Len(l) <= MAX_LENGTH_STRING - 1
    BY <1>1, <1>2, LineIs
  <1>5. \A k \in 1 .. 5 : s[k] \in Symbols
    <2>1. \A k \in 1 .. 5 : p + k - 1 \in 1 .. Len(c.text)
      BY <1>0, <1>1
    <2>2. \A j \in 1 .. Len(c.text) : c.text[j] \in Symbols
      BY DEF CallOK
    <2> HIDE DEF s
    <2> QED
      BY <1>1, <2>1, <2>2
  <1>6. /\ l = <<>> => AddText(l, s) = Kept(h)
        /\ Len(l) >= 4 /\ Plain(l) => Junk(AddText(l, s))
    BY <1>1, <1>4, <1>5, AddTextIs
  <1>7. /\ old = C!NoCarry <=> l = <<>>
        /\ old # C!NoCarry => Len(l) >= 4 /\ Plain(l)
    BY <1>2, <1>4, StandsIs
  <1>8. new.h = IF old = C!NoCarry THEN h ELSE "junk"
    <2>1. new = [h |-> IF old = C!NoCarry THEN h ELSE "junk", i |-> u[i].i]
      BY PendingNext
    <2> HIDE DEF new, old, h
    <2> QED
      BY <2>1
  <1>9. Stands(Line(c, p + 5), new)
    <2> HIDE DEF new, old, h, s, l
    <2> QED
      BY <1>1, <1>3, <1>6, <1>7, <1>8 DEF Stands
  <1>10. (KeepsAlive(c, p + 5) <=> KeepsAlive(c, p)) /\ (Chunks(c, p + 5) <=> Chunks(c, p))
    BY <1>3, SameBefore
  <1>11. /\ UnitsKeep(c.keepAlive, cc, u, i + 1) <=> UnitsKeep(c.keepAlive, cc, u, i)
         /\ UnitsChunk(c.chunk, cc, u, i + 1) <=> UnitsChunk(c.chunk, cc, u, i)
    BY <1>0, UnitsMore
  <1> QED
    BY <1>1, <1>3, <1>9, <1>10, <1>11 DEF Walk, p

\* A newline more: both have said the same, or both stop.
LEMMA WalkNewLine ==
    ASSUME NEW c, CallOK(c), NEW cc, NEW u \in Seq(HeaderUnit), NEW at,
           Lies(SymbolsOfEach(u), c.text, at), NEW i \in 1 .. Len(u),
           Walk(c, cc, u, at[i], i), u[i].kind = "N"
    PROVE  /\ at[i] \in NewLines(c) /\ (Line(c, at[i]) = <<>> <=> C!Pending(cc, u, i) = C!NoCarry)
           /\ C!Pending(cc, u, i) # C!NoCarry => Walk(c, cc, u, at[i + 1], i + 1)
  <1> DEFINE p == at[i]
             l == Line(c, p)
             old == C!Pending(cc, u, i)
  <1>0. Len(c.text) \in Nat /\ i \in Nat /\ i >= 1
    BY DEF CallOK
  <1>1. /\ p \in Nat /\ p >= 1 /\ at[i + 1] = p + 2 /\ p + 1 <= Len(c.text)
        /\ c.text[p] = "CR" /\ c.text[p + 1] = "LF"
    BY <1>0, UnitAt
  <1>2. Begun(c, p) /\ Stands(l, old)
    BY DEF Walk
  <1> HIDE DEF p
  <1>3. p \in NewLines(c)
    BY <1>0, <1>1 DEF NewLines
  <1>4. l \in Seq(Symbols)
    BY <1>1, <1>2, LineIs
  <1>5. /\ old = C!NoCarry <=> l = <<>>
        /\ old # C!NoCarry =>
               /\ (Named(l, "Connection") /\ LastWord(ValueOf(l)) # "none") <=> old.h \in {"close", "keep"}
               /\ old.h \in {"close", "keep"} => LastWord(ValueOf(l)) = old.h
               /\ (Named(l, "Transfer-Encoding") /\ ChunkedIn(ValueOf(l))) <=> old.h = "chunked"
    BY <1>2, <1>4, StandsIs
  <1>6. /\ Begun(c, p + 2) /\ Line(c, p + 2) = <<>>
        /\ {j \in NewLines(c) : j < p + 2} = {j \in NewLines(c) : j < p} \cup {p}
    BY <1>3, LineNew
  <1>7. /\ KeepsAlive(c, p + 2) <=>
               IF Names(c, p, "Connection") /\ LastWord(Value(c, p)) # "none"
               THEN LastWord(Value(c, p)) = "keep" ELSE KeepsAlive(c, p)
        /\ Chunks(c, p + 2) <=>
               \/ Chunks(c, p)
               \/ /\ Names(c, p, "Transfer-Encoding")
                  /\ \E w \in Words(Value(c, p)) : IsPrefix(w, ChunkedWord)
    BY <1>3, <1>6, MoreBefore
  <1>8. /\ \A name : Names(c, p, name) <=> Named(l, name)
        /\ Value(c, p) = ValueOf(l)
    BY DEF Names, Named, Value, ValueOf
  <1>9. /\ UnitsKeep(c.keepAlive, cc, u, i + 1) <=>
               IF old.h \in {"close", "keep"} THEN old.h = "keep" ELSE UnitsKeep(c.keepAlive, cc, u, i)
        /\ UnitsChunk(c.chunk, cc, u, i + 1) <=> UnitsChunk(c.chunk, cc, u, i) \/ old.h = "chunked"
    BY <1>0, UnitsNewLine
  <1>10. ASSUME old # C!NoCarry PROVE Walk(c, cc, u, p + 2, i + 1)
    <2>1. C!Pending(cc, u, i + 1) = C!NoCarry
      BY PendingNext
    <2>2. Stands(Line(c, p + 2), C!Pending(cc, u, i + 1))
      BY <1>6, <2>1 DEF Stands
    <2>3. /\ KeepsAlive(c, p) <=> UnitsKeep(c.keepAlive, cc, u, i)
          /\ Chunks(c, p) <=> UnitsChunk(c.chunk, cc, u, i)
          /\ \A j \in NewLines(c) : j < p => Line(c, j) # <<>>
      BY DEF Walk, p
    <2>4. \A j \in NewLines(c) : j < p + 2 => Line(c, j) # <<>>
      BY <1>5, <1>6, <1>10, <2>3
    <2> HIDE DEF l, old, Named, ValueOf, LastWord
    <2>5. KeepsAlive(c, p + 2) <=> UnitsKeep(c.keepAlive, cc, u, i + 1)
      BY <1>5, <1>7, <1>8, <1>9, <1>10, <2>3
    <2>6. Chunks(c, p + 2) <=> UnitsChunk(c.chunk, cc, u, i + 1)
      <3> HIDE DEF IsPrefix, Words
      <3> QED
        BY <1>5, <1>7, <1>8, <1>9, <1>10, <2>3 DEF ChunkedIn
    <2> QED
      BY <1>6, <2>2, <2>4, <2>5, <2>6 DEF Walk
  <1> QED
    BY <1>1, <1>3, <1>5, <1>10 DEF p

\* The parser comes to the blank line, or to the end.
LEMMA Walked ==
    ASSUME NEW c, CallOK(c), NEW cc, Stands(c.carry, cc), NEW u \in Seq(HeaderUnit), NEW at,
           Lies(SymbolsOfEach(u), c.text, at), NEW n \in 1 .. Len(u) + 1,
           \A i \in 1 .. n - 1 : u[i].kind = "N" => C!Pending(cc, u, i) # C!NoCarry
    PROVE  Walk(c, cc, u, at[n], n)
  <1> DEFINE T == {i \in 1 .. n : ~ Walk(c, cc, u, at[i], i)}
  <1>1. SUFFICES ASSUME T # {} PROVE FALSE
    <2>1. n \in 1 .. n
      OBVIOUS
    <2> QED
      BY <1>1, <2>1
  <1>2. PICK i \in T : \A k \in T : i <= k
    <2>1. T \subseteq Nat
      OBVIOUS
    <2> HIDE DEF T
    <2> QED
      BY <1>1, <2>1, LeastElement
  <1>3. i # 1
    <2>1. at[1] = 1
      BY DEF Lies
    <2> QED
      BY <1>2, <2>1, WalkFirst
  <1>4. Len(u) \in Nat /\ i \in 1 .. n
    BY <1>2
  <1> DEFINE k == i - 1
  <1>5. k \in 1 .. n /\ k \in 1 .. n - 1 /\ k \in 1 .. Len(u) /\ k + 1 = i /\ ~ (i <= k)
    BY <1>3, <1>4
  <1> HIDE DEF k
  <1>6. Walk(c, cc, u, at[k], k)
    BY <1>2, <1>5
  <1>7. Walk(c, cc, u, at[k + 1], k + 1)
    BY <1>5, <1>6, WalkText, WalkNewLine
  <1> QED
    BY <1>2, <1>5, <1>7

\* No two headers are kept as the same.
LEMMA KeptOnce ==
    ASSUME NEW g \in C!HeaderTexts, NEW h \in C!HeaderTexts, Kept(g) = Kept(h)
    PROVE  g = h
  <1> DEFINE third(x) == IF x = "close" THEN "clo" ELSE IF x = "keep" THEN "keep-"
                         ELSE IF x = "chunked" THEN "chunk" ELSE "x"
  <1>1. ASSUME NEW x \in C!HeaderTexts
        PROVE  Kept(x)[3] = third(x)
    <2>1. x \in {"close", "keep", "chunked", "agent"}
      BY DEF C!HeaderTexts
    <2>2. x = "close" => Kept(x) = <<"Connection", ":", "clo", "se">>
      BY DEF Kept
    <2>3. x = "keep" => Kept(x) = <<"Connection", ":", "keep-", "alive">>
      BY DEF Kept
    <2>4. x = "chunked" => Kept(x) = <<"Transfer-Encoding", ":", "chunk", "ed">>
      BY DEF Kept
    <2>5. x = "agent" => Kept(x) = <<"User-Agent", ":", "x", "y">>
      BY DEF Kept
    <2> QED
      BY <2>1, <2>2, <2>3, <2>4, <2>5
  <1>2. third(g) = third(h)
    BY <1>1
  <1> QED
    BY <1>2 DEF C!HeaderTexts

\* The carry of Connection is what the buffer holds.
LEMMA CarryIs ==
    ASSUME NEW l \in Seq(Symbols), NEW p, Stands(l, p)
    PROVE  Carry(l) = p.h
  <1>1. CASE p = C!NoCarry /\ l = <<>>
    BY <1>1, NoCarryIs DEF Carry
  <1>2. CASE p.h \in C!HeaderTexts /\ l = Kept(p.h)
    <2>1. l # <<>>
      <3>1. Len(l) = 4
        BY <1>2, HeaderSymbolsAre
      <3> QED
        BY <3>1
    <2>2. Carry(l) = CHOOSE h \in C!HeaderTexts : l = Kept(h)
      BY <1>2, <2>1 DEF Carry
    <2>3. \A h \in C!HeaderTexts : l = Kept(h) => h = p.h
      BY <1>2, KeptOnce
    <2> QED
      BY <1>2, <2>2, <2>3
  <1>3. CASE p.h = "junk" /\ Junk(l)
    <2>1. Len(l) \in Nat /\ Len(l) > 4
      BY <1>3 DEF Junk
    <2>2. l # <<>>
      BY <2>1
    <2>3. \A h \in C!HeaderTexts : l # Kept(h)
      BY <2>1, HeaderSymbolsAre
    <2> QED
      BY <1>3, <2>2, <2>3 DEF Carry
  <1> QED
    BY <1>1, <1>2, <1>3 DEF Stands

\* The newlines of the units that find nothing in the buffer, and where the parser of Connection
\* stops.
BlankUnits(cc, u) == {j \in 1 .. Len(u) : u[j].kind = "N" /\ C!Pending(cc, u, j) = C!NoCarry}
StopUnit(cc, u) == IF BlankUnits(cc, u) = {} THEN Len(u) + 1 ELSE Min(BlankUnits(cc, u))

\* What that parser makes of the flags k and d.
ParsedUnits(r, k, d, cc, u) ==
    /\ r.q.keepAlive \in BOOLEAN /\ r.q.chunk \in BOOLEAN /\ r.ended \in BOOLEAN
    /\ r.q.keepAlive <=> UnitsKeep(k, cc, u, StopUnit(cc, u))
    /\ r.q.chunk <=> UnitsChunk(d, cc, u, StopUnit(cc, u))
    /\ r.ended <=> BlankUnits(cc, u) # {}
    /\ r.carry = C!Pending(cc, u, StopUnit(cc, u))

\* The two flags, after a change of the record.
LEMMA FlagsSet ==
    ASSUME NEW k, NEW d, NEW none, NEW keep, NEW code, NEW appl
    PROVE  LET f == [[keepAlive |-> k, chunk |-> d, applied |-> none]
                         EXCEPT !.keepAlive = keep, !.chunk = code, !.applied = appl]
           IN f.keepAlive = keep /\ f.chunk = code
  OBVIOUS

\* Connection's parser, in terms of the units before the one where it stops.
LEMMA ParseIs ==
    ASSUME NEW k \in BOOLEAN, NEW d \in BOOLEAN, NEW cc, NEW u \in Seq(HeaderUnit)
    PROVE  ParsedUnits(C!RequestParametersParse([keepAlive |-> k, chunk |-> d, applied |-> {}], cc, u),
                       k, d, cc, u)
  <1> DEFINE q     == [keepAlive |-> k, chunk |-> d, applied |-> {}]
             stop  == StopUnit(cc, u)
             keep  == IF Wishes(cc, u, stop) = {} THEN q.keepAlive
                      ELSE C!Pending(cc, u, Max(Wishes(cc, u, stop))).h = "keep"
             code  == q.chunk \/ Codings(cc, u, stop) # {}
             says(H) == {j \in 1 .. stop - 1 : u[j].kind = "N" /\ C!Pending(cc, u, j).h \in H}
             appl  == q.applied \cup {C!Pending(cc, u, j).i : j \in says({"close", "keep", "chunked"})}
             parsed == C!RequestParametersParse(q, cc, u)
  <1>1. DOMAIN u = 1 .. Len(u)
    OBVIOUS
  <1>2. parsed = [q |-> [q EXCEPT !.keepAlive = keep, !.chunk = code, !.applied = appl],
                  carry |-> C!Pending(cc, u, stop), ended |-> BlankUnits(cc, u) # {}]
    <2> HIDE DEF q
    <2> QED
      BY <1>1, SameExtremes, Zenon
      DEF C!RequestParametersParse, Wishes, Codings, BlankUnits, StopUnit
  <1>3. q.keepAlive = k /\ q.chunk = d
    OBVIOUS
  <1>4. keep \in BOOLEAN /\ code \in BOOLEAN
    <2> HIDE DEF q
    <2> QED
      BY <1>3, Zenon
  <1>5. LET f == [q EXCEPT !.keepAlive = keep, !.chunk = code, !.applied = appl]
        IN f.keepAlive = keep /\ f.chunk = code
    <2> HIDE DEF keep, code, appl
    <2> QED
      BY FlagsSet
  <1>6. (keep <=> UnitsKeep(k, cc, u, stop)) /\ (code <=> UnitsChunk(d, cc, u, stop))
    BY <1>3 DEF UnitsKeep, UnitsChunk
  <1> HIDE DEF keep, code, appl, q, parsed
  <1>7. /\ parsed.carry = C!Pending(cc, u, stop)
        /\ parsed.ended = (BlankUnits(cc, u) # {})
    BY <1>2
  <1>8. parsed.q.keepAlive = keep /\ parsed.q.chunk = code
    BY <1>2, <1>5
  <1>9. ParsedUnits(parsed, k, d, cc, u)
    BY <1>4, <1>6, <1>7, <1>8 DEF ParsedUnits
  <1> QED
    BY <1>9 DEF parsed, q

\* The two parsers stop at the same place, with the same said and kept.
LEMMA AgreesInState ==
    ASSUME LinesInv
    PROVE  AgreesWithConnection
  <1> DEFINE cc == [h |-> Carry(call.carry), i |-> IF call.carry = <<>> THEN 0 ELSE 1]
             q  == [keepAlive |-> call.keepAlive, chunk |-> call.chunk, applied |-> {}]
  <1> SUFFICES ASSUME Returned, Carry(call.carry) # "junk",
                      NEW u \in UnitTexts, SymbolsOf(u) = call.text
               PROVE  LET p == C!RequestParametersParse(q, cc, u)
                      IN /\ keepAlive = p.q.keepAlive
                         /\ chunk = p.q.chunk
                         /\ ended = p.ended
                         /\ Carry(Stored(0, ParseBuff_ptr)) = p.carry.h
    BY DEF AgreesWithConnection
  <1> DEFINE blank == BlankUnits(cc, u)
             n == StopUnit(cc, u)
             parsed == C!RequestParametersParse(q, cc, u)
  <1>1. /\ CallOK(call) /\ keepAlive \in BOOLEAN /\ chunk \in BOOLEAN /\ ended \in BOOLEAN
        /\ call.keepAlive \in BOOLEAN /\ call.chunk \in BOOLEAN /\ ParsedAsLines
    BY DEF LinesInv, LinesType
  <1>2. u \in Seq(HeaderUnit) /\ Len(u) \in Nat
    BY UnitsAssumption
  <1>3. Stands(call.carry, cc)
    <2>1. CASE call.carry = <<>>
      <3>1. Carry(call.carry) = "none"
        BY <2>1 DEF Carry
      <3>2. cc = C!NoCarry
        BY <2>1, <3>1 DEF C!NoCarry
      <3> QED
        BY <2>1, <3>2 DEF Stands
    <2>2. CASE call.carry # <<>>
      <3>1. \E h \in C!HeaderTexts : call.carry = Kept(h)
        BY <2>2 DEF Carry
      <3>2. Carry(call.carry) = CHOOSE h \in C!HeaderTexts : call.carry = Kept(h)
        BY <2>2, <3>1 DEF Carry
      <3>3. Carry(call.carry) \in C!HeaderTexts /\ call.carry = Kept(Carry(call.carry))
        BY <3>1, <3>2
      <3>4. cc.h = Carry(call.carry)
        OBVIOUS
      <3> HIDE DEF cc
      <3> QED
        BY <3>3, <3>4 DEF Stands
    <2> QED
      BY <2>1, <2>2
  <1>4. PICK at : Lies(SymbolsOfEach(u), call.text, at)
    BY <1>2, SymbolsOfIs
  <1>5. ParsedUnits(parsed, call.keepAlive, call.chunk, cc, u)
    <2> HIDE DEF cc
    <2> QED
      BY <1>1, <1>2, ParseIs
  <1>6. /\ parsed.q.keepAlive \in BOOLEAN /\ parsed.q.chunk \in BOOLEAN /\ parsed.ended \in BOOLEAN
        /\ parsed.q.keepAlive <=> UnitsKeep(call.keepAlive, cc, u, n)
        /\ parsed.q.chunk <=> UnitsChunk(call.chunk, cc, u, n)
        /\ parsed.ended <=> blank # {}
        /\ parsed.carry = C!Pending(cc, u, n)
    <2> HIDE DEF cc, q, parsed
    <2> QED
      BY <1>5, Zenon DEF ParsedUnits
  <1> HIDE DEF cc, q, parsed
  <1>7. /\ n \in 1 .. Len(u) + 1
        /\ \A i \in 1 .. n - 1 : i \in 1 .. Len(u) /\ i \notin blank
        /\ blank = {} => n = Len(u) + 1
        /\ blank # {} => n \in blank
    <2>1. CASE blank = {}
      BY <1>2, <2>1 DEF StopUnit
    <2>2. CASE blank # {}
      <3>1. blank \subseteq Nat
        BY DEF BlankUnits
      <3>2. n \in blank /\ \A k \in blank : n <= k
        <4>1. n = Min(blank)
          BY <2>2 DEF StopUnit
        <4> HIDE DEF blank, n
        <4> QED
          BY <2>2, <3>1, <4>1, LeastElement
      <3>3. blank \subseteq 1 .. Len(u)
        BY DEF BlankUnits
      <3> HIDE DEF blank, n
      <3> QED
        BY <1>2, <2>2, <3>2, <3>3
    <2> QED
      BY <2>1, <2>2
  <1>8. \A i \in 1 .. n - 1 : u[i].kind = "N" => C!Pending(cc, u, i) # C!NoCarry
    BY <1>7 DEF BlankUnits
  <1>9. n \in blank => n \in 1 .. Len(u) /\ u[n].kind = "N" /\ C!Pending(cc, u, n) = C!NoCarry
    BY DEF BlankUnits
  <1> HIDE DEF n, blank
  <1> DEFINE p == at[n]
  <1>10. Walk(call, cc, u, p, n)
    BY <1>1, <1>2, <1>3, <1>4, <1>7, <1>8, Walked
  <1>11. Len(call.text) \in Nat /\ Len(SymbolsOfEach(u)) = Len(u)
    <2>1. DOMAIN SymbolsOfEach(u) = 1 .. Len(u)
      BY <1>2 DEF SymbolsOfEach
    <2>2. SymbolsOfEach(u) \in Seq({UnitSymbols(u[i]) : i \in 1 .. Len(u)})
      BY <1>2 DEF SymbolsOfEach
    <2> QED
      BY <1>1, <1>2, <2>1, <2>2 DEF CallOK
  <1>12. /\ p \in Nat /\ p <= Len(call.text) + 1
         /\ blank = {} => p = Len(call.text) + 1
         /\ blank # {} => p \in NewLines(call) /\ Line(call, p) = <<>>
    <2>1. CASE blank = {}
      <3>1. p = Len(call.text) + 1
        BY <1>4, <1>7, <1>11, <2>1 DEF Lies
      <3> QED
        BY <1>11, <2>1, <3>1
    <2>2. CASE blank # {}
      <3>1. p \in NewLines(call) /\ Line(call, p) = <<>>
        BY <1>1, <1>2, <1>4, <1>7, <1>9, <1>10, <2>2, WalkNewLine
      <3>2. p \in Nat /\ p <= Len(call.text) + 1
        BY <1>11, <3>1 DEF NewLines
      <3> QED
        BY <2>2, <3>1, <3>2
    <2> QED
      BY <2>1, <2>2
  <1> HIDE DEF p
  <1>13. Stop(call) = p /\ (Blank(call) # {} <=> p \in NewLines(call))
    <2>1. \A j \in NewLines(call) : j < p => Line(call, j) # <<>>
      BY <1>10 DEF Walk
    <2> QED
      BY <1>1, <1>12, <2>1, StopIs
  <1>14. blank = {} => p \notin NewLines(call)
    BY <1>11, <1>12 DEF NewLines
  <1>15. /\ keepAlive <=> KeepsAlive(call, p)
         /\ chunk <=> Chunks(call, p)
         /\ ended <=> Blank(call) # {}
         /\ Stored(0, ParseBuff_ptr) = Line(call, p)
    <2> HIDE DEF Says, Headers, Stop, Blank, Value, Words, LastWord, IsPrefix, Stored, Returned
    <2> QED
      BY <1>1, <1>13, SaidAtStop DEF ParsedAsLines
  <1>16. keepAlive = parsed.q.keepAlive /\ chunk = parsed.q.chunk
    <2>1. /\ KeepsAlive(call, p) <=> UnitsKeep(call.keepAlive, cc, u, n)
          /\ Chunks(call, p) <=> UnitsChunk(call.chunk, cc, u, n)
      BY <1>10 DEF Walk
    <2> QED
      BY <1>1, <1>6, <1>15, <2>1
  <1>17. ended = parsed.ended
    BY <1>1, <1>6, <1>12, <1>13, <1>14, <1>15
  <1>18. Carry(Stored(0, ParseBuff_ptr)) = parsed.carry.h
    <2>1. Begun(call, p) /\ Stands(Line(call, p), C!Pending(cc, u, n))
      BY <1>10 DEF Walk
    <2>2. Line(call, p) \in Seq(Symbols)
      BY <1>1, <1>12, <2>1, LineIs
    <2> QED
      BY <1>6, <1>15, <2>1, <2>2, CarryIs
  <1> QED
    BY <1>16, <1>17, <1>18 DEF parsed

\* Connection's parser, which knows headers only as wholes, is right about every text that
\* consists of whole units: the loop of requestParametersParse ends with the same.
THEOREM AgreesOnUnits == Spec => []AgreesWithConnection
  <1>1. LinesInv => AgreesWithConnection
    BY AgreesInState
  <1> QED
    BY <1>1, LinesInductive, PTL
===============================================================================
