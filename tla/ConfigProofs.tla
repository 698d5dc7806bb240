----------------------------- MODULE ConfigProofs -----------------------------
(***************************************************************************)
(* What the server takes from config.txt is what the file says, whatever   *)
(* the texts, the interfaces and the size of the line buffer.              *)
(***************************************************************************)
EXTENDS Config, WellFoundedInduction, TLAPS

-----------------------------------------------------------------------------
(* Minima: Min of FiniteSetsExt is a CHOOSE, and the naturals are well     *)
(* ordered.                                                                *)

Less == {ss \in Nat \X Nat : ss[1] < ss[2]}

LEMMA LessIsWellFounded == IsWellFoundedOn(Less, Nat)
  BY NatLessThanWellFounded DEF OpToRel, Less

\* A set of naturals that is not empty has a least element, and Min names it.
LEMMA LeastElement ==
    ASSUME NEW S, S \subseteq Nat, S # {}
    PROVE  Min(S) \in S /\ \A k \in S : Min(S) <= k
  <1>1. \E m \in S : \A k \in S : ~ (<<k, m>> \in Less)
    BY LessIsWellFounded, WFMin
  <1>2. \A m \in S, k \in S : ~ (<<k, m>> \in Less) => m <= k
    BY DEF Less
  <1>3. \E m \in S : \A k \in S : m <= k
    BY <1>1, <1>2
  <1> QED
    BY <1>3 DEF Min

\* What is below all of a set and in it is its Min.
LEMMA MinIs ==
    ASSUME NEW S, S \subseteq Nat, NEW m \in S, \A k \in S : m <= k
    PROVE  Min(S) = m
  <1>1. Min(S) \in S /\ \A k \in S : Min(S) <= k
    BY LeastElement
  <1>2. Min(S) <= m /\ m <= Min(S) /\ Min(S) \in Nat /\ m \in Nat
    BY <1>1
  <1> HIDE DEF Min
  <1> QED
    BY <1>2

LEMMA MaxIs ==
    ASSUME NEW S, S \subseteq Nat, NEW m \in S, \A k \in S : k <= m
    PROVE  Max(S) = m
  <1>1. \A x \in S : (\A k \in S : k <= x) => x = m
    OBVIOUS
  <1>2. \A x \in S : (\A k \in S : x >= k) <=> (\A k \in S : k <= x)
    OBVIOUS
  <1>3. Max(S) \in S /\ \A k \in S : Max(S) >= k
    BY <1>2 DEF Max
  <1> QED
    BY <1>1, <1>2, <1>3

-----------------------------------------------------------------------------
(* A well-formed text: the place of a key, of its word, and of the end of  *)
(* its line.                                                               *)

KeyAt(text, s, i) ==
    /\ i \in 1 .. Len(text)
    /\ \A j \in DOMAIN text : text[j] = Key[s] <=> j = i
    /\ i = 1 \/ text[i - 1] = "NL"

WordAt(text, i, j) ==
    /\ j \in i + 1 .. Len(text) - 1
    /\ \A k \in i + 1 .. j - 1 : text[k] = "SP"
    /\ text[j] \notin Blank

EndAt(text, i, j, e) ==
    /\ e \in j + 1 .. Len(text)
    /\ e <= i + MAX_LENGTH_STRING - 2
    /\ text[e] = "NL"
    /\ \A k \in j + 1 .. e - 1 : text[k] = "SP"

LEMMA KeysAreNotBlank ==
    /\ Settings = {"port", "addr", "backlog", "timeout", "folder"}
    /\ \A s \in Settings : Key[s] \notin Blank
  <1>1. Settings = {"port", "addr", "backlog", "timeout", "folder"}
    BY DEF Settings, Key
  <1>2. ASSUME NEW s \in Settings PROVE Key[s] \notin Blank
    <2>1. CASE s = "port" BY <2>1 DEF Key, Blank
    <2>2. CASE s = "addr" BY <2>2 DEF Key, Blank
    <2>3. CASE s = "backlog" BY <2>3 DEF Key, Blank
    <2>4. CASE s = "timeout" BY <2>4 DEF Key, Blank
    <2>5. CASE s = "folder" BY <2>5 DEF Key, Blank
    <2> QED BY <1>1, <2>1, <2>2, <2>3, <2>4, <2>5
  <1> QED BY <1>1, <1>2

\* In a well-formed text every key has these three places.
LEMMA Places ==
    ASSUME NEW text \in Seq(STRING), WellFormed(text), NEW s \in Settings
    PROVE  \E i, j, e \in Nat : KeyAt(text, s, i) /\ WordAt(text, i, j) /\ EndAt(text, i, j, e)
  <1>1. PICK i \in 1 .. Len(text) :
              /\ KeyAt(text, s, i)
              /\ \E j \in i + 1 .. Len(text) - 1 :
                    /\ WordAt(text, i, j)
                    /\ \E k \in j + 1 .. Len(text) : text[k] = "NL" /\ \A b \in j + 1 .. k : text[b] \in Blank
    <2>1. PICK i \in DOMAIN text :
              /\ \A j \in DOMAIN text : text[j] = Key[s] <=> j = i
              /\ i = 1 \/ text[i - 1] = "NL"
              /\ \E j \in i + 1 .. Len(text) - 1 :
                    /\ \A k \in i + 1 .. j - 1 : text[k] = "SP"
                    /\ text[j] \notin Blank
                    /\ \E k \in j + 1 .. Len(text) : text[k] = "NL" /\ \A b \in j + 1 .. k : text[b] \in Blank
      BY DEF WellFormed
    <2>2. i \in 1 .. Len(text) /\ KeyAt(text, s, i)
      BY <2>1 DEF KeyAt
    <2> QED
      BY <2>1, <2>2 DEF WordAt
  <1>2. PICK j \in i + 1 .. Len(text) - 1 :
              /\ WordAt(text, i, j)
              /\ \E k \in j + 1 .. Len(text) : text[k] = "NL" /\ \A b \in j + 1 .. k : text[b] \in Blank
    BY <1>1
  <1>3. PICK k \in j + 1 .. Len(text) : text[k] = "NL" /\ \A b \in j + 1 .. k : text[b] \in Blank
    BY <1>2
  <1> DEFINE E == {m \in i .. Len(text) : text[m] = "NL"}
             e == Min(E)
  <1>4. E \subseteq Nat /\ k \in E
    BY <1>3
  <1>5. e \in E /\ \A m \in E : e <= m
    BY <1>4, LeastElement
  <1>6. PICK n \in i .. i + MAX_LENGTH_STRING - 2 : n \in DOMAIN text /\ text[n] = "NL"
    <2>1. i \in DOMAIN text
      OBVIOUS
    <2> QED
      BY <2>1 DEF WellFormed
  <1>7. n \in E
    BY <1>6
  <1> HIDE DEF e
  <1>8. e <= n /\ e <= k /\ e \in Nat /\ text[e] = "NL" /\ e >= i
    BY <1>4, <1>5, <1>7
  <1>9. text[i] # "NL" /\ text[j] # "NL" /\ \A m \in i + 1 .. j - 1 : text[m] # "NL"
    BY <1>1, <1>2, KeysAreNotBlank DEF KeyAt, WordAt, Blank
  <1>10. e > j
    BY <1>8, <1>9
  <1>11. \A m \in j + 1 .. e - 1 : text[m] = "SP"
    <2> TAKE m \in j + 1 .. e - 1
    <2>1. text[m] \in Blank
      BY <1>3, <1>8
    <2>2. m \in i .. Len(text) /\ ~(e <= m)
      BY <1>8
    <2>3. text[m] # "NL"
      BY <2>2, <1>5
    <2> QED
      BY <2>1, <2>3 DEF Blank
  <1>12. EndAt(text, i, j, e)
    BY <1>8, <1>10, <1>11, <1>6, ConstantsAssumption DEF EndAt
  <1> QED
    BY <1>1, <1>2, <1>8, <1>12

\* Says is the word at its place.
LEMMA SaysWord ==
    ASSUME NEW text \in Seq(STRING), NEW s \in Settings, NEW i \in Nat, NEW j \in Nat,
           KeyAt(text, s, i), WordAt(text, i, j)
    PROVE  Says(text, s) = text[j] /\ j \in DOMAIN text
  <1>1. (CHOOSE k \in DOMAIN text : text[k] = Key[s]) = i
    BY DEF KeyAt
  <1> DEFINE W == {k \in DOMAIN text : k > i /\ text[k] \notin Blank}
  <1>2. W \subseteq Nat /\ j \in W
    BY DEF WordAt, KeyAt
  <1>3. \A k \in W : j <= k
    BY DEF WordAt, KeyAt, Blank
  <1>4. Min(W) = j
    BY <1>2, <1>3, MinIs
  <1>5. j \in DOMAIN text
    BY DEF WordAt, KeyAt
  <1> QED
    BY <1>1, <1>4, <1>5 DEF Says

-----------------------------------------------------------------------------
(* The two searches find what a well-formed text says.                     *)

\* getValueForKeyNumber: the first key is the only one, and the number ends before the text does.
LEMMA NumberFound ==
    ASSUME NEW text \in Seq(STRING), WellFormed(text), NEW s \in Settings
    PROVE  NumbersAt(text, Key[s]) = {IF Says(text, s) \in Numbers THEN Says(text, s) ELSE "0"}
  <1>1. PICK i \in Nat, j \in Nat, e \in Nat :
              KeyAt(text, s, i) /\ WordAt(text, i, j) /\ EndAt(text, i, j, e)
    BY Places
  <1>2. Says(text, s) = text[j]
    BY <1>1, SaysWord
  <1> DEFINE P == {k \in DOMAIN text : text[k] = Key[s]}
             W == {k \in DOMAIN text : k > Min(P) /\ text[k] \notin Blank}
  <1>3. i \in P /\ P \subseteq Nat /\ \A k \in P : i <= k
    BY <1>1 DEF KeyAt
  <1>4. Min(P) = i
    BY <1>3, MinIs
  <1>5. j \in W /\ W \subseteq Nat /\ \A k \in W : j <= k
    <2>1. W = {k \in DOMAIN text : k > i /\ text[k] \notin Blank}
      BY <1>4
    <2> HIDE DEF W, P
    <2>2. j \in DOMAIN text /\ j > i /\ text[j] \notin Blank
      BY <1>1 DEF WordAt, KeyAt
    <2>3. ASSUME NEW k \in W PROVE k \in Nat /\ j <= k
      BY <1>1, <2>1 DEF WordAt, KeyAt, Blank
    <2> QED
      BY <2>1, <2>2, <2>3
  <1>6. Min(W) = j
    BY <1>5, MinIs
  <1>7. j # Len(text)
    BY <1>1 DEF WordAt, KeyAt
  <1>8. P # {} /\ W # {}
    BY <1>3, <1>5
  <1>9. NumbersAt(text, Key[s]) =
            IF P = {} THEN {"crash", "0", "junk"}
            ELSE IF W = {} THEN {"0", "junk"}
            ELSE IF text[Min(W)] \notin Numbers THEN {"0"}
            ELSE {text[Min(W)]} \cup (IF Min(W) = Len(text) THEN {"junk"} ELSE {})
    BY DEF NumbersAt
  <1> HIDE DEF P, W
  <1> QED
    BY <1>2, <1>6, <1>7, <1>8, <1>9

\* getValueForKeyString: the line fits in the buffer, so its only word is what is left
\* between the spaces.
LEMMA StringFound ==
    ASSUME NEW text \in Seq(STRING), WellFormed(text), NEW s \in Settings
    PROVE  ValuesAt(text, Key[s]) = {Found(Says(text, s))}
  <1>1. PICK i \in Nat, j \in Nat, e \in Nat :
              KeyAt(text, s, i) /\ WordAt(text, i, j) /\ EndAt(text, i, j, e)
    BY Places
  <1>2. Says(text, s) = text[j]
    BY <1>1, SaysWord
  <1>3. i \in 1 .. Len(text) /\ j > i /\ e > j /\ e <= Len(text) /\ text[i] = Key[s]
    BY <1>1 DEF KeyAt, WordAt, EndAt
  <1> DEFINE P == {k \in Beginnings(text) : text[k] = Key[s]}
  <1>4. i \in Beginnings(text)
    <2>1. i = i + 0 * (MAX_LENGTH_STRING - 1) /\ 0 \in 0 .. Len(text) /\ i \in 1 .. i
      BY <1>3, ConstantsAssumption
    <2>2. \A m \in i .. i - 1 : text[m] # "NL"
      OBVIOUS
    <2> QED
      BY <1>1, <1>3, <2>1, <2>2 DEF Beginnings, KeyAt
  <1>5. P \subseteq Nat /\ i \in P /\ \A k \in P : i <= k
    BY <1>1, <1>3, <1>4 DEF Beginnings, KeyAt
  <1>6. Min(P) = i /\ P # {}
    BY <1>5, MinIs
  <1> DEFINE L == SubSeq(text, i, e)
  <1>7. LineFrom(text, i) = L
    <2> DEFINE E == {k \in DOMAIN text : k >= i /\ text[k] = "NL"} \cup {i + MAX_LENGTH_STRING - 2, Len(text)}
    <2>1. e \in E /\ E \subseteq Nat
      BY <1>1, <1>3, ConstantsAssumption DEF EndAt
    <2>2. ASSUME NEW k \in E PROVE e <= k
      <3>1. \A m \in i .. e - 1 : text[m] # "NL"
        BY <1>1, KeysAreNotBlank DEF KeyAt, WordAt, EndAt, Blank
      <3> QED
        BY <1>1, <1>3, <3>1 DEF EndAt
    <2>3. Min(E) = e
      BY <2>1, <2>2, MinIs
    <2> QED
      BY <2>3 DEF LineFrom
  <1>8. /\ L \in Seq(STRING) /\ Len(L) = e - i + 1
        /\ \A k \in 1 .. e - i + 1 : L[k] = text[k + i - 1]
    BY <1>3
  <1> DEFINE v == j - i + 1
  <1>9. /\ v \in 2 .. Len(L) - 1 /\ L[v] = text[j] /\ L[v] \notin Blank /\ L[1] = Key[s]
        /\ \A k \in 2 .. v - 1 : L[k] = "SP"
        /\ \A k \in v + 1 .. Len(L) : L[k] \in Blank
    BY <1>1, <1>3, <1>8 DEF WordAt, EndAt, Blank
  <1> HIDE DEF L, v
  <1>10. ValueStart(L) = v
    <2> DEFINE S == {k \in 2 .. Len(L) : L[k] # "SP"} \cup {Len(L) + 1}
    <2>1. S \subseteq Nat /\ v \in S /\ \A k \in S : v <= k
      BY <1>8, <1>9 DEF Blank
    <2> QED
      BY <2>1, MinIs DEF ValueStart
  <1>11. ValueEnd(L) = v
    <2> DEFINE S == {k \in DOMAIN L : L[k] \notin Blank}
    <2>1. S \subseteq Nat /\ v \in S /\ \A k \in S : k <= v
      BY <1>8, <1>9
    <2> QED
      BY <2>1, MaxIs DEF ValueEnd
  <1>12. Len(SubSeq(L, v, v)) = 1 /\ SubSeq(L, v, v)[1] = text[j]
    <2>1. v \in 1 .. Len(L) /\ v \in Nat /\ v + 1 - v = 1 /\ 1 + v - 1 = v
      BY <1>8, <1>9
    <2> QED
      BY <1>8, <1>9, <2>1
  <1>13. text # <<>>
    BY <1>3
  <1>14. ValuesAt(text, Key[s]) =
            LET line  == LineFrom(text, Min(P))
                value == SubSeq(line, ValueStart(line), ValueEnd(line))
            IN  IF text = <<>> THEN {NotFound, Found("junk"), Crashes}
                ELSE IF P = {} THEN {NotFound}
                ELSE IF ValueEnd(line) + 1 < ValueStart(line) THEN {Crashes}
                ELSE {Found(IF Len(value) = 1 THEN value[1] ELSE "other")}
    BY DEF ValuesAt
  <1> HIDE DEF P
  <1>15. /\ LineFrom(text, Min(P)) = L /\ v \in Nat /\ ~(v + 1 < v)
    BY <1>6, <1>7, <1>9
  <1> QED
    BY <1>2, <1>6, <1>10, <1>11, <1>12, <1>13, <1>14, <1>15

-----------------------------------------------------------------------------
(* The invariant: each setting already found is what some text said.       *)

Typed ==
    /\ file \in Files
    /\ hosts \in Interfaces
    /\ at \in Lookup
    /\ DOMAIN setting = Settings
    /\ seen \subseteq Files
    /\ torn \in BOOLEAN
    /\ opened \in [text : Files \cup {<<>>}, size : Nat, open : BOOLEAN]

Opened ==
    opened.open =>
        /\ at \in NumberLookup
        /\ opened.text \in seen \ {Absent}
        /\ torn \/ opened.size = Len(opened.text)

PortSaid == \E text \in seen : setting.port = SaysNumber(text, "port", "80")
BacklogSaid == \E text \in seen : setting.backlog = SaysNumber(text, "backlog", "5")
AddrSaid ==
    \E text \in seen :
        setting.addr = IF text # Absent /\ Says(text, "addr") \in Range(hosts)
                       THEN Says(text, "addr") ELSE INADDR_ANY
TimeoutSaid ==
    \E text \in seen :
        LET seconds == SaysNumber(text, "timeout", "10")
        IN  setting.timeout = IF seconds = "0" THEN "10" ELSE seconds
FolderSaid == \E text \in seen : setting.folder = IF text = Absent THEN "500" ELSE Says(text, "folder")

\* What bind does not take need not be what the file says.
Bindable == setting.addr \in {INADDR_ANY} \cup Range(hosts)

Defaults ==
    /\ at = "port" => setting.port = "80"
    /\ at \in {"port", "addr", "bind", "backlog"} => setting.backlog = "5"

Settled ==
    ReadFine =>
        /\ at \in {"addr", "bind", "backlog", "listen", "listening"} => PortSaid
        /\ at = "bind" /\ Bindable => AddrSaid
        /\ at \in {"backlog", "listen", "listening"} => AddrSaid
        /\ at \in {"listen", "listening"} => BacklogSaid
        /\ at \in {"folder", "serving"} => TimeoutSaid
        /\ at = "serving" => FolderSaid

IndInv == Typed /\ file \in seen /\ Opened /\ Defaults /\ Settled /\ CrashesOnlyOnBadInput

LEMMA InitHolds == Init => IndInv
  <1> SUFFICES ASSUME Init PROVE IndInv
    OBVIOUS
  <1>1. Typed
    BY KeysAreNotBlank DEF Init, Typed, Lookup, Startup, Closed
  <1> QED
    BY <1>1 DEF Init, IndInv, Opened, Defaults, Settled, CrashesOnlyOnBadInput, Closed

LEMMA Texts ==
    ASSUME IndInv
    PROVE  /\ \A text \in seen : text \in Seq(STRING) /\ text \in Files
           /\ file \in seen
           /\ ReadFine => \A text \in seen : text = Absent \/ WellFormed(text)
  BY ConstantsAssumption DEF IndInv, Typed, ReadFine, Fine

\* When every text is fine, a string is found if there is a file.
LEMMA StringOutcome ==
    ASSUME IndInv, ReadFine, NEW s \in Settings, NEW found \in GetValueForKeyString(Key[s])
    PROVE  \/ file = Absent /\ found.result = "ERROR_RUN"
           \/ file # Absent /\ found.result = "SUCCESS" /\ found.value = Says(file, s)
  <1>1. CASE file = Absent
    BY <1>1 DEF GetValueForKeyString
  <1>2. CASE file # Absent
    <2>1. WellFormed(file) /\ file \in Seq(STRING)
      BY <1>2, Texts
    <2>2. found = Found(Says(file, s))
      BY <1>2, <2>1, StringFound DEF GetValueForKeyString
    <2> QED
      BY <1>2, <2>2 DEF Found
  <1> QED
    BY <1>1, <1>2

-----------------------------------------------------------------------------
(* One lemma per action.                                                   *)

LEMMA FileMissingKeeps == IndInv /\ FileMissing => IndInv'
  <1> SUFFICES ASSUME IndInv, FileMissing PROVE IndInv'
    OBVIOUS
  <1> USE DEF FileMissing
  <1>1. Typed'
    BY DEF IndInv, Typed, NumberLookup, NextLookup, Lookup, Startup
  <1>2. (file \in seen)' /\ Opened'
    BY DEF IndInv, Opened
  <1>3. Defaults'
    BY DEF IndInv, Defaults, NumberLookup, NextLookup
  <1>4. Settled'
    <2> SUFFICES ASSUME ReadFine' PROVE
            /\ at' \in {"addr", "bind", "backlog", "listen", "listening"} => PortSaid'
            /\ (at = "bind" /\ Bindable => AddrSaid)'
            /\ at' \in {"backlog", "listen", "listening"} => AddrSaid'
            /\ at' \in {"listen", "listening"} => BacklogSaid'
            /\ at' \in {"folder", "serving"} => TimeoutSaid'
            /\ at' = "serving" => FolderSaid'
      BY DEF Settled
    <2>1. ReadFine /\ file \in seen /\ seen' = seen /\ hosts' = hosts /\ Defaults /\ Settled
      BY DEF IndInv, ReadFine
    <2>2. CASE at = "port"
      <3>1. at' = "addr" /\ setting' = setting /\ setting.port = SaysNumber(Absent, "port", "80")
        BY <2>1, <2>2 DEF NextLookup, Defaults, SaysNumber
      <3> QED
        BY <2>1, <3>1 DEF PortSaid
    <2>3. CASE at = "backlog"
      <3>1. at' = "listen" /\ setting' = setting /\ setting.backlog = SaysNumber(Absent, "backlog", "5")
        BY <2>1, <2>3 DEF NextLookup, Defaults, SaysNumber
      <3> QED
        BY <2>1, <2>3, <3>1 DEF PortSaid, AddrSaid, BacklogSaid, Settled
    <2>4. CASE at = "timeout"
      <3>1. at' = "folder" /\ setting'.timeout = "10" /\ SaysNumber(Absent, "timeout", "10") = "10"
        BY <2>1, <2>4, KeysAreNotBlank DEF NextLookup, SaysNumber, IndInv, Typed
      <3> QED
        BY <2>1, <3>1 DEF TimeoutSaid
    <2> QED
      BY <2>2, <2>3, <2>4 DEF NumberLookup
  <1>5. CrashesOnlyOnBadInput'
    BY DEF CrashesOnlyOnBadInput, NumberLookup, NextLookup
  <1> QED
    BY <1>1, <1>2, <1>3, <1>4, <1>5 DEF IndInv

\* Nothing is settled or unsettled by a step that keeps its place, its settings and the texts.
LEMMA StaysSettled ==
    ASSUME IndInv, UNCHANGED <<file, hosts, at, setting, seen, torn>>
    PROVE  (file \in seen)' /\ Defaults' /\ Settled' /\ CrashesOnlyOnBadInput'
  BY DEF IndInv, Defaults, Settled, CrashesOnlyOnBadInput, ReadFine, PortSaid, AddrSaid, BacklogSaid,
         TimeoutSaid, FolderSaid, Bindable

LEMMA OpenFileKeeps == IndInv /\ OpenFile => IndInv'
  <1> SUFFICES ASSUME IndInv, OpenFile PROVE IndInv'
    OBVIOUS
  <1>1. (file \in seen)' /\ Defaults' /\ Settled' /\ CrashesOnlyOnBadInput'
    BY StaysSettled DEF OpenFile
  <1>2. Len(file) \in Nat
    BY Texts
  <1>3. Typed'
    BY <1>2 DEF OpenFile, IndInv, Typed
  <1>4. Opened'
    BY DEF OpenFile, IndInv, Typed, Opened
  <1> QED
    BY <1>1, <1>3, <1>4 DEF IndInv

\* A crash needs a text that is not fine, or an interface without an address.
LEMMA CrashKeeps ==
    ASSUME IndInv, Crash, ~ReadFine \/ NoAddress \in Range(hosts)
    PROVE  IndInv'
  BY DEF IndInv, Crash, Typed, Opened, Defaults, Settled, CrashesOnlyOnBadInput, Lookup, Closed, ReadFine

\* fread of a whole text gives that text.
LEMMA WholeRead ==
    ASSUME NEW text \in Seq(STRING)
    PROVE  SubSeq(text, 1, Min({Len(text), Len(text)})) = text
  <1>1. Min({Len(text), Len(text)}) = Len(text)
    <2> DEFINE S == {Len(text), Len(text)}
    <2>1. S \subseteq Nat /\ Len(text) \in S /\ \A k \in S : Len(text) <= k
      OBVIOUS
    <2> HIDE DEF S
    <2>2. Min(S) = Len(text)
      BY <2>1, MinIs
    <2> QED
      BY <2>2 DEF S
  <1>2. SubSeq(text, 1, Len(text)) = text
    OBVIOUS
  <1> QED
    BY <1>1, <1>2

LEMMA ReadNumberKeeps == IndInv /\ ReadNumber => IndInv'
  <1> SUFFICES ASSUME IndInv, ReadNumber PROVE IndInv'
    OBVIOUS
  <1>1. PICK v \in NumbersAt(SubSeq(opened.text, 1, Min({opened.size, Len(opened.text)})), Key[at]) :
              IF v = "crash" THEN Crash
              ELSE /\ setting' = [setting EXCEPT ![at] = Taken(at, v)]
                   /\ at' = NextLookup(at)
                   /\ opened' = Closed
                   /\ UNCHANGED <<file, hosts, seen, torn>>
    BY DEF ReadNumber
  <1>2. at \in NumberLookup /\ at \in Settings
    BY KeysAreNotBlank DEF ReadNumber, IndInv, Opened, NumberLookup
  <1>3. ASSUME ReadFine
        PROVE  /\ opened.text \in seen /\ v # "crash"
               /\ \A default : v = SaysNumber(opened.text, at, default)
    <2>1. /\ opened.text \in seen /\ opened.text # Absent
          /\ opened.text \in Seq(STRING) /\ WellFormed(opened.text)
          /\ opened.size = Len(opened.text)
      BY <1>3, Texts DEF ReadNumber, IndInv, Opened, ReadFine, Typed
    <2>2. v \in NumbersAt(opened.text, Key[at])
      BY <1>1, <2>1, WholeRead
    <2>3. v = IF Says(opened.text, at) \in Numbers THEN Says(opened.text, at) ELSE "0"
      BY <1>2, <2>1, <2>2, NumberFound
    <2>4. v # "crash"
      BY <2>3 DEF Numbers
    <2> QED
      BY <2>1, <2>3, <2>4 DEF SaysNumber
  <1>4. CASE v = "crash"
    BY <1>1, <1>3, <1>4, CrashKeeps
  <1>5. CASE v # "crash"
    <2>1. /\ setting' = [setting EXCEPT ![at] = Taken(at, v)]
          /\ at' = NextLookup(at)
          /\ opened' = Closed
          /\ UNCHANGED <<file, hosts, seen, torn>>
      BY <1>1, <1>5
    <2>2. Typed' /\ Opened' /\ (file \in seen)'
      BY <1>2, <2>1 DEF IndInv, Typed, Opened, Closed, NumberLookup, NextLookup, Lookup, Startup
    <2>3. Defaults' /\ CrashesOnlyOnBadInput'
      BY <1>2, <2>1, KeysAreNotBlank
         DEF IndInv, Typed, Defaults, CrashesOnlyOnBadInput, NumberLookup, NextLookup
    <2>4. Settled'
      <3> SUFFICES ASSUME ReadFine' PROVE
              /\ at' \in {"addr", "bind", "backlog", "listen", "listening"} => PortSaid'
              /\ (at = "bind" /\ Bindable => AddrSaid)'
              /\ at' \in {"backlog", "listen", "listening"} => AddrSaid'
              /\ at' \in {"listen", "listening"} => BacklogSaid'
              /\ at' \in {"folder", "serving"} => TimeoutSaid'
              /\ at' = "serving" => FolderSaid'
        BY DEF Settled
      <3>1. ReadFine /\ Settled /\ DOMAIN setting = Settings
        BY <2>1 DEF ReadFine, IndInv, Typed
      <3>2. CASE at = "port"
        <4>1. at' = "addr" /\ setting'.port = v
          BY <2>1, <3>1, <3>2, KeysAreNotBlank DEF NextLookup, Taken
        <4> QED
          BY <1>3, <2>1, <3>1, <3>2, <4>1 DEF PortSaid
      <3>3. CASE at = "backlog"
        <4>1. at' = "listen" /\ setting'.backlog = v /\ setting'.port = setting.port
              /\ setting'.addr = setting.addr
          BY <2>1, <3>1, <3>3, KeysAreNotBlank DEF NextLookup, Taken
        <4> QED
          BY <1>3, <2>1, <3>1, <3>3, <4>1 DEF PortSaid, BacklogSaid, AddrSaid, Settled
      <3>4. CASE at = "timeout"
        <4>1. at' = "folder" /\ setting'.timeout = IF v = "0" THEN "10" ELSE v
          BY <2>1, <3>1, <3>4, KeysAreNotBlank DEF NextLookup, Taken
        <4> QED
          BY <1>3, <2>1, <3>1, <3>4, <4>1 DEF TimeoutSaid
      <3> QED
        BY <1>2, <3>2, <3>3, <3>4 DEF NumberLookup
    <2> QED
      BY <2>2, <2>3, <2>4 DEF IndInv
  <1> QED
    BY <1>4, <1>5

\* Only an interface without an address crashes the search, and an address it does not take
\* is none of the host's.
LEMMA CheckIsRight ==
    ASSUME IndInv, NEW ip, NEW check \in CheckExistenceSpecifiedAddr(ip),
           ip \notin Range(Failing)
    PROVE  /\ check = "crash" => NoAddress \in Range(hosts)
           /\ check \notin {"crash", "SUCCESS"} => ip \notin Range(hosts)
  <1> DEFINE match(i) == hosts[i] = ip \/ <<hosts[i], ip>> \in Extensions
             stops == {i \in DOMAIN hosts : hosts[i] = NoAddress \/ match(i)}
  <1>1. check \in IF hosts = Failing THEN {"ERROR_RUN"}
                  ELSE IF hosts = <<>> THEN {"SUCCESS", "NOT_EXIST"}
                  ELSE IF stops = {} THEN {"NOT_EXIST"}
                  ELSE IF hosts[Min(stops)] = NoAddress THEN {"crash"} ELSE {"SUCCESS"}
    BY DEF CheckExistenceSpecifiedAddr
  <1>2. hosts \in Seq(STRING)
    BY ConstantsAssumption DEF IndInv, Typed
  <1>3. stops \subseteq DOMAIN hosts /\ stops \subseteq Nat
    BY <1>2
  <1>4. CASE hosts = Failing
    BY <1>1, <1>4
  <1>5. CASE hosts = <<>>
    <2>1. Range(hosts) = {}
      BY <1>5 DEF Range
    <2> QED
      BY <1>1, <1>4, <1>5, <2>1 DEF Failing
  <1>6. CASE hosts # Failing /\ hosts # <<>> /\ stops = {}
    <2>1. ip \notin Range(hosts)
      BY <1>6 DEF Range
    <2> QED
      BY <1>1, <1>6, <2>1
  <1>7. CASE hosts # Failing /\ hosts # <<>> /\ stops # {}
    <2>1. Min(stops) \in DOMAIN hosts
      BY <1>3, <1>7, LeastElement
    <2> HIDE DEF stops
    <2>2. hosts[Min(stops)] \in Range(hosts)
      BY <2>1 DEF Range
    <2> QED
      BY <1>1, <1>7, <2>2
  <1> QED
    BY <1>4, <1>5, <1>6, <1>7

LEMMA ChooseAddressKeeps == IndInv /\ ChooseAddress => IndInv'
  <1> SUFFICES ASSUME IndInv, ChooseAddress PROVE IndInv'
    OBVIOUS
  <1> DEFINE Checks(found) == IF found.result = "SUCCESS" THEN CheckExistenceSpecifiedAddr(found.value)
                              ELSE {"not called"}
  <1>0. PICK found \in GetValueForKeyString(Key.addr) :
          \E check \in Checks(found) :
              IF "crash" \in {found.result, check} THEN Crash
              ELSE /\ setting' = [setting EXCEPT !.addr = IF check = "SUCCESS" THEN found.value ELSE INADDR_ANY]
                   /\ at' = "bind"
                   /\ UNCHANGED <<file, hosts, opened, seen, torn>>
    BY DEF ChooseAddress
  <1>1. PICK check \in Checks(found) :
              IF "crash" \in {found.result, check} THEN Crash
              ELSE /\ setting' = [setting EXCEPT !.addr = IF check = "SUCCESS" THEN found.value ELSE INADDR_ANY]
                   /\ at' = "bind"
                   /\ UNCHANGED <<file, hosts, opened, seen, torn>>
    BY <1>0
  <1>2. at = "addr" /\ "addr" \in Settings
    BY KeysAreNotBlank DEF ChooseAddress
  <1>3. ASSUME ReadFine
        PROVE  \/ file = Absent /\ check = "not called" /\ found.result = "ERROR_RUN"
               \/ /\ file # Absent /\ found.result = "SUCCESS" /\ found.value = Says(file, "addr")
                  /\ check \in CheckExistenceSpecifiedAddr(Says(file, "addr"))
                  /\ Says(file, "addr") \notin Range(Failing)
    <2>1. \/ file = Absent /\ found.result = "ERROR_RUN"
          \/ file # Absent /\ found.result = "SUCCESS" /\ found.value = Says(file, "addr")
      BY <1>2, <1>3, StringOutcome
    <2>2. ASSUME file # Absent PROVE Says(file, "addr") \notin Range(Failing)
      <3>1. file \in Seq(STRING) /\ file \in Files /\ WellFormed(file)
        BY <1>3, <2>2, Texts
      <3>2. PICK i \in Nat, j \in Nat : KeyAt(file, "addr", i) /\ WordAt(file, i, j)
        BY <1>2, <3>1, Places
      <3>3. Says(file, "addr") = file[j] /\ j \in DOMAIN file
        BY <1>2, <3>1, <3>2, SaysWord
      <3> QED
        BY <3>1, <3>3, ConstantsAssumption
    <2> QED
      BY <1>1, <2>1, <2>2
  <1>4. CASE "crash" \in {found.result, check}
    <2>1. ~ReadFine \/ NoAddress \in Range(hosts)
      BY <1>3, <1>4, CheckIsRight
    <2> QED
      BY <1>1, <1>4, <2>1, CrashKeeps
  <1>5. CASE "crash" \notin {found.result, check}
    <2>1. /\ setting' = [setting EXCEPT !.addr = IF check = "SUCCESS" THEN found.value ELSE INADDR_ANY]
          /\ at' = "bind"
          /\ UNCHANGED <<file, hosts, opened, seen, torn>>
      BY <1>1, <1>5
    <2>2. /\ setting'.addr = IF check = "SUCCESS" THEN found.value ELSE INADDR_ANY
          /\ setting'.port = setting.port /\ setting'.backlog = setting.backlog
          /\ DOMAIN setting' = Settings
      BY <1>2, <2>1, KeysAreNotBlank DEF IndInv, Typed
    <2>3. Typed' /\ Opened' /\ (file \in seen)' /\ Defaults' /\ CrashesOnlyOnBadInput'
      BY <1>2, <2>1, <2>2 DEF IndInv, Typed, Opened, Defaults, CrashesOnlyOnBadInput, NumberLookup,
                              Lookup, Startup
    <2>4. ASSUME ReadFine, Bindable' PROVE AddrSaid'
      <3>1. CASE file = Absent
        BY <1>3, <2>1, <2>2, <2>4, <3>1, Texts DEF AddrSaid
      <3>2. CASE file # Absent /\ check = "SUCCESS"
        BY <1>3, <2>1, <2>2, <2>4, <3>2, Texts DEF AddrSaid, Bindable
      <3>3. CASE file # Absent /\ check # "SUCCESS"
        <4>1. Says(file, "addr") \notin Range(hosts)
          BY <1>3, <1>5, <2>4, <3>3, CheckIsRight
        <4> QED
          BY <2>1, <2>2, <3>3, <4>1, Texts DEF AddrSaid
      <3> QED
        BY <3>1, <3>2, <3>3
    <2>5. Settled'
      BY <1>2, <2>1, <2>2, <2>4 DEF Settled, ReadFine, PortSaid, IndInv
    <2> QED
      BY <2>3, <2>5 DEF IndInv
  <1> QED
    BY <1>4, <1>5

LEMMA BindKeeps == IndInv /\ Bind => IndInv'
  <1> SUFFICES ASSUME IndInv, Bind PROVE IndInv'
    OBVIOUS
  <1>1. Typed' /\ Opened' /\ (file \in seen)' /\ Defaults' /\ CrashesOnlyOnBadInput'
    BY DEF Bind, IndInv, Typed, Opened, Defaults, CrashesOnlyOnBadInput, NumberLookup, Lookup, Startup
  <1>2. Settled'
    BY DEF Bind, IndInv, Settled, ReadFine, PortSaid, AddrSaid, Bindable
  <1> QED
    BY <1>1, <1>2 DEF IndInv

LEMMA ListenKeeps == IndInv /\ Listen => IndInv'
  BY DEF Listen, IndInv, Typed, Opened, Defaults, Settled, CrashesOnlyOnBadInput, NumberLookup, Lookup,
         Startup, ReadFine, PortSaid, AddrSaid, BacklogSaid

LEMMA BeginRequestKeeps == IndInv /\ BeginRequest => IndInv'
  BY DEF BeginRequest, IndInv, Typed, Opened, Defaults, Settled, CrashesOnlyOnBadInput, NumberLookup,
         Lookup, Startup

LEMMA GetURIKeeps == IndInv /\ GetURI => IndInv'
  <1> SUFFICES ASSUME IndInv, GetURI PROVE IndInv'
    OBVIOUS
  <1>1. PICK found \in GetValueForKeyString(Key.folder) :
              IF found.result = "crash" THEN Crash
              ELSE /\ setting' = [setting EXCEPT !.folder =
                                    IF found.result = "ERROR_RUN" THEN "500" ELSE found.value]
                   /\ at' = "serving"
                   /\ UNCHANGED <<file, hosts, opened, seen, torn>>
    BY DEF GetURI
  <1>2. at = "folder" /\ "folder" \in Settings
    BY KeysAreNotBlank DEF GetURI
  <1>3. ReadFine => \/ file = Absent /\ found.result = "ERROR_RUN"
                    \/ file # Absent /\ found.result = "SUCCESS" /\ found.value = Says(file, "folder")
    BY <1>2, StringOutcome
  <1>4. CASE found.result = "crash"
    BY <1>1, <1>3, <1>4, CrashKeeps
  <1>5. CASE found.result # "crash"
    <2>1. /\ setting' = [setting EXCEPT !.folder =
                           IF found.result = "ERROR_RUN" THEN "500" ELSE found.value]
          /\ at' = "serving"
          /\ UNCHANGED <<file, hosts, opened, seen, torn>>
      BY <1>1, <1>5
    <2>2. /\ setting'.folder = IF found.result = "ERROR_RUN" THEN "500" ELSE found.value
          /\ setting'.timeout = setting.timeout
          /\ DOMAIN setting' = Settings
      BY <1>2, <2>1, KeysAreNotBlank DEF IndInv, Typed
    <2>3. Typed' /\ Opened' /\ (file \in seen)' /\ Defaults' /\ CrashesOnlyOnBadInput'
      BY <1>2, <2>1, <2>2 DEF IndInv, Typed, Opened, Defaults, CrashesOnlyOnBadInput, NumberLookup,
                              Lookup
    <2>4. ReadFine => FolderSaid'
      BY <1>3, <2>1, <2>2, Texts DEF FolderSaid
    <2>5. Settled'
      BY <1>2, <2>1, <2>2, <2>4 DEF Settled, ReadFine, TimeoutSaid, IndInv
    <2> QED
      BY <2>3, <2>5 DEF IndInv
  <1> QED
    BY <1>4, <1>5

\* An edit adds a text: what one of them said, one of them says.
LEMMA EditFileKeeps ==
    ASSUME IndInv, NEW text \in Files, NEW inPlace \in BOOLEAN, EditFile(text, inPlace)
    PROVE  IndInv'
  <1>1. Typed' /\ (file \in seen)' /\ Defaults' /\ CrashesOnlyOnBadInput'
    BY DEF EditFile, IndInv, Typed, Defaults, CrashesOnlyOnBadInput
  <1>2. Opened'
    BY DEF EditFile, IndInv, Typed, Opened
  <1>3. ReadFine' => ReadFine
    BY DEF EditFile, ReadFine
  <1>4. /\ PortSaid => PortSaid'
        /\ BacklogSaid => BacklogSaid'
        /\ AddrSaid => AddrSaid'
        /\ TimeoutSaid => TimeoutSaid'
        /\ FolderSaid => FolderSaid'
        /\ Bindable' => Bindable
    BY DEF EditFile, PortSaid, BacklogSaid, AddrSaid, TimeoutSaid, FolderSaid, Bindable
  <1>5. Settled'
    BY <1>3, <1>4 DEF EditFile, IndInv, Settled
  <1> QED
    BY <1>1, <1>2, <1>5 DEF IndInv

-----------------------------------------------------------------------------

LEMMA NextHolds == IndInv /\ [Next]_vars => IndInv'
  <1> SUFFICES ASSUME IndInv, [Next]_vars PROVE IndInv'
    OBVIOUS
  <1>1. ASSUME UNCHANGED vars PROVE IndInv'
    BY <1>1, StaysSettled DEF vars, IndInv, Typed, Opened
  <1> QED
    BY <1>1, FileMissingKeeps, OpenFileKeeps, ReadNumberKeeps, ChooseAddressKeeps, BindKeeps,
       ListenKeeps, BeginRequestKeeps, GetURIKeeps, EditFileKeeps DEF Next

LEMMA IndInvHolds == Spec => []IndInv
  BY InitHolds, NextHolds, PTL DEF Spec

\* A server that listens has what its file says (connectToSocket).
THEOREM Listens == Spec => []ListensAsConfigured
  <1>1. IndInv => ListensAsConfigured
    BY DEF IndInv, Settled, ListensAsConfigured, PortSaid, BacklogSaid, AddrSaid
  <1> QED
    BY <1>1, IndInvHolds, PTL

\* A request is served with the time and the folder its file says (createRequestObject, getURI).
THEOREM Serves == Spec => []RequestAsConfigured
  <1>1. IndInv => RequestAsConfigured
    BY DEF IndInv, Settled, RequestAsConfigured, TimeoutSaid, FolderSaid
  <1> QED
    BY <1>1, IndInvHolds, PTL

\* Without a bad text, a torn one or an interface without an address, no lookup crashes.
THEOREM NoOtherCrash == Spec => []CrashesOnlyOnBadInput
  BY IndInvHolds, PTL DEF IndInv

===============================================================================
