--------------------------- MODULE ConnectionProofs ---------------------------
(***************************************************************************)
(* The handler of one connection, for every set of requests, however they  *)
(* are cut and joined, and whatever the client does.                       *)
(***************************************************************************)
EXTENDS Connection, WellFoundedInduction, SequenceTheorems, TLAPS

-----------------------------------------------------------------------------
(* The naturals are well ordered.                                          *)

Less == {ss \in Nat \X Nat : ss[1] < ss[2]}

LEMMA LessIsWellFounded == IsWellFoundedOn(Less, Nat)
  BY NatLessThanWellFounded DEF OpToRel, Less

\* A set of naturals that is not empty has a least element, and Min names it.
LEMMA LeastElement ==
    ASSUME NEW S, S \subseteq Nat, S # {}
    PROVE  Min(S) \in S /\ \A k \in S : Min(S) <= k
  <1>1. \E m \in S : \A k \in S : ~ (<<k, m>> \in Less)
    BY LessIsWellFounded, WFMin
  <1>2. \A m \in S, k \in S : ~ (<<k, m>> \in Less) => m <= k
    BY DEF Less
  <1>3. \E m \in S : \A k \in S : m <= k
    BY <1>1, <1>2
  <1> QED
    BY <1>3 DEF Min

-----------------------------------------------------------------------------
(* The units of a request.                                                 *)

Kind == {"M", "V", "T", "N", "B"}

\* A unit of one of the first n requests; the text of a header is one of HeaderTexts.
UnitOf(n) == [kind : Kind, i : 1 .. n, h : HeaderTexts \cup {"none"}]

\* The text of a header is in the units for it, and nowhere else.
Texted(u) == u.h # "none" <=> u.kind = "T"

LEMMA HeaderCount ==
    ASSUME NEW r \in Requests
    PROVE  r \in Request /\ r.headers \in Seq(HeaderTexts) /\ Len(r.headers) \in Nat
  BY ConstantsAssumption DEF Request

\* The places of a concatenation.
LEMMA Joined ==
    ASSUME NEW X, NEW s \in Seq(X), NEW t \in Seq(X)
    PROVE  /\ s \o t \in Seq(X)
           /\ Len(s \o t) = Len(s) + Len(t)
           /\ \A j \in 1 .. Len(s) : (s \o t)[j] = s[j]
           /\ \A j \in 1 .. Len(t) : (s \o t)[Len(s) + j] = t[j]
  OBVIOUS

InParts(U, A, H, E, B) ==
    /\ Len(U) = Len(A) + Len(H) + Len(E) + Len(B)
    /\ \A j \in 1 .. Len(A) : U[j] = A[j]
    /\ \A j \in 1 .. Len(H) : U[Len(A) + j] = H[j]
    /\ \A j \in 1 .. Len(E) : U[Len(A) + Len(H) + j] = E[j]
    /\ \A j \in 1 .. Len(B) : U[Len(A) + Len(H) + Len(E) + j] = B[j]

LEMMA FourParts ==
    ASSUME NEW X, NEW A \in Seq(X), NEW H \in Seq(X), NEW E \in Seq(X), NEW B \in Seq(X)
    PROVE  A \o H \o E \o B \in Seq(X) /\ InParts(A \o H \o E \o B, A, H, E, B)
  <1>1. /\ A \o H \in Seq(X) /\ Len(A \o H) = Len(A) + Len(H)
        /\ \A j \in 1 .. Len(A) : (A \o H)[j] = A[j]
        /\ \A j \in 1 .. Len(H) : (A \o H)[Len(A) + j] = H[j]
    BY Joined
  <1>2. PICK AH \in Seq(X) : AH = A \o H
    BY <1>1
  <1>3. /\ AH \o E \in Seq(X) /\ Len(AH \o E) = Len(AH) + Len(E)
        /\ \A j \in 1 .. Len(AH) : (AH \o E)[j] = AH[j]
        /\ \A j \in 1 .. Len(E) : (AH \o E)[Len(AH) + j] = E[j]
    BY Joined
  <1>4. PICK AHE \in Seq(X) : AHE = AH \o E
    BY <1>3
  <1>5. /\ AHE \o B \in Seq(X) /\ Len(AHE \o B) = Len(AHE) + Len(B)
        /\ \A j \in 1 .. Len(AHE) : (AHE \o B)[j] = AHE[j]
        /\ \A j \in 1 .. Len(B) : (AHE \o B)[Len(AHE) + j] = B[j]
    BY Joined
  <1>6. PICK U \in Seq(X) : U = AHE \o B
    BY <1>5
  <1>7. PICK a \in Nat, h \in Nat, e \in Nat, b \in Nat :
            a = Len(A) /\ h = Len(H) /\ e = Len(E) /\ b = Len(B)
    OBVIOUS
  <1>8. /\ Len(AH) = a + h
        /\ \A j \in 1 .. a : AH[j] = A[j]
        /\ \A j \in 1 .. h : AH[a + j] = H[j]
    BY <1>1, <1>2, <1>7
  <1>9. /\ Len(AHE) = a + h + e
        /\ \A j \in 1 .. a + h : AHE[j] = AH[j]
        /\ \A j \in 1 .. e : AHE[a + h + j] = E[j]
    BY <1>3, <1>4, <1>7, <1>8
  <1>10. /\ Len(U) = a + h + e + b
         /\ \A j \in 1 .. a + h + e : U[j] = AHE[j]
         /\ \A j \in 1 .. b : U[a + h + e + j] = B[j]
    BY <1>5, <1>6, <1>7, <1>9
  <1>11. /\ \A j \in 1 .. a : U[j] = A[j]
         /\ \A j \in 1 .. h : U[a + j] = H[j]
         /\ \A j \in 1 .. e : U[a + h + j] = E[j]
    <2>1. \A j \in 1 .. a : j \in 1 .. a + h + e /\ j \in 1 .. a + h
      OBVIOUS
    <2>2. \A j \in 1 .. h : a + j \in 1 .. a + h + e /\ a + j \in 1 .. a + h
      OBVIOUS
    <2>3. \A j \in 1 .. e : a + h + j \in 1 .. a + h + e
      OBVIOUS
    <2> QED
      BY <1>8, <1>9, <1>10, <2>1, <2>2, <2>3
  <1>12. U = A \o H \o E \o B
    BY <1>2, <1>4, <1>6
  <1> QED
    BY <1>6, <1>7, <1>10, <1>11, <1>12 DEF InParts

LEMMA UnitTyped ==
    ASSUME NEW i \in Nat \ {0}, NEW k \in Kind, NEW h \in HeaderTexts \cup {"none"}
    PROVE  Unit(k, i, h) \in UnitOf(i)
  <1>1. i \in 1 .. i
    OBVIOUS
  <1> QED
    BY <1>1 DEF Unit, UnitOf

\* The text of the j-th unit of the headers, or the end of a header.
HeaderUnit(r, i, j) == IF j % 2 = 1 THEN Unit("T", i, r.headers[(j + 1) \div 2]) ELSE Unit("N", i, "none")

LEMMA HeaderUnits ==
    ASSUME NEW r \in Requests, NEW i \in Nat \ {0}, NEW j \in 1 .. 2 * Len(r.headers)
    PROVE  HeaderUnit(r, i, j) \in UnitOf(i)
  <1>1. PICK n \in Nat : n = Len(r.headers)
    BY HeaderCount
  <1>2. CASE j % 2 = 1
    <2>1. (j + 1) \div 2 \in 1 .. n
      BY <1>1, <1>2
    <2>2. r.headers[(j + 1) \div 2] \in HeaderTexts
      BY <1>1, <2>1, HeaderCount
    <2> QED
      BY <1>2, <2>2, UnitTyped DEF Kind, HeaderUnit
  <1>3. CASE j % 2 # 1
    BY <1>3, UnitTyped DEF Kind, HeaderUnit
  <1> QED
    BY <1>2, <1>3

LEMMA UnitsAre ==
    ASSUME NEW r \in Requests, NEW i \in Nat \ {0}
    PROVE  LET U == Units(r, i)
               m == 2 * Len(r.headers)
           IN  /\ m \in Nat
               /\ U \in Seq(UnitOf(i))
               /\ Len(U) = 4 + m + (IF r.body THEN 1 ELSE 0)
               /\ U[1] = Unit("M", i, "none")
               /\ U[2] = Unit("V", i, "none")
               /\ U[3] = Unit("N", i, "none")
               /\ \A j \in 1 .. m : U[3 + j] = HeaderUnit(r, i, j)
               /\ U[4 + m] = Unit("N", i, "none")
               /\ r.body => U[5 + m] = Unit("B", i, "none")
  <1>1. PICK m \in Nat : m = 2 * Len(r.headers)
    BY HeaderCount
  <1>2. PICK X : X = UnitOf(i)
    OBVIOUS
  <1>3. Unit("M", i, "none") \in X /\ Unit("V", i, "none") \in X /\ Unit("N", i, "none") \in X /\ Unit("B", i, "none") \in X
    BY <1>2, UnitTyped DEF Kind
  <1>4. PICK A \in Seq(X) : A = <<Unit("M", i, "none"), Unit("V", i, "none"), Unit("N", i, "none")>>
    <2>1. <<Unit("M", i, "none"), Unit("V", i, "none"), Unit("N", i, "none")>> \in Seq(X)
      BY <1>3
    <2> QED
      BY <2>1
  <1>5. PICK H : H = [j \in 1 .. m |-> HeaderUnit(r, i, j)]
    OBVIOUS
  <1>6. H \in Seq(X) /\ Len(H) = m /\ \A j \in 1 .. m : H[j] = HeaderUnit(r, i, j)
    <2>1. H \in [1 .. m -> X]
      BY <1>1, <1>2, <1>5, HeaderUnits
    <2> QED
      BY <1>1, <1>5, <2>1, IsASeq
  <1>7. PICK E \in Seq(X) : E = <<Unit("N", i, "none")>>
    <2>1. <<Unit("N", i, "none")>> \in Seq(X)
      BY <1>3
    <2> QED
      BY <2>1
  <1>8. PICK B \in Seq(X) : B = IF r.body THEN <<Unit("B", i, "none")>> ELSE <<>>
    <2>1. <<Unit("B", i, "none")>> \in Seq(X) /\ <<>> \in Seq(X)
      BY <1>3
    <2> QED
      BY <2>1
  <1>9. PICK U : U = A \o H \o E \o B
    OBVIOUS
  <1>10. Units(r, i) = U
    BY <1>1, <1>4, <1>5, <1>7, <1>8, <1>9 DEF Units, HeaderUnit
  <1>11. /\ U \in Seq(X)
         /\ Len(U) = Len(A) + Len(H) + Len(E) + Len(B)
         /\ \A j \in 1 .. Len(A) : U[j] = A[j]
         /\ \A j \in 1 .. Len(H) : U[Len(A) + j] = H[j]
         /\ \A j \in 1 .. Len(E) : U[Len(A) + Len(H) + j] = E[j]
         /\ \A j \in 1 .. Len(B) : U[Len(A) + Len(H) + Len(E) + j] = B[j]
    <2>1. H \in Seq(X)
      BY <1>6
    <2>2. A \o H \o E \o B \in Seq(X) /\ InParts(A \o H \o E \o B, A, H, E, B)
      BY <2>1, FourParts
    <2> QED
      BY <1>9, <2>2 DEF InParts
  <1>12. /\ Len(A) = 3 /\ Len(E) = 1 /\ Len(B) = IF r.body THEN 1 ELSE 0
         /\ A[1] = Unit("M", i, "none") /\ A[2] = Unit("V", i, "none") /\ A[3] = Unit("N", i, "none")
         /\ E[1] = Unit("N", i, "none") /\ (r.body => B[1] = Unit("B", i, "none"))
    BY <1>4, <1>7, <1>8
  <1>13. Len(U) = 4 + m + Len(B)
    BY <1>6, <1>11, <1>12
  <1>14. U[1] = A[1] /\ U[2] = A[2] /\ U[3] = A[3]
    BY <1>11, <1>12
  <1>15. \A j \in 1 .. m : U[3 + j] = H[j]
    BY <1>6, <1>11, <1>12
  <1>16. U[4 + m] = E[1]
    <2>1. 1 \in 1 .. Len(E) /\ Len(A) + Len(H) + 1 = 4 + m
      BY <1>6, <1>12
    <2> QED
      BY <1>11, <2>1
  <1>17. r.body => U[5 + m] = B[1]
    <2>1. r.body => 1 \in 1 .. Len(B) /\ Len(A) + Len(H) + Len(E) + 1 = 5 + m
      BY <1>6, <1>12
    <2> QED
      BY <1>11, <2>1
  <1> QED
    BY <1>1, <1>2, <1>6, <1>10, <1>11, <1>12, <1>13, <1>14, <1>15, <1>16, <1>17

-----------------------------------------------------------------------------
(* What comes after what in the stream.                                    *)

\* w may follow u.
Follows(u, w) ==
    /\ u.kind = "M" => w.kind = "V"
    /\ u.kind \in {"V", "T"} => w.kind = "N"
    /\ u.kind = "N" => w.kind \in {"T", "N", "B", "M"}
    /\ u.kind = "B" => w.kind = "M"
    /\ w.i = u.i \/ (w.kind = "M" /\ u.i < w.i)
    /\ w.kind = "M" => u.i < w.i

\* Requests come one after another, a body or a further request after a blank line only.
Stream(s) ==
    /\ \A j, k \in DOMAIN s : j < k => s[j].i <= s[k].i /\ (s[k].kind = "M" => s[j].i < s[k].i)
    /\ \A j \in DOMAIN s : j + 1 \in DOMAIN s => Follows(s[j], s[j + 1])
    /\ \A j \in DOMAIN s : j + 2 \in DOMAIN s /\ s[j + 1].kind = "N" /\ s[j + 2].kind \in {"M", "B"}
                              => s[j].kind = "N"
    /\ \A j \in DOMAIN s : Texted(s[j])

\* The last request is whole, as far as it is still there.
EndsWhole(s) ==
    s # <<>> =>
        /\ s[Len(s)].kind \in {"N", "B"}
        /\ s[Len(s)].kind = "N" /\ Len(s) > 1 => s[Len(s) - 1].kind = "N"

\* The kind of the j-th unit of a request with m units in its headers.
KindAt(m, j) ==
    IF j = 1 THEN "M" ELSE IF j = 2 THEN "V"
    ELSE IF j \in 4 .. 3 + m /\ j % 2 = 0 THEN "T"
    ELSE IF j = 5 + m THEN "B" ELSE "N"

UnitAt(U, j, i, m) == U[j].i = i /\ Texted(U[j]) /\ U[j].kind = KindAt(m, j)

LEMMA KindsAre ==
    ASSUME NEW r \in Requests, NEW i \in Nat \ {0}
    PROVE  \A j \in 1 .. Len(Units(r, i)) : UnitAt(Units(r, i), j, i, 2 * Len(r.headers))
  <1>1. PICK n \in Nat : n = Len(r.headers)
    BY HeaderCount
  <1>2. PICK U : U = Units(r, i)
    OBVIOUS
  <1>3. /\ U \in Seq(UnitOf(i))
        /\ Len(U) = 4 + 2 * n + (IF r.body THEN 1 ELSE 0)
        /\ U[1] = Unit("M", i, "none")
        /\ U[2] = Unit("V", i, "none")
        /\ U[3] = Unit("N", i, "none")
        /\ \A j \in 1 .. 2 * n : U[3 + j] = HeaderUnit(r, i, j)
        /\ U[4 + 2 * n] = Unit("N", i, "none")
        /\ r.body => U[5 + 2 * n] = Unit("B", i, "none")
    BY <1>1, <1>2, UnitsAre
  <1>4. SUFFICES ASSUME NEW j \in 1 .. Len(U) PROVE UnitAt(U, j, i, 2 * n)
    BY <1>1, <1>2
  <1>5. CASE j \in 1 .. 3
    <2>1. j = 1 \/ j = 2 \/ j = 3
      BY <1>5
    <2>2. CASE j = 1
      BY <1>3, <2>2 DEF Unit, Texted, UnitAt, KindAt
    <2>3. CASE j = 2
      BY <1>3, <2>3 DEF Unit, Texted, UnitAt, KindAt
    <2>4. CASE j = 3
      BY <1>3, <2>4 DEF Unit, Texted, UnitAt, KindAt
    <2> QED
      BY <2>1, <2>2, <2>3, <2>4
  <1>6. CASE j \in 4 .. 3 + 2 * n
    <2>1. PICK k \in 1 .. 2 * n : k = j - 3 /\ j = 3 + k
      BY <1>6
    <2>2. U[j] = HeaderUnit(r, i, k)
      BY <1>3, <2>1
    <2>3. k % 2 = 1 <=> j % 2 = 0
      BY <2>1
    <2>4. CASE k % 2 = 1
      <3>1. (k + 1) \div 2 \in 1 .. n
        BY <2>4
      <3>2. r.headers[(k + 1) \div 2] \in HeaderTexts
        BY <1>1, <3>1, HeaderCount
      <3> QED
        BY <1>6, <2>2, <2>3, <2>4, <3>2 DEF HeaderUnit, Unit, Texted, HeaderTexts, UnitAt, KindAt
    <2>5. CASE k % 2 # 1
      <3>1. j # 5 + 2 * n /\ j # 1 /\ j # 2
        BY <1>6
      <3> QED
        BY <1>6, <2>2, <2>3, <2>5, <3>1 DEF HeaderUnit, Unit, Texted, UnitAt, KindAt
    <2> QED
      BY <2>4, <2>5
  <1>7. CASE j = 4 + 2 * n
    <2>1. j \notin 4 .. 3 + 2 * n /\ j # 1 /\ j # 2 /\ j # 5 + 2 * n
      BY <1>7
    <2> QED
      BY <1>3, <1>7, <2>1 DEF Unit, Texted, UnitAt, KindAt
  <1>8. CASE j = 5 + 2 * n
    <2>1. j \notin 4 .. 3 + 2 * n /\ j # 1 /\ j # 2
      BY <1>8
    <2>2. r.body
      BY <1>3, <1>8
    <2> QED
      BY <1>3, <1>8, <2>1, <2>2 DEF Unit, Texted, UnitAt, KindAt
  <1>9. j \in 1 .. 3 \/ j \in 4 .. 3 + 2 * n \/ j = 4 + 2 * n \/ j = 5 + 2 * n
    BY <1>3
  <1> QED
    BY <1>5, <1>6, <1>7, <1>8, <1>9

LEMMA UnitsStream ==
    ASSUME NEW r \in Requests, NEW i \in Nat \ {0}
    PROVE  /\ Stream(Units(r, i)) /\ EndsWhole(Units(r, i))
           /\ Units(r, i)[1].kind = "M" /\ Len(Units(r, i)) >= 4
           /\ \A j \in DOMAIN Units(r, i) : Units(r, i)[j].i = i
           /\ \A j \in DOMAIN Units(r, i) : Units(r, i)[j].kind = "M" => j = 1
  <1>1. PICK n \in Nat : n = Len(r.headers)
    BY HeaderCount
  <1>2. PICK U : U = Units(r, i)
    OBVIOUS
  <1>3. U \in Seq(UnitOf(i)) /\ Len(U) = 4 + 2 * n + (IF r.body THEN 1 ELSE 0)
    BY <1>1, <1>2, UnitsAre
  <1>4. \A j \in 1 .. Len(U) :
            /\ U[j].i = i
            /\ Texted(U[j])
            /\ U[j].kind = IF j = 1 THEN "M" ELSE IF j = 2 THEN "V"
                           ELSE IF j \in 4 .. 3 + 2 * n /\ j % 2 = 0 THEN "T"
                           ELSE IF j = 5 + 2 * n THEN "B" ELSE "N"
    <2>1. \A j \in 1 .. Len(U) : UnitAt(U, j, i, 2 * n)
      BY <1>1, <1>2, KindsAre
    <2> QED
      BY <2>1 DEF UnitAt, KindAt
  <1>5. Len(U) \in Nat /\ Len(U) >= 4 /\ Len(U) <= 5 + 2 * n
    BY <1>3
  <1>6. \A j \in 1 .. Len(U) : U[j].kind = "M" => j = 1
    BY <1>4, <1>5
  <1>7. ASSUME NEW j \in 1 .. Len(U), j + 1 \in 1 .. Len(U) PROVE Follows(U[j], U[j + 1])
    <2>1. j + 1 # 1 /\ U[j + 1].kind # "M" /\ U[j].i = U[j + 1].i
      BY <1>4, <1>6, <1>7
    <2>2. U[j].kind = "M" => U[j + 1].kind = "V"
      <3>1. U[j].kind = "M" => j = 1 /\ j + 1 = 2
        BY <1>6
      <3> QED
        BY <1>4, <1>7, <3>1
    <2>3. U[j].kind = "V" => U[j + 1].kind = "N"
      <3>1. U[j].kind = "V" => j = 2 /\ j + 1 = 3
        BY <1>4
      <3>2. 3 \notin 4 .. 3 + 2 * n /\ 3 # 5 + 2 * n
        OBVIOUS
      <3> QED
        BY <1>4, <1>7, <3>1, <3>2
    <2>4. U[j].kind = "T" => U[j + 1].kind = "N"
      <3>1. U[j].kind = "T" => j \in 4 .. 3 + 2 * n /\ j % 2 = 0
        BY <1>4
      <3>2. U[j].kind = "T" => (j + 1) % 2 # 0 /\ j + 1 # 5 + 2 * n /\ j + 1 # 2
        BY <3>1
      <3> QED
        BY <1>4, <1>7, <2>1, <3>2
    <2>5. U[j].kind = "N" => U[j + 1].kind \in {"T", "N", "B", "M"}
      <3>1. U[j].kind = "N" => j # 1
        BY <1>4
      <3> QED
        BY <1>4, <1>7, <3>1
    <2>6. U[j].kind # "B"
      <3>1. j # 5 + 2 * n
        BY <1>5, <1>7
      <3> QED
        BY <1>4, <3>1
    <2> QED
      BY <2>1, <2>2, <2>3, <2>4, <2>5, <2>6 DEF Follows
  <1>8. ASSUME NEW j \in 1 .. Len(U), j + 2 \in 1 .. Len(U), U[j + 2].kind \in {"M", "B"}
        PROVE  U[j].kind = "N"
    <2>1. j + 2 # 1
      OBVIOUS
    <2>2. U[j + 2].kind = "B"
      BY <1>6, <1>8, <2>1
    <2>3. j + 2 = 5 + 2 * n
      BY <1>4, <1>8, <2>2
    <2>4. j = 3 + 2 * n /\ j % 2 # 0
      BY <2>3
    <2> QED
      BY <1>4, <2>4
  <1>9. \A j, k \in 1 .. Len(U) : j < k => U[j].i <= U[k].i /\ (U[k].kind = "M" => U[j].i < U[k].i)
    BY <1>4, <1>6
  <1>10. Stream(U)
    BY <1>3, <1>4, <1>7, <1>8, <1>9 DEF Stream
  <1>11. U[Len(U)].kind \in {"N", "B"} /\ (U[Len(U)].kind = "N" => U[Len(U) - 1].kind = "N")
    <2>1. Len(U) = 4 + 2 * n \/ Len(U) = 5 + 2 * n
      BY <1>3
    <2>2. CASE Len(U) = 4 + 2 * n
      <3>1. Len(U) \notin 4 .. 3 + 2 * n /\ Len(U) \in 1 .. Len(U) /\ Len(U) # 1 /\ Len(U) # 2
            /\ Len(U) # 5 + 2 * n
        BY <2>2
      <3>2. Len(U) - 1 \in 1 .. Len(U) /\ Len(U) - 1 # 1 /\ Len(U) - 1 # 2 /\ Len(U) - 1 # 5 + 2 * n
            /\ (Len(U) - 1) % 2 # 0
        BY <2>2
      <3>3. U[Len(U)].kind = "N"
        BY <1>4, <3>1
      <3>4. U[Len(U) - 1].kind = "N"
        BY <1>4, <3>2
      <3> QED
        BY <3>3, <3>4
    <2>3. CASE Len(U) = 5 + 2 * n
      <3>1. Len(U) \notin 4 .. 3 + 2 * n /\ Len(U) \in 1 .. Len(U) /\ Len(U) # 1 /\ Len(U) # 2
        BY <2>3
      <3>2. U[Len(U)].kind = "B"
        BY <1>4, <2>3, <3>1
      <3> QED
        BY <3>2
    <2> QED
      BY <2>1, <2>2, <2>3
  <1>12. U[1].kind = "M"
    BY <1>4, <1>5
  <1> QED
    BY <1>2, <1>3, <1>4, <1>5, <1>6, <1>10, <1>11, <1>12 DEF EndsWhole

\* The end of a stream, and its beginning, are streams.
LEMMA StreamRest ==
    ASSUME NEW X, NEW s \in Seq(X), Stream(s), EndsWhole(s), NEW k \in 1 .. Len(s)
    PROVE  Stream(SubSeq(s, k + 1, Len(s))) /\ EndsWhole(SubSeq(s, k + 1, Len(s)))
  <1>1. PICK t : t = SubSeq(s, k + 1, Len(s))
    OBVIOUS
  <1>2. /\ t \in Seq(X) /\ Len(t) = Len(s) - k /\ Len(s) \in Nat
        /\ \A j \in 1 .. Len(s) - k : t[j] = s[k + j]
    BY <1>1
  <1>3. \A j \in 1 .. Len(t) : k + j \in 1 .. Len(s)
    BY <1>2
  <1>4. DOMAIN t = 1 .. Len(t) /\ DOMAIN s = 1 .. Len(s)
    BY <1>2
  <1>5. \A i, j \in DOMAIN t : i < j => t[i].i <= t[j].i /\ (t[j].kind = "M" => t[i].i < t[j].i)
    <2> TAKE i, j \in DOMAIN t
    <2>1. k + i \in DOMAIN s /\ k + j \in DOMAIN s /\ (i < j => k + i < k + j) /\ t[i] = s[k + i] /\ t[j] = s[k + j]
      BY <1>2, <1>3, <1>4
    <2> QED
      BY <2>1 DEF Stream
  <1>6. ASSUME NEW j \in DOMAIN t, j + 1 \in DOMAIN t PROVE Follows(t[j], t[j + 1])
    <2>1. k + j \in DOMAIN s /\ (k + j) + 1 \in DOMAIN s /\ t[j] = s[k + j] /\ t[j + 1] = s[(k + j) + 1]
      BY <1>2, <1>3, <1>4, <1>6
    <2> QED
      BY <2>1 DEF Stream
  <1>7. ASSUME NEW j \in DOMAIN t, j + 2 \in DOMAIN t, t[j + 1].kind = "N", t[j + 2].kind \in {"M", "B"}
        PROVE  t[j].kind = "N"
    <2>1. /\ k + j \in DOMAIN s /\ (k + j) + 2 \in DOMAIN s
          /\ t[j] = s[k + j] /\ t[j + 1] = s[(k + j) + 1] /\ t[j + 2] = s[(k + j) + 2]
      BY <1>2, <1>3, <1>4, <1>7
    <2> QED
      BY <1>7, <2>1 DEF Stream
  <1>8. ASSUME NEW j \in DOMAIN t PROVE Texted(t[j])
    <2>1. k + j \in DOMAIN s /\ t[j] = s[k + j]
      BY <1>2, <1>3, <1>4
    <2> QED
      BY <2>1 DEF Stream
  <1>9. Stream(t)
    BY <1>5, <1>6, <1>7, <1>8 DEF Stream
  <1>10. ASSUME t # <<>>
         PROVE  /\ t[Len(t)].kind \in {"N", "B"}
                /\ t[Len(t)].kind = "N" /\ Len(t) > 1 => t[Len(t) - 1].kind = "N"
    <2>1. Len(t) \in 1 .. Len(t) /\ k + Len(t) = Len(s) /\ s # <<>>
      BY <1>2, <1>10
    <2>2. t[Len(t)] = s[Len(s)]
      BY <1>2, <2>1
    <2>3. ASSUME Len(t) > 1 PROVE t[Len(t) - 1] = s[Len(s) - 1] /\ Len(s) > 1
      <3>1. Len(t) - 1 \in 1 .. Len(s) - k /\ k + (Len(t) - 1) = Len(s) - 1 /\ Len(s) > 1
        BY <1>2, <2>1, <2>3
      <3> QED
        BY <1>2, <3>1
    <2> QED
      BY <2>1, <2>2, <2>3 DEF EndsWhole
  <1> QED
    BY <1>1, <1>9, <1>10 DEF EndsWhole

LEMMA StreamBegins ==
    ASSUME NEW X, NEW s \in Seq(X), Stream(s), NEW k \in 0 .. Len(s)
    PROVE  Stream(SubSeq(s, 1, k))
  <1>1. PICK t : t = SubSeq(s, 1, k)
    OBVIOUS
  <1>2. /\ t \in Seq(X) /\ Len(t) = k /\ Len(s) \in Nat
        /\ \A j \in 1 .. k : t[j] = s[j]
        /\ DOMAIN t = 1 .. k /\ DOMAIN s = 1 .. Len(s)
    BY <1>1
  <1>3. \A j \in DOMAIN t : j \in DOMAIN s /\ t[j] = s[j]
    BY <1>2
  <1>4. \A j \in DOMAIN t : j + 2 \in DOMAIN t => j + 1 \in DOMAIN t
    BY <1>2
  <1> QED
    BY <1>1, <1>3, <1>4 DEF Stream

\* A further request after the last one.
LEMMA StreamJoin ==
    ASSUME NEW X, NEW s \in Seq(X), NEW u \in Seq(X), Stream(s), EndsWhole(s), Stream(u), EndsWhole(u),
           Len(u) > 1, u[1].kind = "M",
           \A j \in DOMAIN s, k \in DOMAIN u : s[j].i \in Nat /\ u[k].i \in Nat /\ s[j].i < u[k].i
    PROVE  Stream(s \o u) /\ EndsWhole(s \o u)
  <1>1. PICK t : t = s \o u
    OBVIOUS
  <1>2. PICK n \in Nat, m \in Nat : n = Len(s) /\ m = Len(u)
    OBVIOUS
  <1>3. /\ t \in Seq(X) /\ Len(t) = n + m
        /\ \A j \in 1 .. n : t[j] = s[j]
        /\ \A j \in 1 .. m : t[n + j] = u[j]
    BY <1>1, <1>2, Joined
  <1>4. DOMAIN t = 1 .. n + m /\ DOMAIN s = 1 .. n /\ DOMAIN u = 1 .. m
    BY <1>2, <1>3
  <1>5. \A j \in 1 .. n + m : \/ j \in 1 .. n /\ t[j] = s[j]
                              \/ j - n \in 1 .. m /\ t[j] = u[j - n]
    <2> TAKE j \in 1 .. n + m
    <2>1. CASE j <= n
      BY <1>3, <2>1
    <2>2. CASE j > n
      <3>1. j - n \in 1 .. m /\ n + (j - n) = j
        BY <2>2
      <3> QED
        BY <1>3, <3>1
    <2> QED
      BY <2>1, <2>2
  <1>6. ASSUME NEW j \in 1 .. n + m, NEW k \in 1 .. n + m, j < k
        PROVE  t[j].i <= t[k].i /\ (t[k].kind = "M" => t[j].i < t[k].i)
    <2>1. CASE k \in 1 .. n /\ t[k] = s[k]
      <3>1. j \in 1 .. n /\ t[j] = s[j]
        BY <1>3, <1>6, <2>1
      <3> QED
        BY <1>4, <1>6, <2>1, <3>1 DEF Stream
    <2>2. CASE k - n \in 1 .. m /\ t[k] = u[k - n]
      <3>1. CASE j \in 1 .. n /\ t[j] = s[j]
        BY <1>4, <2>2, <3>1
      <3>2. CASE j - n \in 1 .. m /\ t[j] = u[j - n]
        <4>1. j - n < k - n
          BY <1>6
        <4> QED
          BY <1>4, <2>2, <3>2, <4>1 DEF Stream
      <3> QED
        BY <1>5, <3>1, <3>2
    <2> QED
      BY <1>5, <2>1, <2>2
  <1>7. n # 0 => /\ s[n].kind \in {"N", "B"}
                 /\ s[n].kind = "N" /\ n > 1 => s[n - 1].kind = "N"
    BY <1>2 DEF EndsWhole
  <1>8. ASSUME NEW j \in 1 .. n + m, j + 1 \in 1 .. n + m PROVE Follows(t[j], t[j + 1])
    <2>1. CASE j < n
      <3>1. j \in DOMAIN s /\ j + 1 \in DOMAIN s /\ t[j] = s[j] /\ t[j + 1] = s[j + 1]
        BY <1>3, <1>4, <2>1
      <3> QED
        BY <3>1 DEF Stream
    <2>2. CASE j = n
      <3>1. t[j] = s[n] /\ t[j + 1] = u[1] /\ n \in DOMAIN s /\ 1 \in DOMAIN u /\ n # 0
        BY <1>2, <1>3, <1>4, <2>2
      <3>2. s[n].i < u[1].i
        BY <3>1
      <3> QED
        BY <1>7, <3>1, <3>2 DEF Follows
    <2>3. CASE j > n
      <3>1. j - n \in DOMAIN u /\ (j - n) + 1 \in DOMAIN u /\ n + (j - n) = j /\ n + ((j - n) + 1) = j + 1
        BY <1>4, <1>8, <2>3
      <3>2. t[j] = u[j - n] /\ t[j + 1] = u[(j - n) + 1]
        BY <1>3, <1>4, <3>1
      <3> QED
        BY <3>1, <3>2 DEF Stream
    <2> QED
      BY <2>1, <2>2, <2>3
  <1>9. ASSUME NEW j \in 1 .. n + m, j + 2 \in 1 .. n + m, t[j + 1].kind = "N", t[j + 2].kind \in {"M", "B"}
        PROVE  t[j].kind = "N"
    <2>1. CASE j + 2 <= n
      <3>1. j \in DOMAIN s /\ j + 2 \in DOMAIN s /\ t[j] = s[j] /\ t[j + 1] = s[j + 1] /\ t[j + 2] = s[j + 2]
        BY <1>3, <1>4, <2>1
      <3> QED
        BY <1>9, <3>1 DEF Stream
    <2>2. CASE j + 1 = n
      <3>1. j = n - 1 /\ j \in 1 .. n /\ j + 1 \in 1 .. n /\ n # 0 /\ n > 1
        BY <2>2
      <3>2. t[j] = s[n - 1] /\ t[j + 1] = s[n]
        BY <1>3, <2>2, <3>1
      <3> QED
        BY <1>7, <1>9, <3>1, <3>2
    <2>3. CASE j = n
      <3>1. t[j + 1] = u[1]
        BY <1>2, <1>3, <2>3
      <3> QED
        BY <1>9, <3>1
    <2>4. CASE j > n
      <3>1. j - n \in DOMAIN u /\ (j - n) + 2 \in DOMAIN u /\ (j - n) + 1 \in DOMAIN u
            /\ n + (j - n) = j /\ n + ((j - n) + 1) = j + 1 /\ n + ((j - n) + 2) = j + 2
        BY <1>4, <1>9, <2>4
      <3>2. t[j] = u[j - n] /\ t[j + 1] = u[(j - n) + 1] /\ t[j + 2] = u[(j - n) + 2]
        BY <1>3, <1>4, <3>1
      <3> QED
        BY <1>9, <3>1, <3>2 DEF Stream
    <2> QED
      BY <2>1, <2>2, <2>3, <2>4
  <1>10. \A j \in 1 .. n + m : Texted(t[j])
    BY <1>4, <1>5 DEF Stream
  <1>11. Stream(t)
    BY <1>4, <1>6, <1>8, <1>9, <1>10 DEF Stream
  <1>12. /\ t[n + m].kind \in {"N", "B"}
         /\ t[n + m].kind = "N" => t[n + m - 1].kind = "N"
    <2>1. m \in 1 .. m /\ m - 1 \in 1 .. m /\ n + (m - 1) = n + m - 1 /\ m > 1 /\ u # <<>>
      BY <1>2
    <2>2. t[n + m] = u[m] /\ t[n + m - 1] = u[m - 1]
      BY <1>3, <2>1
    <2> QED
      BY <1>2, <2>1, <2>2 DEF EndsWhole
  <1> QED
    BY <1>1, <1>3, <1>11, <1>12 DEF EndsWhole

-----------------------------------------------------------------------------
(* What parsing does to the request.                                       *)

\* A request object, and what oneParameterBuffer holds, when n requests were sent.
Object(n) ==
    [version : {"undefined", "1.0", "1.1"}, status : Statuses, keepAlive : BOOLEAN,
     chunk : BOOLEAN, MethodHTTP : Handlers, URI : Uris \cup {"null"},
     i : 0 .. n, applied : SUBSET (1 .. n)]

PartOf(n) == {NoCarry} \cup [h : HeaderTexts \cup {"none", "junk"}, i : 1 .. n]

\* What the object says of the request is what its i-th request of S says.
Own(q, S) ==
    /\ q.version = "undefined" => q.URI = "null" /\ q.MethodHTTP = "methodUnknow"
    /\ q.MethodHTTP # "methodUnknow" => q.i \in DOMAIN S
    /\ q.MethodHTTP = "methodGet" => S[q.i].method = "GET"
    /\ q.MethodHTTP = "methodHead" => S[q.i].method = "HEAD"
    /\ q.URI # "null" => q.i \in DOMAIN S /\ q.URI = S[q.i].uri
    /\ q.URI \notin {"bare", "long", "huge"}

LEMMA SentRequest ==
    ASSUME NEW S \in Seq(Requests), NEW i \in 1 .. Len(S)
    PROVE  /\ S[i] \in Requests /\ S[i] \in Request
           /\ S[i].method \in Methods /\ S[i].version \in Versions /\ S[i].uri \in Uris
  <1>1. S[i] \in Requests
    OBVIOUS
  <1> QED
    BY <1>1, ConstantsAssumption DEF Request

\* getVersion, getMethodHTTP1_x and getURI write the fields they are named for, and the status.
LEMMA VersionRead ==
    ASSUME NEW n \in Nat, NEW q \in Object(n), NEW v \in Versions
    PROVE  /\ GetVersion(q, v) \in Object(n)
           /\ GetVersion(q, v).i = q.i /\ GetVersion(q, v).applied = q.applied
           /\ GetVersion(q, v).MethodHTTP = q.MethodHTTP /\ GetVersion(q, v).URI = q.URI
           /\ GetVersion(q, v).status = 200 => v \in {"1.0", "1.1"} /\ GetVersion(q, v).version = v
           /\ v \in {"1.0", "1.1"} => GetVersion(q, v).status = q.status
  <1>1. CASE v = "1.0"
    <2>1. PICK p : p = [q EXCEPT !.version = "1.0", !.keepAlive = FALSE, !.chunk = FALSE]
      OBVIOUS
    <2>2. p \in Object(n)
      BY <2>1 DEF Object
    <2>3. /\ p.i = q.i /\ p.applied = q.applied /\ p.MethodHTTP = q.MethodHTTP /\ p.URI = q.URI
          /\ p.status = q.status /\ p.version = "1.0"
      BY <2>1 DEF Object
    <2>4. GetVersion(q, v) = p
      BY <1>1, <2>1 DEF GetVersion
    <2> QED
      BY <1>1, <2>2, <2>3, <2>4
  <1>2. CASE v = "1.1"
    <2>1. PICK p : p = [q EXCEPT !.version = "1.1", !.keepAlive = TRUE, !.chunk = TRUE]
      OBVIOUS
    <2>2. p \in Object(n)
      BY <2>1 DEF Object
    <2>3. /\ p.i = q.i /\ p.applied = q.applied /\ p.MethodHTTP = q.MethodHTTP /\ p.URI = q.URI
          /\ p.status = q.status /\ p.version = "1.1"
      BY <2>1 DEF Object
    <2>4. GetVersion(q, v) = p
      BY <1>2, <2>1 DEF GetVersion
    <2> QED
      BY <1>2, <2>2, <2>3, <2>4
  <1>3. CASE v = "2.0"
    BY <1>3 DEF GetVersion, Object, Statuses
  <1>4. CASE v = "junk"
    BY <1>4 DEF GetVersion, Object, Statuses
  <1> QED
    BY <1>1, <1>2, <1>3, <1>4 DEF Versions

LEMMA MethodRead ==
    ASSUME NEW n \in Nat, NEW q \in Object(n), NEW m \in Methods
    PROVE  /\ GetMethod(q, m) \in Object(n)
           /\ GetMethod(q, m).i = q.i /\ GetMethod(q, m).applied = q.applied
           /\ GetMethod(q, m).version = q.version /\ GetMethod(q, m).URI = q.URI
           /\ GetMethod(q, m).MethodHTTP = q.MethodHTTP
              \/ (q.status = 200 /\ GetMethod(q, m).MethodHTTP = "methodGet" /\ m = "GET")
              \/ (q.status = 200 /\ GetMethod(q, m).MethodHTTP = "methodHead" /\ m = "HEAD")
              \/ (q.status = 200 /\ GetMethod(q, m).MethodHTTP \in {"stub", "methodUnknow"})
           /\ q.status = 200 /\ m = "GET" =>
                GetMethod(q, m).status = 200 /\ GetMethod(q, m).MethodHTTP = "methodGet"
           /\ GetMethod(q, m).status = 200 => q.status = 200
  <1>1. CASE q.status # 200
    BY <1>1 DEF GetMethod
  <1>2. CASE q.status = 200 /\ m = "GET"
    BY <1>2 DEF GetMethod, Object, Handlers, Statuses
  <1>3. CASE q.status = 200 /\ m = "HEAD"
    BY <1>3 DEF GetMethod, Object, Handlers, Statuses
  <1>4. CASE q.status = 200 /\ m \notin {"GET", "HEAD"}
    <2>1. PICK p, w : p = [q EXCEPT !.MethodHTTP = "stub"]
                      /\ w = [q EXCEPT !.status = 501, !.MethodHTTP = "methodUnknow"]
      OBVIOUS
    <2>2. p \in Object(n) /\ w \in Object(n)
      <3>1. 501 \in Statuses /\ "stub" \in Handlers /\ "methodUnknow" \in Handlers
        BY DEF Handlers, Statuses
      <3>2. p \in Object(n)
        BY <2>1, <3>1 DEF Object
      <3>3. PICK q5 : q5 = [q EXCEPT !.status = 501]
        OBVIOUS
      <3>4. q5 \in Object(n)
        BY <3>1, <3>3 DEF Object
      <3>5. w = [q5 EXCEPT !.MethodHTTP = "methodUnknow"]
        BY <2>1, <3>3 DEF Object
      <3>6. w \in Object(n)
        BY <3>1, <3>4, <3>5 DEF Object
      <3> QED
        BY <3>2, <3>6
    <2>3. /\ p.i = q.i /\ p.applied = q.applied /\ p.version = q.version /\ p.URI = q.URI
          /\ w.i = q.i /\ w.applied = q.applied /\ w.version = q.version /\ w.URI = q.URI
          /\ p.MethodHTTP = "stub" /\ w.MethodHTTP = "methodUnknow"
      BY <2>1 DEF Object
    <2>4. GetMethod(q, m) = p \/ GetMethod(q, m) = w
      BY <1>4, <2>1 DEF GetMethod, Methods
    <2>5. CASE GetMethod(q, m) = p
      BY <1>4, <2>2, <2>3, <2>5
    <2>6. CASE GetMethod(q, m) = w
      BY <1>4, <2>2, <2>3, <2>6
    <2> QED
      BY <2>4, <2>5, <2>6
  <1> QED
    BY <1>1, <1>2, <1>3, <1>4

LEMMA UriRead ==
    ASSUME NEW n \in Nat, NEW q \in Object(n), NEW u \in Uris
    PROVE  /\ GetURI(q, u) \in Object(n)
           /\ GetURI(q, u).i = q.i /\ GetURI(q, u).applied = q.applied
           /\ GetURI(q, u).version = q.version /\ GetURI(q, u).MethodHTTP = q.MethodHTTP
           /\ GetURI(q, u).URI = q.URI
              \/ (q.status = 200 /\ GetURI(q, u).URI = u /\ u \notin {"bare", "long"})
           /\ q.status = 200 /\ u \notin {"bare", "long"} =>
                GetURI(q, u).status = 200 /\ GetURI(q, u).URI = u
           /\ GetURI(q, u).status = 200 => q.status = 200
  BY DEF GetURI, Object, Uris, Statuses

LEMMA NumberSet ==
    ASSUME NEW n \in Nat, NEW q \in Object(n), NEW i \in 1 .. n
    PROVE  [q EXCEPT !.i = i] \in Object(n) /\ [q EXCEPT !.i = i].status = q.status
  BY DEF Object

\* A unit of the i-th request among the units of a buffer; the one that begins it.
Among(b, i) == \E j \in DOMAIN b : b[j].i = i
Begins(b, i) == \E j \in DOMAIN b : b[j].kind = "M" /\ b[j].i = i

\* What the request line makes of an object whose line was not read yet.
LineRead(q, p, line) ==
    /\ p \in Object(Len(sent)) /\ Own(p, sent) /\ p.applied = q.applied
    /\ Among(line, p.i)
    /\ p.status = 200 \/ p.MethodHTTP # "methodUnknow" => Begins(line, p.i)
    /\ p.version = "undefined" => p.status # 200

LEMMA LineIsOwn ==
    ASSUME sent \in Seq(Requests), NEW q \in Object(Len(sent)), q.version = "undefined", Own(q, sent),
           NEW line \in Seq(UnitOf(Len(sent))), line # <<>>, ~ Huge(line)
    PROVE  LineRead(q, RequestLine(q, line), line)
  <1>1. PICK n \in Nat : n = Len(sent) /\ DOMAIN sent = 1 .. n
    OBVIOUS
  <1>2. CASE "M" \in Kinds(line)
    <2>1. PICK m \in DOMAIN line : m = (CHOOSE j \in DOMAIN line : line[j].kind = "M") /\ line[m].kind = "M"
      BY <1>2 DEF Kinds
    <2>2. line[m] \in UnitOf(n)
      BY <1>1, <2>1
    <2>3. PICK i \in 1 .. n : i = line[m].i
      BY <2>2 DEF UnitOf
    <2>4. PICK r : r = sent[i]
      OBVIOUS
    <2>5. r \in Requests /\ r.method \in Methods /\ r.version \in Versions /\ r.uri \in Uris
      BY <1>1, <2>3, <2>4, SentRequest
    <2>6. r.uri # "huge"
      BY <2>1, <2>3, <2>4 DEF Huge
    <2>7. PICK q0 : q0 = [q EXCEPT !.i = i]
      OBVIOUS
    <2>8. /\ q0 \in Object(n) /\ q0.i = i /\ q0.applied = q.applied /\ q0.version = "undefined"
          /\ q0.URI = "null" /\ q0.MethodHTTP = "methodUnknow"
      BY <1>1, <2>7 DEF Object, Own
    <2>9. PICK q1 : q1 = GetVersion(q0, r.version)
      OBVIOUS
    <2>10. /\ q1 \in Object(n) /\ q1.i = i /\ q1.applied = q.applied
           /\ q1.URI = "null" /\ q1.MethodHTTP = "methodUnknow"
           /\ q1.status = 200 => q1.version # "undefined"
      BY <2>5, <2>8, <2>9, VersionRead
    <2>11. PICK w \in Methods : w = (IF m = 1 THEN r.method ELSE "BREW") /\ (w # "BREW" => w = r.method)
      BY <2>5 DEF Methods
    <2>12. PICK q2 : q2 = GetMethod(q1, w)
      OBVIOUS
    <2>13. /\ q2 \in Object(n) /\ q2.i = i /\ q2.applied = q.applied /\ q2.version = q1.version
           /\ q2.URI = "null" /\ (q2.status = 200 => q1.status = 200)
           /\ \/ q2.MethodHTTP = "methodUnknow"
              \/ q1.status = 200 /\ q2.MethodHTTP = "methodGet" /\ w = "GET"
              \/ q1.status = 200 /\ q2.MethodHTTP = "methodHead" /\ w = "HEAD"
              \/ q1.status = 200 /\ q2.MethodHTTP = "stub"
      BY <2>10, <2>12, MethodRead
    <2>14. PICK q3 : q3 = GetURI(q2, r.uri)
      OBVIOUS
    <2>15. /\ q3 \in Object(n) /\ q3.i = i /\ q3.applied = q.applied
           /\ q3.version = q1.version /\ q3.MethodHTTP = q2.MethodHTTP
           /\ q3.URI = "null" \/ (q2.status = 200 /\ q3.URI = r.uri /\ r.uri \notin {"bare", "long"})
           /\ q3.status = 200 => q2.status = 200
      BY <2>5, <2>13, <2>14, UriRead
    <2>16. Own(q3, sent)
      <3>1. i \in DOMAIN sent /\ q3.i = i
        BY <1>1, <2>15
      <3>2. q3.version = "undefined" => q3.URI = "null" /\ q3.MethodHTTP = "methodUnknow"
        BY <2>10, <2>13, <2>15
      <3>3. q3.MethodHTTP = "methodGet" => r.method = "GET"
        BY <2>11, <2>13, <2>15
      <3>4. q3.MethodHTTP = "methodHead" => r.method = "HEAD"
        BY <2>11, <2>13, <2>15
      <3>5. q3.URI # "null" => q3.URI = r.uri /\ q3.URI \notin {"bare", "long", "huge"}
        BY <2>6, <2>15
      <3> QED
        BY <2>4, <3>1, <3>2, <3>3, <3>4, <3>5 DEF Own
    <2>17. RequestLine(q, line) = q3
      BY <1>2, <2>1, <2>3, <2>4, <2>7, <2>9, <2>11, <2>12, <2>14 DEF RequestLine
    <2>18. Begins(line, q3.i) /\ Among(line, q3.i)
      BY <2>1, <2>3, <2>15 DEF Begins, Among
    <2> QED
      BY <1>1, <2>10, <2>13, <2>15, <2>16, <2>17, <2>18 DEF LineRead
  <1>3. CASE "M" \notin Kinds(line)
    <2>1. 1 \in DOMAIN line /\ line[1] \in UnitOf(n)
      <3>1. 1 \in DOMAIN line
        OBVIOUS
      <3> QED
        BY <1>1, <3>1
    <2>2. PICK i \in 1 .. n : i = line[1].i
      BY <2>1 DEF UnitOf
    <2>3. PICK q0 : q0 = [q EXCEPT !.i = i]
      OBVIOUS
    <2>4. /\ q0 \in Object(n) /\ q0.i = i /\ q0.applied = q.applied /\ q0.version = "undefined"
          /\ q0.URI = "null" /\ q0.MethodHTTP = "methodUnknow"
      BY <1>1, <2>3 DEF Object, Own
    <2>5. PICK p : p = GetVersion(q0, "junk")
      OBVIOUS
    <2>6. "junk" \in Versions
      BY DEF Versions
    <2>7. /\ p \in Object(n) /\ p.i = i /\ p.applied = q.applied
          /\ p.MethodHTTP = "methodUnknow" /\ p.URI = "null" /\ p.status # 200
      BY <2>4, <2>5, <2>6, VersionRead
    <2>8. Own(p, sent)
      BY <2>7 DEF Own
    <2>9. RequestLine(q, line) = p
      BY <1>3, <2>2, <2>3, <2>5 DEF RequestLine
    <2>10. Among(line, p.i)
      BY <2>1, <2>2, <2>7 DEF Among
    <2> QED
      BY <1>1, <2>7, <2>8, <2>9, <2>10 DEF LineRead
  <1> QED
    BY <1>2, <1>3

\* The end of the first line of a buffer (0: it was not read), and the line.
LineEnd(b) == SelectInSeq(b, LAMBDA u : u.kind = "N")
Line(b) == IF LineEnd(b) = 0 THEN b ELSE SubSeq(b, 1, LineEnd(b) - 1)

LEMMA LineIs ==
    ASSUME NEW X, NEW b \in Seq(X)
    PROVE  /\ LineEnd(b) \in 0 .. Len(b)
           /\ LineEnd(b) # 0 => b[LineEnd(b)].kind = "N"
           /\ Line(b) \in Seq(X)
           /\ Len(Line(b)) = (IF LineEnd(b) = 0 THEN Len(b) ELSE LineEnd(b) - 1)
           /\ \A j \in 1 .. Len(Line(b)) : j \in 1 .. Len(b) /\ Line(b)[j] = b[j] /\ b[j].kind # "N"
  <1>1. PICK n \in Nat : n = Len(b) /\ DOMAIN b = 1 .. n
    OBVIOUS
  <1>2. PICK I : I = {j \in 1 .. n : b[j].kind = "N"}
    OBVIOUS
  <1>3. LineEnd(b) = IF I # {} THEN Min(I) ELSE 0
    BY <1>1, <1>2 DEF LineEnd, SelectInSeq
  <1>4. CASE I = {}
    <2>1. LineEnd(b) = 0 /\ Line(b) = b
      BY <1>3, <1>4 DEF Line
    <2>2. \A j \in 1 .. n : b[j].kind # "N"
      BY <1>2, <1>4
    <2> QED
      BY <1>1, <2>1, <2>2
  <1>5. CASE I # {}
    <2>1. I \subseteq Nat
      BY <1>2
    <2>2. Min(I) \in I /\ \A k \in I : Min(I) <= k
      BY <1>5, <2>1, LeastElement
    <2>3. PICK e \in 1 .. n : e = LineEnd(b) /\ b[e].kind = "N" /\ \A j \in 1 .. n : b[j].kind = "N" => e <= j
      BY <1>2, <1>3, <1>5, <2>2
    <2>4. Line(b) = SubSeq(b, 1, e - 1)
      BY <2>3 DEF Line
    <2>5. /\ SubSeq(b, 1, e - 1) \in Seq(X) /\ Len(SubSeq(b, 1, e - 1)) = e - 1
          /\ \A j \in 1 .. e - 1 : SubSeq(b, 1, e - 1)[j] = b[j]
      BY <1>1, <2>3
    <2>6. \A j \in 1 .. e - 1 : j \in 1 .. n /\ b[j].kind # "N"
      BY <2>3
    <2> QED
      BY <1>1, <2>3, <2>4, <2>5, <2>6
  <1> QED
    BY <1>4, <1>5

\* Does strstr find two spaces in the line?
ThreeWords(line) == {"M", "V"} \subseteq Kinds(line) \/ \E j \in DOMAIN line : line[j].h = "agent"

\* The three ways through proccessFirstString.
LEMMA FirstStringKept ==
    ASSUME NEW q, NEW b, q.version # "undefined"
    PROVE  ProccessFirstString(q, b).q = q /\ ProccessFirstString(q, b).rest = b
  BY DEF ProccessFirstString

Refused(q, i) == [q EXCEPT !.status = 400, !.i = i]

LEMMA FirstStringRefused ==
    ASSUME NEW q, NEW b, q.version = "undefined", Line(b) = <<>> \/ Huge(Line(b))
    PROVE  /\ ProccessFirstString(q, b).q = Refused(q, b[1].i)
           /\ ProccessFirstString(q, b).rest = b
           /\ ~ ProccessFirstString(q, b).null
  <1>1. ProccessFirstString(q, b) =
            [q |-> [q EXCEPT !.status = 400, !.i = b[1].i], rest |-> b, null |-> FALSE]
    BY DEF ProccessFirstString, Line, LineEnd
  <1> QED
    BY <1>1 DEF Refused

LEMMA FirstStringLine ==
    ASSUME NEW q, NEW b, q.version = "undefined", Line(b) # <<>>, ~ Huge(Line(b))
    PROVE  /\ ProccessFirstString(q, b).q = RequestLine(q, Line(b))
           /\ ProccessFirstString(q, b).rest = SubSeq(b, LineEnd(b) + 1, Len(b))
           /\ ProccessFirstString(q, b).null <=>
                 (~ ThreeWords(Line(b)) \/ (LineEnd(b) = 0 /\ RequestLine(q, Line(b)).status = 200))
  <1>1. ProccessFirstString(q, b) =
            [q |-> RequestLine(q, Line(b)), rest |-> SubSeq(b, LineEnd(b) + 1, Len(b)),
             null |-> ~ ThreeWords(Line(b))
                      \/ (LineEnd(b) = 0 /\ RequestLine(q, Line(b)).status = 200)]
    BY DEF ProccessFirstString, Line, LineEnd, ThreeWords
  <1>2. PICK w, t : w = RequestLine(q, Line(b)) /\ t = SubSeq(b, LineEnd(b) + 1, Len(b))
    OBVIOUS
  <1>3. PICK nul : nul = (~ ThreeWords(Line(b)) \/ (LineEnd(b) = 0 /\ w.status = 200))
    OBVIOUS
  <1>4. ProccessFirstString(q, b) = [q |-> w, rest |-> t, null |-> nul]
    BY <1>1, <1>2, <1>3
  <1>5. /\ ProccessFirstString(q, b).q = w /\ ProccessFirstString(q, b).rest = t
        /\ ProccessFirstString(q, b).null = nul
    BY <1>4
  <1>6. ProccessFirstString(q, b).null <=>
            (~ ThreeWords(Line(b)) \/ (LineEnd(b) = 0 /\ w.status = 200))
    BY <1>3, <1>5, Zenon
  <1> QED
    BY <1>2, <1>5, <1>6

FirstRead(q, p, b) ==
    /\ p.q \in Object(Len(sent)) /\ Own(p.q, sent) /\ p.q.applied = q.applied
    /\ p.q.i = q.i \/ Among(b, p.q.i)
    /\ q.version = "undefined" /\ p.q.MethodHTTP # "methodUnknow" => Begins(b, p.q.i)
    /\ q.version # "undefined" => p.q = q
    /\ p.rest \in Seq(UnitOf(Len(sent)))
    /\ p.q.version = "undefined" => p.q.status # 200
    /\ q.version = "undefined" /\ p.q.status = 200 => Begins(Line(b), p.q.i)

LEMMA FirstStringIsOwn ==
    ASSUME sent \in Seq(Requests), NEW q \in Object(Len(sent)), Own(q, sent),
           NEW b \in Seq(UnitOf(Len(sent))), b # <<>>
    PROVE  FirstRead(q, ProccessFirstString(q, b), b)
  <1>1. PICK X : X = UnitOf(Len(sent))
    OBVIOUS
  <1>2. PICK p : p = ProccessFirstString(q, b)
    OBVIOUS
  <1>3. PICK line : line = Line(b)
    OBVIOUS
  <1>4. b \in Seq(X)
    BY <1>1
  <1>5. /\ LineEnd(b) \in 0 .. Len(b) /\ line \in Seq(X)
        /\ \A j \in 1 .. Len(line) : j \in 1 .. Len(b) /\ line[j] = b[j]
    BY <1>3, <1>4, LineIs
  <1>6. CASE q.version # "undefined"
    <2>2. p.q = q /\ p.rest = b
      BY <1>2, <1>6, FirstStringKept
    <2> QED
      BY <1>2, <1>6, <2>2 DEF FirstRead
  <1>7. CASE q.version = "undefined" /\ (line = <<>> \/ Huge(line))
    <2>1. PICK n \in Nat : n = Len(sent)
      OBVIOUS
    <2>2. 1 \in DOMAIN b /\ b[1] \in UnitOf(n)
      <3>1. 1 \in DOMAIN b
        OBVIOUS
      <3> QED
        BY <2>1, <3>1
    <2>3. PICK i \in 1 .. n : i = b[1].i
      BY <2>2 DEF UnitOf
    <2>4. p.q = Refused(q, i) /\ p.rest = b
      BY <1>2, <1>3, <1>7, <2>3, FirstStringRefused
    <2>5. PICK w : w = [q EXCEPT !.status = 400, !.i = i]
      OBVIOUS
    <2>6. p.q = w /\ p.rest = b
      BY <2>4, <2>5 DEF Refused
    <2>7. /\ w.i = i /\ w.applied = q.applied /\ w.version = q.version /\ w.URI = q.URI
          /\ w.MethodHTTP = q.MethodHTTP /\ w.status = 400
      BY <2>5 DEF Object
    <2>8. w \in Object(n)
      <3>1. 400 \in Statuses
        BY DEF Statuses
      <3>2. PICK v : v = [q EXCEPT !.status = 400]
        OBVIOUS
      <3>3. v \in Object(n)
        BY <2>1, <3>1, <3>2 DEF Object
      <3>4. w = [v EXCEPT !.i = i]
        BY <2>5, <3>2 DEF Object
      <3> QED
        BY <3>3, <3>4, NumberSet
    <2>9. w.MethodHTTP = "methodUnknow" /\ Own(w, sent)
      BY <1>7, <2>7 DEF Own
    <2>10. Among(b, w.i)
      BY <2>2, <2>3, <2>7 DEF Among
    <2> QED
      BY <1>2, <1>7, <2>1, <2>6, <2>7, <2>8, <2>9, <2>10 DEF FirstRead
  <1>8. CASE q.version = "undefined" /\ line # <<>> /\ ~ Huge(line)
    <2>1. PICK w, z : w = RequestLine(q, line) /\ z = SubSeq(b, LineEnd(b) + 1, Len(b))
      OBVIOUS
    <2>2. p.q = w /\ p.rest = z
      BY <1>2, <1>3, <1>8, <2>1, FirstStringLine
    <2>3. LineRead(q, w, line)
      BY <1>1, <1>5, <1>8, <2>1, LineIsOwn
    <2>4. z \in Seq(X)
      BY <1>4, <1>5, <2>1
    <2>5. \A j \in DOMAIN line : j \in DOMAIN b /\ line[j] = b[j]
      BY <1>4, <1>5
    <2>6. /\ Begins(line, w.i) => Begins(b, w.i)
          /\ Among(line, w.i) => Among(b, w.i)
      BY <2>5 DEF Begins, Among
    <2> QED
      BY <1>1, <1>2, <1>3, <1>8, <2>2, <2>3, <2>4, <2>6 DEF FirstRead, LineRead
  <1> QED
    BY <1>6, <1>7, <1>8

\* The header, or the part of one, in the buffer is nothing or comes from a request.
LEMMA PendingTyped ==
    ASSUME NEW n \in Nat, NEW c \in PartOf(n), NEW b \in Seq(UnitOf(n)), NEW j \in 1 .. Len(b) + 1
    PROVE  Pending(c, b, j) \in PartOf(n)
  <1>1. CASE j = 1
    BY <1>1 DEF Pending
  <1>2. CASE j # 1
    <2>1. PICK u : u = b[j - 1]
      OBVIOUS
    <2>2. u \in UnitOf(n)
      BY <1>2, <2>1
    <2>3. u.i \in 1 .. n /\ u.h \in HeaderTexts \cup {"none"}
      BY <2>2 DEF UnitOf
    <2>4. CASE u.kind = "N"
      <3>1. Pending(c, b, j) = NoCarry
        BY <1>2, <2>1, <2>4 DEF Pending
      <3> QED
        BY <3>1 DEF PartOf
    <2>5. CASE u.kind # "N"
      <3>1. PICK w \in {u.h, "junk"} : Pending(c, b, j) = [h |-> w, i |-> u.i]
        BY <1>2, <2>1, <2>5 DEF Pending
      <3> QED
        BY <2>3, <3>1 DEF PartOf
    <2> QED
      BY <2>4, <2>5
  <1> QED
    BY <1>1, <1>2

\* Where requestParametersParse stops: at the first blank line, or after the last unit.
Blanks(c, b) == {j \in DOMAIN b : b[j].kind = "N" /\ Pending(c, b, j) = NoCarry}
StopAt(c, b) == IF Blanks(c, b) = {} THEN Len(b) + 1 ELSE Min(Blanks(c, b))

\* The ends of the headers of H before the stop, and the requests that have such headers.
Said(c, b, H) == {j \in 1 .. StopAt(c, b) - 1 : b[j].kind = "N" /\ Pending(c, b, j).h \in H}
AppliedOf(c, b) == {Pending(c, b, j).i : j \in Said(c, b, {"close", "keep", "chunked"})}

LEMMA StopIs ==
    ASSUME NEW c, NEW X, NEW b \in Seq(X)
    PROVE  /\ StopAt(c, b) \in 1 .. Len(b) + 1
           /\ Blanks(c, b) # {} => StopAt(c, b) \in Blanks(c, b)
           /\ \A j \in Blanks(c, b) : StopAt(c, b) <= j
           /\ \A H : Said(c, b, H) \subseteq 1 .. Len(b)
  <1>1. PICK n \in Nat : n = Len(b) /\ DOMAIN b = 1 .. n
    OBVIOUS
  <1>2. PICK S : S = Blanks(c, b)
    OBVIOUS
  <1>3. S \subseteq 1 .. n
    BY <1>1, <1>2 DEF Blanks
  <1>4. CASE S = {}
    <2>1. StopAt(c, b) = n + 1
      BY <1>1, <1>2, <1>4 DEF StopAt
    <2> QED
      BY <1>1, <1>2, <1>4, <2>1 DEF Said
  <1>5. CASE S # {}
    <2>1. S \subseteq Nat
      BY <1>3
    <2>2. Min(S) \in S /\ \A k \in S : Min(S) <= k
      BY <1>5, <2>1, LeastElement
    <2>3. PICK e \in 1 .. n : e = StopAt(c, b) /\ e \in S /\ \A k \in S : e <= k
      BY <1>2, <1>3, <1>5, <2>2 DEF StopAt
    <2> QED
      BY <1>1, <1>2, <2>3 DEF Said
  <1> QED
    BY <1>4, <1>5

LEMMA ParametersAre ==
    ASSUME NEW q, NEW c, NEW b
    PROVE  LET f == RequestParametersParse(q, c, b)
               W == Said(c, b, {"close", "keep"})
           IN  f = [q |-> [q EXCEPT
                          !.keepAlive = IF W = {} THEN @ ELSE Pending(c, b, Max(W)).h = "keep",
                          !.chunk = @ \/ Said(c, b, {"chunked"}) # {},
                          !.applied = @ \cup AppliedOf(c, b)],
                    carry |-> Pending(c, b, StopAt(c, b)),
                    ended |-> Blanks(c, b) # {}]
  BY DEF RequestParametersParse, Said, AppliedOf, StopAt, Blanks

\* The headers change three fields of the object.
HeadersRead(q, f, c, b) ==
    /\ f.q \in Object(Len(sent))
    /\ f.q.version = q.version /\ f.q.status = q.status /\ f.q.MethodHTTP = q.MethodHTTP
    /\ f.q.URI = q.URI /\ f.q.i = q.i
    /\ f.q.applied = q.applied \cup AppliedOf(c, b)
    /\ f.carry = Pending(c, b, StopAt(c, b)) /\ f.carry \in PartOf(Len(sent))

LEMMA ParametersRead ==
    ASSUME sent \in Seq(Requests), NEW q \in Object(Len(sent)), NEW c \in PartOf(Len(sent)),
           NEW b \in Seq(UnitOf(Len(sent)))
    PROVE  HeadersRead(q, RequestParametersParse(q, c, b), c, b)
  <1>1. PICK n \in Nat : n = Len(sent)
    OBVIOUS
  <1>2. PICK k, h, A :
            /\ k \in BOOLEAN /\ h \in BOOLEAN
            /\ RequestParametersParse(q, c, b) =
                 [q |-> [q EXCEPT !.keepAlive = k, !.chunk = h, !.applied = A],
                  carry |-> Pending(c, b, StopAt(c, b)), ended |-> Blanks(c, b) # {}]
            /\ A = q.applied \cup AppliedOf(c, b)
    <2>1. q.keepAlive \in BOOLEAN /\ q.chunk \in BOOLEAN
      BY DEF Object
    <2> DEFINE W == Said(c, b, {"close", "keep"})
    <2>2. (IF W = {} THEN q.keepAlive ELSE Pending(c, b, Max(W)).h = "keep") \in BOOLEAN
      BY <2>1
    <2>3. (q.chunk \/ Said(c, b, {"chunked"}) # {}) \in BOOLEAN
      OBVIOUS
    <2>4. RequestParametersParse(q, c, b) =
              [q |-> [q EXCEPT
                        !.keepAlive = IF W = {} THEN @ ELSE Pending(c, b, Max(W)).h = "keep",
                        !.chunk = @ \/ Said(c, b, {"chunked"}) # {},
                        !.applied = @ \cup AppliedOf(c, b)],
               carry |-> Pending(c, b, StopAt(c, b)), ended |-> Blanks(c, b) # {}]
      BY ParametersAre
    <2> QED
      BY <2>2, <2>3, <2>4
  <1>3. PICK p : p = [q EXCEPT !.keepAlive = k, !.chunk = h, !.applied = A]
    OBVIOUS
  <1>4. AppliedOf(c, b) \subseteq 1 .. n
    <2> SUFFICES ASSUME NEW x \in AppliedOf(c, b) PROVE x \in 1 .. n
      OBVIOUS
    <2>1. PICK j \in Said(c, b, {"close", "keep", "chunked"}) : x = Pending(c, b, j).i
      BY DEF AppliedOf
    <2>2. j \in 1 .. Len(b) /\ Pending(c, b, j).h \in {"close", "keep", "chunked"}
      BY <2>1, StopIs DEF Said
    <2>3. j \in 1 .. Len(b) + 1
      BY <2>2
    <2>4. Pending(c, b, j) \in PartOf(n)
      BY <1>1, <2>3, PendingTyped
    <2>5. Pending(c, b, j) # NoCarry
      BY <2>2 DEF NoCarry
    <2> QED
      BY <2>1, <2>4, <2>5 DEF PartOf
  <1>5. A \in SUBSET (1 .. n)
    BY <1>1, <1>2, <1>4 DEF Object
  <1>6. p \in Object(n)
    <2>1. k \in BOOLEAN /\ h \in BOOLEAN
      BY <1>2
    <2> QED
      BY <1>1, <1>3, <1>5, <2>1 DEF Object
  <1>7. /\ p.version = q.version /\ p.status = q.status /\ p.MethodHTTP = q.MethodHTTP
        /\ p.URI = q.URI /\ p.i = q.i /\ p.applied = A
    BY <1>3 DEF Object
  <1>8. StopAt(c, b) \in 1 .. Len(b) + 1
    BY StopIs
  <1>9. Pending(c, b, StopAt(c, b)) \in PartOf(n)
    BY <1>1, <1>8, PendingTyped
  <1>10. PICK f : f = RequestParametersParse(q, c, b)
    OBVIOUS
  <1>11. f.q = p /\ f.carry = Pending(c, b, StopAt(c, b))
    <2>1. PICK z, e : z = Pending(c, b, StopAt(c, b)) /\ e = (Blanks(c, b) # {})
      OBVIOUS
    <2>2. f = [q |-> p, carry |-> z, ended |-> e]
      BY <1>2, <1>3, <1>10, <2>1
    <2> QED
      BY <2>1, <2>2
  <1> QED
    BY <1>1, <1>2, <1>6, <1>7, <1>9, <1>10, <1>11 DEF HeadersRead

\* What one read makes of the request.
Parsed(q, p, b) ==
    /\ p.q \in Object(Len(sent)) /\ Own(p.q, sent)
    /\ p.carry \in PartOf(Len(sent))
    /\ p.q.i = q.i \/ Among(b, p.q.i)
    /\ \/ p.q.MethodHTTP = "methodUnknow"
       \/ Begins(b, p.q.i)
       \/ p.q.i = q.i /\ p.q.MethodHTTP = q.MethodHTTP
    /\ q.version # "undefined" => p.q.i = q.i /\ p.q.URI = q.URI
    /\ p.q.version = "undefined" => p.q.status # 200

LEMMA ParametersParsed ==
    ASSUME sent \in Seq(Requests), NEW q \in Object(Len(sent)), Own(q, sent), NEW c \in PartOf(Len(sent)),
           NEW b \in Seq(UnitOf(Len(sent))), b # <<>>
    PROVE  Parsed(q, ParseParameters(q, c, b), b)
  <1>1. PICK first : first = ProccessFirstString(q, b)
    OBVIOUS
  <1>2. FirstRead(q, first, b)
    BY <1>1, FirstStringIsOwn
  <1>3. first.q \in Object(Len(sent)) /\ first.rest \in Seq(UnitOf(Len(sent)))
    BY <1>2 DEF FirstRead
  <1>4. PICK f : f = RequestParametersParse(first.q, c, first.rest)
    OBVIOUS
  <1>5. HeadersRead(first.q, f, c, first.rest)
    BY <1>3, <1>4, ParametersRead
  <1>6. PICK p : p = ParseParameters(q, c, b)
    OBVIOUS
  <1>7. \/ p.q = first.q /\ p.carry = c
        \/ p.q = f.q /\ p.carry = f.carry
    BY <1>1, <1>4, <1>6 DEF ParseParameters
  <1>8. CASE p.q = first.q /\ p.carry = c
    BY <1>2, <1>6, <1>8 DEF FirstRead, Parsed
  <1>9. CASE p.q = f.q /\ p.carry = f.carry
    <2>1. Own(f.q, sent)
      BY <1>2, <1>5 DEF FirstRead, HeadersRead, Own
    <2> QED
      BY <1>2, <1>5, <1>6, <1>9, <2>1 DEF FirstRead, HeadersRead, Parsed
  <1> QED
    BY <1>7, <1>8, <1>9

-----------------------------------------------------------------------------
(* The inductive invariant.                                                *)

Answer(n) ==
    [i : 0 .. n, status : Statuses, keep : BOOLEAN, body : 0 .. ChunkedSize(FileSize),
     framing : {"chunked", "length", "none"}, declared : 0 .. FileSize]
Names == Methods \cup {"-", "UNKNOW"}
Record(S) == [status : S, method : Names, uri : Uris \cup {"-"}, bytes : -1 .. ChunkedSize(FileSize)]

Typed ==
    /\ pc \in HandlerAt
    /\ sent \in Seq(Requests) /\ Len(sent) <= MaxRequests
    /\ req \in Object(Len(sent)) /\ Own(req, sent)
    /\ w3c \in Record({0})
    /\ result \in Results
    /\ carry \in PartOf(Len(sent))
    /\ errno \in Errno
    /\ net \in Seq(UnitOf(Len(sent)))
    /\ client \in {"open", "half", "gone"}
    /\ out \in Seq(Answer(Len(sent))) /\ Len(out) <= MaxResponses
    /\ log \in Seq(Record(Statuses))
    /\ pc \in {"read", "method"} => Len(out) < MaxResponses

\* i is not before j, and after it when u begins a request.
NotAfter(i, j, u) == i <= j /\ (u.kind = "M" => i < j)

\* What was not read is not before the request being answered, nor before those answered;
\* a request whose beginning was not read is later than they are.
Ahead ==
    \A j \in DOMAIN net :
        /\ NotAfter(req.i, net[j].i, net[j])
        /\ \A n \in DOMAIN out : NotAfter(out[n].i, net[j].i, net[j])

\* The request being answered is not before those answered, and after them when its
\* beginning was read.
Latest ==
    pc \in {"read", "method"} /\ req.i # 0 =>
        \A n \in DOMAIN out :
            out[n].i <= req.i /\ (req.MethodHTTP # "methodUnknow" => out[n].i < req.i)

Ordered == Stream(net) /\ EndsWhole(net) /\ Ahead /\ Latest /\ AnswersInOrder

\* The record is the one of the response, to a request of S.
Describes(record, r, S) ==
    /\ record.status = r.status
    /\ record.method # "UNKNOW" => r.i \in DOMAIN S /\ record.method = S[r.i].method
    /\ record.uri # "-" => r.i \in DOMAIN S /\ record.uri = S[r.i].uri
    /\ record.method = "GET" /\ r.status = 200 => record.bytes \in {r.body, -1}

\* The record is empty until the URI is read; from the response on it describes it.
Recorded ==
    /\ pc \in {"create", "loop"} => w3c = NoRecord
    /\ pc \in {"read", "method"} =>
         w3c.bytes = 0 /\ w3c.method = "-" /\ w3c.uri = IF req.URI = "null" THEN "-" ELSE req.URI
    /\ pc \in {"create", "read", "method"} => result # "timeout"
    /\ pc = "log" /\ result # "timeout" =>
         out # <<>> /\ Describes([w3c EXCEPT !.status = req.status], out[Len(out)], sent)
    /\ Len(log) = Whole - (IF pc = "log" /\ result # "timeout" THEN 1 ELSE 0)
    /\ \A n \in DOMAIN log : n \in DOMAIN out /\ Describes(log[n], out[n], sent)

IndInv == Typed /\ Ordered /\ Recorded

LEMMA IndInvInit == Init => IndInv
  <1> SUFFICES ASSUME Init PROVE IndInv
    OBVIOUS
  <1> USE DEF Init
  <1>1. PICK e : e = <<>> /\ sent = e /\ net = e /\ out = e /\ log = e
    OBVIOUS
  <1>2. /\ \A X : e \in Seq(X)
        /\ Len(e) = 0 /\ DOMAIN e = {}
    BY <1>1
  <1>3. req \in Object(0) /\ Own(req, sent)
    BY DEF FreshRequest, Object, Own, Statuses, Handlers, Uris
  <1>4. w3c \in Record({0})
    BY DEF NoRecord, Record, Names, ChunkedSize, FileSize
  <1>5. carry \in PartOf(0)
    BY DEF PartOf
  <1>6. Typed
    <2>1. pc \in HandlerAt /\ result \in Results /\ errno \in Errno
      BY DEF HandlerAt, Results, Errno
    <2>2. 0 <= MaxRequests /\ 0 <= MaxResponses
      BY ConstantsAssumption
    <2> QED
      BY <1>1, <1>2, <1>3, <1>4, <1>5, <2>1, <2>2 DEF Typed
  <1>7. Ordered
    BY <1>1, <1>2 DEF Ordered, Stream, EndsWhole, Ahead, Latest, AnswersInOrder
  <1>8. Recorded
    <2>1. Len(log) = Whole - 0 /\ pc = "create" /\ result = "none"
      BY <1>1, <1>2 DEF Whole
    <2> QED
      BY <1>1, <1>2, <2>1 DEF Recorded
  <1> QED
    BY <1>6, <1>7, <1>8 DEF IndInv

\* What is true of the first n requests is true of the first n + 1.
LEMMA MoreSent ==
    ASSUME NEW S \in Seq(Requests), NEW r \in Requests, NEW n \in Nat, n = Len(S)
    PROVE  /\ Append(S, r) \in Seq(Requests) /\ Len(Append(S, r)) = n + 1
           /\ \A i \in DOMAIN S : i \in DOMAIN Append(S, r) /\ Append(S, r)[i] = S[i]
           /\ \A q \in Object(n) : q \in Object(n + 1) /\ (Own(q, S) => Own(q, Append(S, r)))
           /\ \A c \in PartOf(n) : c \in PartOf(n + 1)
           /\ \A s \in Seq(UnitOf(n)) : s \in Seq(UnitOf(n + 1))
           /\ \A s \in Seq(Answer(n)) : s \in Seq(Answer(n + 1))
           /\ \A w, a : Describes(w, a, S) => Describes(w, a, Append(S, r))
  <1>1. PICK T : T = Append(S, r)
    OBVIOUS
  <1>2. T \in Seq(Requests) /\ Len(T) = n + 1 /\ \A i \in DOMAIN S : i \in DOMAIN T /\ T[i] = S[i]
    BY <1>1
  <1>3. ASSUME NEW q \in Object(n) PROVE q \in Object(n + 1) /\ (Own(q, S) => Own(q, T))
    <2>1. q \in Object(n + 1)
      <3>1. q.i \in 0 .. n + 1 /\ q.applied \in SUBSET (1 .. n + 1)
        BY DEF Object
      <3> QED
        BY <3>1 DEF Object
    <2>2. Own(q, S) => Own(q, T)
      BY <1>2 DEF Own
    <2> QED
      BY <2>1, <2>2
  <1>4. ASSUME NEW c \in PartOf(n) PROVE c \in PartOf(n + 1)
    BY DEF PartOf
  <1>5. UnitOf(n) \subseteq UnitOf(n + 1)
    BY DEF UnitOf
  <1>6. Answer(n) \subseteq Answer(n + 1)
    BY DEF Answer
  <1>7. \A w, a : Describes(w, a, S) => Describes(w, a, T)
    BY <1>2 DEF Describes
  <1>8. \A s \in Seq(UnitOf(n)) : s \in Seq(UnitOf(n + 1))
    BY <1>5
  <1>9. \A s \in Seq(Answer(n)) : s \in Seq(Answer(n + 1))
    BY <1>6
  <1> QED
    BY <1>1, <1>2, <1>3, <1>4, <1>7, <1>8, <1>9

LEMMA RequestSent ==
    ASSUME IndInv, NEW r \in Requests, SendRequest(r)
    PROVE  IndInv'
  <1> USE DEF IndInv
  <1>1. PICK n \in Nat : n = Len(sent)
    BY DEF Typed
  <1>2. PICK u : u = Units(r, n + 1)
    OBVIOUS
  <1>3. /\ sent' = Append(sent, r) /\ net' = net \o u
        /\ UNCHANGED <<pc, req, w3c, result, carry, errno, out, log, client>>
        /\ n < MaxRequests
    BY <1>1, <1>2 DEF SendRequest, handlerVars
  <1>4. u \in Seq(UnitOf(n + 1)) /\ Len(u) \in Nat
    <2>1. PICK i \in Nat \ {0} : i = n + 1
      OBVIOUS
    <2>2. Units(r, i) \in Seq(UnitOf(i))
      BY UnitsAre
    <2> QED
      BY <1>2, <2>1, <2>2
  <1>5. /\ Stream(u) /\ EndsWhole(u) /\ u[1].kind = "M" /\ Len(u) >= 4
        /\ \A j \in DOMAIN u : u[j].i = n + 1
    BY <1>2, UnitsStream
  <1>6. /\ sent' \in Seq(Requests) /\ Len(sent') = n + 1
        /\ req \in Object(n + 1) /\ Own(req, sent') /\ carry \in PartOf(n + 1)
        /\ net \in Seq(UnitOf(n + 1)) /\ out \in Seq(Answer(n + 1))
        /\ \A w, a : Describes(w, a, sent) => Describes(w, a, sent')
    BY <1>1, <1>3, MoreSent DEF Typed
  <1>7. net' \in Seq(UnitOf(n + 1))
    BY <1>3, <1>4, <1>6, Joined
  <1>8. Typed'
    BY <1>3, <1>6, <1>7, ConstantsAssumption DEF Typed
  <1>9. \A j \in DOMAIN net : net[j].i \in 1 .. n
    <2>1. \A j \in DOMAIN net : net[j] \in UnitOf(n)
      BY <1>1 DEF Typed
    <2> QED
      BY <2>1 DEF UnitOf
  <1>10. Stream(net') /\ EndsWhole(net')
    <2>1. \A j \in DOMAIN net, k \in DOMAIN u : net[j].i \in Nat /\ u[k].i \in Nat /\ net[j].i < u[k].i
      BY <1>5, <1>9
    <2>2. Len(u) > 1
      BY <1>4, <1>5
    <2>3. Stream(net) /\ EndsWhole(net)
      BY DEF Ordered
    <2> QED
      BY <1>3, <1>4, <1>5, <1>6, <2>1, <2>2, <2>3, StreamJoin
  <1>11. Ahead'
    <2> SUFFICES ASSUME NEW j \in DOMAIN net'
                 PROVE  /\ NotAfter(req'.i, net'[j].i, net'[j])
                        /\ \A k \in DOMAIN out' : NotAfter(out'[k].i, net'[j].i, net'[j])
      BY DEF Ahead
    <2>1. PICK a \in Nat, b \in Nat : a = Len(net) /\ b = Len(u)
      BY <1>4, <1>6
    <2>2. /\ Len(net') = a + b
          /\ \A k \in 1 .. a : net'[k] = net[k]
          /\ \A k \in 1 .. b : net'[a + k] = u[k]
      BY <1>3, <1>4, <1>6, <2>1, Joined
    <2>3. j \in 1 .. a + b
      BY <1>7, <2>2
    <2>4. CASE j \in 1 .. a
      BY <1>3, <1>6, <2>1, <2>2, <2>4 DEF Ordered, Ahead
    <2>5. CASE j \notin 1 .. a
      <3>1. j - a \in 1 .. b /\ a + (j - a) = j
        BY <2>3, <2>5
      <3>2. net'[j].i = n + 1
        <4>1. net'[j] = u[j - a]
          BY <2>2, <3>1
        <4>2. j - a \in DOMAIN u
          BY <1>4, <2>1, <3>1
        <4> QED
          BY <1>5, <4>1, <4>2
      <3>3. req.i \in 0 .. n
        BY <1>1 DEF Typed, Object
      <3>4. \A k \in DOMAIN out : out[k].i \in 0 .. n
        <4>1. \A k \in DOMAIN out : out[k] \in Answer(n)
          BY <1>1 DEF Typed
        <4> QED
          BY <4>1 DEF Answer
      <3>5. \A x \in 0 .. n : NotAfter(x, net'[j].i, net'[j])
        BY <3>2 DEF NotAfter
      <3> QED
        BY <1>3, <3>3, <3>4, <3>5
    <2> QED
      BY <2>4, <2>5
  <1>12. Latest' /\ AnswersInOrder'
    BY <1>3 DEF Ordered, Latest, AnswersInOrder
  <1>13. Recorded'
    BY <1>3, <1>6 DEF Recorded, Whole
  <1> QED
    BY <1>8, <1>10, <1>11, <1>12, <1>13 DEF Ordered

LEMMA DataRead ==
    ASSUME IndInv, NEW k \in 1 .. Len(net), ReadData(k)
    PROVE  IndInv'
  <1> USE DEF IndInv
  <1>1. PICK n, b, t : n = Len(sent) /\ b = SubSeq(net, 1, k) /\ t = SubSeq(net, k + 1, Len(net))
    OBVIOUS
  <1>2. PICK X : X = UnitOf(n)
    OBVIOUS
  <1>3. net \in Seq(X)
    BY <1>1, <1>2 DEF Typed
  <1>4. /\ b \in Seq(X) /\ t \in Seq(X) /\ Len(b) = k /\ Len(t) = Len(net) - k /\ Len(net) \in Nat
        /\ \A j \in 1 .. k : b[j] = net[j]
        /\ \A j \in 1 .. Len(net) - k : t[j] = net[k + j]
    BY <1>1, <1>3
  <1>5. PICK p : p = ParseParameters(req, carry, b)
    OBVIOUS
  <1>6. Parsed(req, p, b)
    <2>1. sent \in Seq(Requests) /\ req \in Object(Len(sent)) /\ Own(req, sent) /\ carry \in PartOf(Len(sent))
          /\ b \in Seq(UnitOf(Len(sent))) /\ b # <<>>
      <3>1. b # <<>>
        BY <1>4
      <3> QED
        BY <1>1, <1>2, <1>4, <3>1 DEF Typed
    <2> QED
      BY <1>5, <2>1, ParametersParsed
  <1>7. /\ net' = t /\ result' \in {"full", "data"}
        /\ \/ pc' = "method" /\ UNCHANGED <<req, w3c, carry>>
           \/ /\ req' = p.q /\ carry' = p.carry
              /\ w3c' = [w3c EXCEPT !.uri = IF p.q.URI = "null" THEN @ ELSE p.q.URI]
              /\ pc' \in {"crashed", "read", "method"}
        /\ UNCHANGED <<errno, out, log, sent, client>>
        /\ pc = "read"
    BY <1>1, <1>5 DEF ReadData
  <1>8. /\ req' \in Object(n) /\ Own(req', sent) /\ carry' \in PartOf(n)
        /\ req'.i = req.i \/ Among(b, req'.i)
        /\ \/ req'.MethodHTTP = "methodUnknow"
           \/ Begins(b, req'.i)
           \/ req'.i = req.i /\ req'.MethodHTTP = req.MethodHTTP
        /\ req.URI # "null" => req'.URI = req.URI
    BY <1>1, <1>6, <1>7 DEF Parsed, Typed, Own
  <1>9. w3c \in Record({0}) /\ w3c.bytes = 0 /\ w3c.method = "-"
        /\ w3c.uri = IF req.URI = "null" THEN "-" ELSE req.URI
    BY <1>7 DEF Recorded, Typed
  <1>10. w3c' \in Record({0}) /\ w3c'.bytes = 0 /\ w3c'.method = "-"
         /\ w3c'.uri = IF req'.URI = "null" THEN "-" ELSE req'.URI
    <2>1. CASE UNCHANGED <<req, w3c>>
      BY <1>9, <2>1
    <2>2. CASE req' = p.q /\ w3c' = [w3c EXCEPT !.uri = IF p.q.URI = "null" THEN @ ELSE p.q.URI]
      <3>1. p.q.URI \in Uris \cup {"null"}
        BY <1>8, <2>2 DEF Object
      <3>2. PICK u : u = IF p.q.URI = "null" THEN w3c.uri ELSE p.q.URI
        OBVIOUS
      <3>3. u \in Uris \cup {"-"}
        BY <1>9, <3>1, <3>2 DEF Record
      <3>4. w3c' = [w3c EXCEPT !.uri = u]
        BY <2>2, <3>2
      <3>5. w3c' \in Record({0}) /\ w3c'.bytes = 0 /\ w3c'.method = "-" /\ w3c'.uri = u
        BY <1>9, <3>3, <3>4 DEF Record
      <3>6. u = IF p.q.URI = "null" THEN "-" ELSE p.q.URI
        BY <1>8, <1>9, <2>2, <3>2
      <3> QED
        BY <2>2, <3>5, <3>6
    <2> QED
      BY <1>7, <2>1, <2>2
  <1>11. Typed'
    <2>1. pc' \in HandlerAt /\ result' \in Results
      BY <1>7 DEF HandlerAt, Results
    <2> QED
      BY <1>1, <1>2, <1>4, <1>7, <1>8, <1>10, <2>1 DEF Typed
  <1>12. Stream(net') /\ EndsWhole(net')
    <2>1. Stream(net) /\ EndsWhole(net)
      BY DEF Ordered
    <2> QED
      BY <1>1, <1>3, <1>7, <2>1, StreamRest
  <1>13. \A m \in DOMAIN b : m \in 1 .. k /\ m \in DOMAIN net /\ b[m] = net[m]
    BY <1>3, <1>4
  <1>14. Ahead'
    <2> SUFFICES ASSUME NEW j \in DOMAIN net'
                 PROVE  /\ NotAfter(req'.i, net'[j].i, net'[j])
                        /\ \A a \in DOMAIN out' : NotAfter(out'[a].i, net'[j].i, net'[j])
      BY DEF Ahead
    <2>1. PICK l \in DOMAIN net : l = k + j /\ net'[j] = net[l] /\ l > k
      BY <1>3, <1>4, <1>7
    <2>2. NotAfter(req.i, net[l].i, net[l]) /\ \A a \in DOMAIN out : NotAfter(out[a].i, net[l].i, net[l])
      BY <2>1 DEF Ordered, Ahead
    <2>3. NotAfter(req'.i, net[l].i, net[l])
      <3>1. CASE Among(b, req'.i)
        <4>1. PICK m \in DOMAIN net : m \in 1 .. k /\ net[m].i = req'.i
          BY <1>13, <3>1 DEF Among
        <4>2. m < l
          BY <2>1, <4>1
        <4> QED
          BY <2>1, <4>1, <4>2 DEF Ordered, Stream, NotAfter
      <3> QED
        BY <1>8, <2>2, <3>1
    <2> QED
      BY <1>7, <2>1, <2>2, <2>3
  <1>15. Latest'
    <2> SUFFICES ASSUME req'.i # 0, NEW a \in DOMAIN out
                 PROVE  out[a].i <= req'.i /\ (req'.MethodHTTP # "methodUnknow" => out[a].i < req'.i)
      BY <1>7 DEF Latest
    <2>1. \A m \in DOMAIN net : NotAfter(out[a].i, net[m].i, net[m])
      BY DEF Ordered, Ahead
    <2>2. req.i # 0 => out[a].i <= req.i /\ (req.MethodHTTP # "methodUnknow" => out[a].i < req.i)
      BY <1>7 DEF Ordered, Latest
    <2>3. Among(b, req'.i) => out[a].i <= req'.i
      BY <1>13, <2>1 DEF Among, NotAfter
    <2>4. Begins(b, req'.i) => out[a].i < req'.i
      BY <1>13, <2>1 DEF Begins, NotAfter
    <2> QED
      BY <1>8, <2>2, <2>3, <2>4
  <1>16. AnswersInOrder'
    BY <1>7 DEF Ordered, AnswersInOrder
  <1>17. Recorded'
    <2>1. /\ pc' \in {"read", "method", "crashed"} /\ result' # "timeout"
          /\ UNCHANGED <<out, log, sent>>
      BY <1>7
    <2>2. /\ Len(log) = Len(out)
          /\ \A a \in DOMAIN log : a \in DOMAIN out /\ Describes(log[a], out[a], sent)
      BY <1>7 DEF Recorded, Typed, Whole
    <2>3. Whole' - 0 = Len(out)
      BY <2>1 DEF Typed, Whole
    <2> QED
      BY <1>10, <2>1, <2>2, <2>3 DEF Recorded
  <1> QED
    BY <1>11, <1>12, <1>14, <1>15, <1>16, <1>17 DEF Ordered

\* The object a request begins with is typed, and says nothing.
LEMMA FreshTyped ==
    ASSUME NEW n \in Nat, NEW S
    PROVE  /\ FreshRequest \in Object(n) /\ Own(FreshRequest, S)
           /\ FreshRequest.i = 0 /\ FreshRequest.URI = "null"
  <1>1. 200 \in Statuses /\ "methodUnknow" \in Handlers /\ 0 \in 0 .. n /\ {} \in SUBSET (1 .. n)
    BY DEF Statuses, Handlers
  <1>2. FreshRequest \in Object(n)
    BY <1>1 DEF FreshRequest, Object
  <1> QED
    BY <1>2 DEF FreshRequest, Own

LEMMA RequestCreated ==
    ASSUME IndInv, CreateRequest
    PROVE  IndInv'
  <1> USE DEF IndInv
  <1>1. /\ pc = "create" /\ Len(out) < MaxResponses /\ req' = FreshRequest /\ pc' = "read"
        /\ UNCHANGED <<w3c, result, carry, errno, out, log, sent, net, client>>
    BY DEF CreateRequest, clientVars
  <1>2. req' \in Object(Len(sent)) /\ Own(req', sent) /\ req'.i = 0 /\ req'.URI = "null"
    <2>1. PICK n \in Nat : n = Len(sent)
      BY DEF Typed
    <2>2. /\ FreshRequest \in Object(n) /\ Own(FreshRequest, sent)
          /\ FreshRequest.i = 0 /\ FreshRequest.URI = "null"
      BY FreshTyped
    <2> QED
      BY <1>1, <2>1, <2>2
  <1>3. Typed'
    BY <1>1, <1>2 DEF Typed, HandlerAt
  <1>4. Ahead'
    <2> SUFFICES ASSUME NEW j \in DOMAIN net
                 PROVE  /\ NotAfter(0, net[j].i, net[j])
                        /\ \A a \in DOMAIN out : NotAfter(out[a].i, net[j].i, net[j])
      BY <1>1, <1>2 DEF Ahead
    <2>1. net[j] \in UnitOf(Len(sent))
      BY DEF Typed
    <2>2. NotAfter(0, net[j].i, net[j])
      BY <2>1 DEF NotAfter, UnitOf
    <2> QED
      BY <2>2 DEF Ordered, Ahead
  <1>5. Ordered'
    BY <1>1, <1>2, <1>4 DEF Ordered, Latest, AnswersInOrder
  <1>6. Recorded'
    BY <1>1, <1>2 DEF Recorded, NoRecord, Whole
  <1> QED
    BY <1>3, <1>5, <1>6

\* A step that answers nothing and reads nothing.
LEMMA QuietStep ==
    ASSUME IndInv, UNCHANGED <<req, sent, net, out>>,
           client' \in {"open", "half", "gone"}, pc' \in HandlerAt, result' \in Results, errno' \in Errno,
           carry' = carry, w3c' \in Record({0}), log' \in Seq(Record(Statuses)), Recorded',
           pc' \in {"read", "method"} => pc \in {"read", "method"}
    PROVE  IndInv'
  <1>1. Typed'
    BY DEF IndInv, Typed
  <1>2. Ordered'
    BY DEF IndInv, Ordered, Ahead, Latest, AnswersInOrder
  <1> QED
    BY <1>1, <1>2 DEF IndInv

LEMMA OtherSteps ==
    ASSUME IndInv,
           \/ \E how \in {"half", "gone"} : Leave(how)
           \/ ReadTimeout \/ ReadError \/ ReadEof \/ NullUri \/ Loop \/ SemopInterrupted
    PROVE  IndInv'
  <1> USE DEF IndInv
  <1>1. w3c \in Record({0}) /\ log \in Seq(Record(Statuses)) /\ errno \in Errno /\ result \in Results
        /\ client \in {"open", "half", "gone"} /\ pc \in HandlerAt /\ Len(out) \in Nat
    BY DEF Typed
  <1>2. CASE \E how \in {"half", "gone"} : Leave(how)
    <2>1. UNCHANGED <<pc, req, w3c, result, carry, errno, out, log, sent, net>> /\ client' \in {"half", "gone"}
      BY <1>2 DEF Leave, handlerVars
    <2>2. Recorded'
      BY <2>1 DEF Recorded, Whole
    <2> QED
      BY <1>1, <2>1, <2>2, QuietStep
  <1>3. CASE ReadTimeout
    <2>1. /\ pc = "read" /\ result' = "timeout" /\ pc' = "log"
          /\ UNCHANGED <<req, w3c, carry, errno, out, log, sent, net, client>>
      BY <1>3 DEF ReadTimeout, clientVars
    <2>2. Recorded'
      BY <1>1, <2>1 DEF Recorded, Whole
    <2>3. result' \in Results /\ pc' \in HandlerAt
      BY <2>1 DEF Results, HandlerAt
    <2> QED
      BY <1>1, <2>1, <2>2, <2>3, QuietStep
  <1>4. CASE ReadError \/ ReadEof
    <2>1. /\ pc = "read" /\ result' \in {"error", "eof"} /\ pc' = "method" /\ errno' \in {errno, "EINTR"}
          /\ UNCHANGED <<req, w3c, carry, out, log, sent, net, client>>
      BY <1>4 DEF ReadError, ReadEof, clientVars
    <2>2. Recorded'
      BY <1>1, <2>1 DEF Recorded, Whole
    <2>3. result' \in Results /\ pc' \in HandlerAt /\ errno' \in Errno
      BY <1>1, <2>1 DEF Results, HandlerAt, Errno
    <2> QED
      BY <1>1, <2>1, <2>2, <2>3, QuietStep
  <1>5. CASE NullUri
    <2>1. /\ pc = "method" /\ pc' = "crashed"
          /\ UNCHANGED <<req, w3c, result, carry, errno, out, log, sent, net, client>>
      BY <1>5 DEF NullUri, clientVars
    <2>2. Recorded'
      BY <1>1, <2>1 DEF Recorded, Whole
    <2>3. pc' \in HandlerAt
      BY <2>1 DEF HandlerAt
    <2> QED
      BY <1>1, <2>1, <2>2, <2>3, QuietStep
  <1>6. CASE Loop
    <2>1. /\ pc = "loop" /\ pc' \in {"create", "closed"} /\ (result = "timeout" => pc' = "closed")
          /\ UNCHANGED <<req, w3c, result, carry, errno, out, log, sent, net, client>>
      BY <1>6 DEF Loop, clientVars
    <2>2. Recorded'
      BY <1>1, <2>1 DEF Recorded, Whole
    <2>3. pc' \in HandlerAt
      BY <2>1 DEF HandlerAt
    <2> QED
      BY <1>1, <2>1, <2>2, <2>3, QuietStep
  <1>7. CASE SemopInterrupted
    <2>1. /\ errno' = "EINTR"
          /\ UNCHANGED <<pc, req, w3c, result, carry, out, log, sent, net, client>>
      BY <1>7 DEF SemopInterrupted, clientVars
    <2>2. Recorded'
      BY <2>1 DEF Recorded, Whole
    <2>3. errno' \in Errno
      BY <2>1 DEF Errno
    <2> QED
      BY <1>1, <2>1, <2>2, <2>3, QuietStep
  <1> QED
    BY <1>2, <1>3, <1>4, <1>5, <1>6, <1>7

\* What getLengthFile finds: 200 only with the status it was given.
LEMMA LengthFound ==
    ASSUME IndInv, pc = "method", req.MethodHTTP \in {"methodGet", "methodHead"}
    PROVE  /\ GetLengthFile(req).status \in Statuses
           /\ GetLengthFile(req).errno \in Errno
           /\ GetLengthFile(req).size \in {-1, 0, FileSize}
  <1>1. /\ req.status \in Statuses /\ errno \in Errno
        /\ req.URI \in {"file", "empty", "missing", "denied", "dir", "dotdot", "null"}
    BY DEF IndInv, Typed, Object, Own, Uris
  <1>2. \A e \in Errno, s \in Statuses : StatusByErrno(e, s) \in Statuses
    BY DEF StatusByErrno, Statuses, Errno
  <1>3. {"ENOENT", "EACCES", "EFAULT"} \subseteq Errno /\ {400, 404} \subseteq Statuses
    BY DEF Errno, Statuses
  <1> DEFINE failed(status, e) == [status |-> StatusByErrno(e, status), errno |-> e, size |-> -1]
  <1>4. \A e \in Errno, s \in Statuses :
            failed(s, e).status \in Statuses /\ failed(s, e).errno \in Errno /\ failed(s, e).size = -1
    BY <1>2
  <1> HIDE DEF failed
  <1>5. CASE req.URI \in {"file", "empty"}
    BY <1>1, <1>5 DEF GetLengthFile
  <1>6. CASE req.URI = "missing"
    <2>1. GetLengthFile(req) = failed(req.status, "ENOENT")
      BY <1>6 DEF GetLengthFile, failed
    <2> QED
      BY <1>1, <1>3, <1>4, <2>1
  <1>7. CASE req.URI = "denied"
    <2>1. GetLengthFile(req) = failed(req.status, "EACCES")
      BY <1>7 DEF GetLengthFile, failed
    <2> QED
      BY <1>1, <1>3, <1>4, <2>1
  <1>8. CASE req.URI = "dir"
    <2>1. GetLengthFile(req) = failed(404, errno)
      BY <1>8 DEF GetLengthFile, failed
    <2> QED
      BY <1>1, <1>3, <1>4, <2>1
  <1>9. CASE req.URI = "dotdot"
    <2>1. GetLengthFile(req) = failed(400, errno)
      BY <1>9 DEF GetLengthFile, failed
    <2> QED
      BY <1>1, <1>3, <1>4, <2>1
  <1>10. CASE req.URI = "null"
    <2>1. GetLengthFile(req) = failed(404, "EFAULT")
      BY <1>10 DEF GetLengthFile, failed
    <2> QED
      BY <1>1, <1>3, <1>4, <2>1
  <1> QED
    BY <1>1, <1>5, <1>6, <1>7, <1>8, <1>9, <1>10

LEMMA ResponseTyped ==
    ASSUME IndInv, NEW status \in Statuses, NEW size \in {-1, 0, FileSize}, NEW n \in 0 .. ChunkedSize(FileSize)
    PROVE  /\ Response(status, size, n) \in Answer(Len(sent))
           /\ Response(status, size, n).i = req.i
           /\ Response(status, size, n).status = status
           /\ Response(status, size, n).body = n
  <1>1. req.i \in 0 .. Len(sent) /\ req.keepAlive \in BOOLEAN /\ Len(sent) \in Nat
    BY DEF IndInv, Typed, Object
  <1>2. CASE status = 200
    <2>1. PICK f \in {"chunked", "length", "none"}, d \in 0 .. FileSize :
              Response(status, size, n) =
                [i |-> req.i, status |-> 200, keep |-> req.keepAlive, body |-> n, framing |-> f, declared |-> d]
      <3>1. (IF req.chunk THEN "chunked" ELSE IF size > 0 THEN "length" ELSE "none") \in {"chunked", "length", "none"}
        OBVIOUS
      <3>2. (IF req.chunk \/ size < 0 THEN 0 ELSE size) \in 0 .. FileSize
        BY DEF FileSize
      <3> QED
        BY <1>2, <3>1, <3>2 DEF Response
    <2> QED
      BY <1>1, <1>2, <2>1 DEF Answer
  <1>3. CASE status # 200
    <2>1. Response(status, size, n) =
              [i |-> req.i, status |-> status, keep |-> FALSE, body |-> n, framing |-> "length", declared |-> ErrorSize]
      BY <1>3 DEF Response
    <2>2. ErrorSize \in 0 .. FileSize
      BY DEF ErrorSize, FileSize
    <2> QED
      BY <1>1, <2>1, <2>2 DEF Answer
  <1> QED
    BY <1>2, <1>3

\* o with the response x after the others.
Longer(o, p, x) ==
    /\ Len(p) = Len(o) + 1 /\ DOMAIN p = 1 .. Len(o) + 1
    /\ p[Len(o) + 1] = x /\ \A n \in DOMAIN o : n \in DOMAIN p /\ p[n] = o[n]

\* One more response to the request being answered, whole or not, keeps the order.
LEMMA OneResponseMore ==
    ASSUME IndInv, pc = "method", NEW x \in Answer(Len(sent)), x.i = req.i,
           req.MethodHTTP = "methodUnknow" => x.status = 400,
           out' = Append(out, x), req'.i = req.i, pc' \notin {"read", "method"}, UNCHANGED <<net, sent>>
    PROVE  out' \in Seq(Answer(Len(sent))) /\ Longer(out, out', x) /\ Ordered'
  <1> USE DEF IndInv
  <1>0. PICK X : X = Answer(Len(sent)) /\ out \in Seq(X)
    BY DEF Typed
  <1>1. PICK m \in Nat : m = Len(out) /\ DOMAIN out = 1 .. m
    BY <1>0
  <1>2. /\ out' \in Seq(Answer(Len(sent))) /\ Len(out') = m + 1 /\ DOMAIN out' = 1 .. m + 1
        /\ out'[m + 1] = x /\ \A n \in 1 .. m : out'[n] = out[n]
    BY <1>1 DEF Typed
  <1>3. \A n \in 1 .. m + 1 : n \in 1 .. m \/ n = m + 1
    OBVIOUS
  <1>4. Longer(out, out', x)
    BY <1>1, <1>2 DEF Longer
  <1>5. Ahead'
    BY <1>1, <1>2, <1>3 DEF Ordered, Ahead
  <1>6. AnswersInOrder'
    <2> SUFFICES ASSUME NEW j \in 1 .. m + 1, NEW k \in 1 .. m + 1, j < k, out'[j].i # 0, out'[k].i # 0
                 PROVE  out'[j].i < out'[k].i \/ (out'[j].i = out'[k].i /\ out'[k].status = 400)
      BY <1>2 DEF AnswersInOrder
    <2>1. j \in 1 .. m
      OBVIOUS
    <2>2. CASE k \in 1 .. m
      BY <1>1, <1>2, <2>1, <2>2 DEF Ordered, AnswersInOrder
    <2>3. CASE k = m + 1
      <3>1. out'[k] = x /\ out'[j] = out[j] /\ req.i # 0
        BY <1>2, <2>1, <2>3
      <3>2. out[j].i <= req.i /\ (req.MethodHTTP # "methodUnknow" => out[j].i < req.i)
        BY <1>1, <2>1, <3>1 DEF Ordered, Latest
      <3>3. out[j].i \in Nat /\ req.i \in Nat
        <4>1. out[j] \in Answer(Len(sent)) /\ req \in Object(Len(sent))
          BY <1>1, <2>1 DEF Typed
        <4> QED
          BY <4>1 DEF Answer, Object
      <3>4. CASE req.MethodHTTP = "methodUnknow"
        <4>1. out'[k].status = 400 /\ out'[k].i = req.i /\ out'[j].i = out[j].i
          BY <3>1, <3>4
        <4>2. out[j].i < req.i \/ out[j].i = req.i
          BY <3>2, <3>3
        <4> QED
          BY <4>1, <4>2
      <3>5. CASE req.MethodHTTP # "methodUnknow"
        BY <3>1, <3>2, <3>5
      <3> QED
        BY <3>4, <3>5
    <2>4. k \in 1 .. m \/ k = m + 1
      BY <1>3
    <2> QED
      BY <2>2, <2>3, <2>4
  <1>7. Ordered'
    BY <1>5, <1>6 DEF Ordered, Latest
  <1> QED
    BY <1>2, <1>4, <1>7

\* The client was gone: the process dies, and nothing is recorded.
LEMMA BrokenPipeStep ==
    ASSUME IndInv, pc = "method", NEW a \in Answer(Len(sent)), a.i = req.i,
           req.MethodHTTP = "methodUnknow" => a.status = 400,
           BrokenPipe(a), UNCHANGED <<result, carry, log, sent, net, client>>, errno' \in Errno
    PROVE  IndInv'
  <1> USE DEF IndInv
  <1>1. pc' \in {"crashed", "cut"} /\ UNCHANGED <<req, w3c>>
    BY DEF BrokenPipe
  <1>2. /\ Len(log) = Len(out) /\ Len(out) \in Nat
        /\ \A n \in DOMAIN log : n \in DOMAIN out /\ Describes(log[n], out[n], sent)
    BY DEF Recorded, Typed, Whole
  <1>3. CASE pc' = "crashed"
    <2>1. out' = out
      BY <1>3 DEF BrokenPipe
    <2>2. Whole' = Len(out)
      BY <1>2, <1>3, <2>1 DEF Whole
    <2>3. Recorded'
      BY <1>1, <1>2, <1>3, <2>1, <2>2 DEF Recorded
    <2>4. /\ client' \in {"open", "half", "gone"} /\ pc' \in HandlerAt /\ result' \in Results
          /\ w3c' \in Record({0}) /\ log' \in Seq(Record(Statuses))
      BY <1>1, <1>3 DEF Typed, HandlerAt
    <2> QED
      BY <1>1, <1>3, <2>1, <2>3, <2>4, QuietStep
  <1>4. CASE pc' = "cut"
    <2>1. PICK x : x = [a EXCEPT !.body = 0]
      OBVIOUS
    <2>2. out' = Append(out, x)
      BY <1>4, <2>1 DEF BrokenPipe
    <2>3. x \in Answer(Len(sent)) /\ x.i = a.i /\ x.status = a.status
      <3>1. 0 \in 0 .. ChunkedSize(FileSize)
        BY DEF ChunkedSize, FileSize
      <3>2. x \in Answer(Len(sent))
        BY <2>1, <3>1 DEF Answer
      <3> QED
        BY <2>1, <3>2 DEF Answer
    <2>4. out' \in Seq(Answer(Len(sent))) /\ Longer(out, out', x) /\ Ordered'
      BY <1>1, <1>4, <2>2, <2>3, OneResponseMore
    <2>5. Len(out') <= MaxResponses
      BY <1>2, <2>4, ConstantsAssumption DEF Longer, Typed
    <2>6. Typed'
      BY <1>1, <1>4, <2>4, <2>5 DEF Typed, HandlerAt
    <2>7. Whole' = Len(out)
      BY <1>2, <1>4, <2>4 DEF Whole, Longer
    <2>8. \A n \in DOMAIN log : n \in DOMAIN out' /\ Describes(log[n], out'[n], sent)
      BY <1>2, <2>4 DEF Longer
    <2>9. Recorded'
      BY <1>1, <1>2, <1>4, <2>7, <2>8 DEF Recorded
    <2> QED
      BY <2>4, <2>6, <2>9
  <1> QED
    BY <1>1, <1>3, <1>4

\* A method that describes its response truly in the record of the log.
LEMMA Responded ==
    ASSUME IndInv, pc = "method",
           NEW a \in Answer(Len(sent)), a.i = req.i,
           NEW name \in Names, NEW bytes \in -1 .. ChunkedSize(FileSize),
           Respond(a, name, bytes), errno' \in Errno,
           req.MethodHTTP = "methodUnknow" => a.status = 400,
           name # "UNKNOW" => req.i \in DOMAIN sent /\ name = sent[req.i].method,
           name = "GET" /\ a.status = 200 => bytes \in {a.body, -1}
    PROVE  IndInv'
  <1> USE DEF IndInv
  <1>0. CASE BrokenPipe(a)
    BY <1>0, BrokenPipeStep DEF Respond, clientVars
  <1>1. CASE /\ out' = Append(out, a)
             /\ w3c' = [w3c EXCEPT !.method = name, !.bytes = @ + bytes]
             /\ req' = [req EXCEPT !.status = a.status]
             /\ pc' = "log"
    <2>1. UNCHANGED <<result, carry, log, sent, net, client>>
      BY DEF Respond, clientVars
    <2>2. PICK N : N = Len(sent)
      OBVIOUS
    <2>3. PICK m \in Nat : m = Len(out) /\ DOMAIN out = 1 .. m
      BY DEF Typed
    <2>4. w3c \in Record({0}) /\ w3c.bytes = 0 /\ w3c.uri = IF req.URI = "null" THEN "-" ELSE req.URI
      BY DEF Recorded, Typed
    <2>5. /\ w3c' \in Record({0}) /\ w3c'.uri = w3c.uri /\ w3c'.method = name /\ w3c'.bytes = bytes
          /\ w3c'.status = 0
      <3>1. w3c.bytes + bytes = bytes
        BY <2>4
      <3>2. w3c' = [w3c EXCEPT !.method = name, !.bytes = bytes]
        BY <1>1, <3>1
      <3>3. /\ w3c'.uri = w3c.uri /\ w3c'.method = name /\ w3c'.bytes = bytes
            /\ w3c'.status = 0
        BY <2>4, <3>2 DEF Record
      <3>4. w3c' \in Record({0})
        BY <2>4, <3>2 DEF Record
      <3> QED
        BY <3>3, <3>4
    <2>6. req' \in Object(N) /\ req'.i = req.i /\ req'.URI = req.URI /\ req'.status = a.status
          /\ req'.version = req.version /\ req'.MethodHTTP = req.MethodHTTP
      <3>1. req \in Object(N) /\ a.status \in Statuses
        BY <2>2 DEF Typed, Answer
      <3> QED
        BY <1>1, <3>1 DEF Object
    <2>7. Own(req', sent)
      BY <2>6 DEF Own, Typed
    <2>8. out' \in Seq(Answer(N)) /\ Longer(out, out', a) /\ Ordered'
      BY <1>1, <2>1, <2>2, <2>6, OneResponseMore
    <2>9. Len(out') = m + 1 /\ m + 1 <= MaxResponses
      BY <2>3, <2>8, ConstantsAssumption DEF Longer, Typed
    <2>10. Typed'
      BY <1>1, <2>1, <2>2, <2>5, <2>6, <2>7, <2>8, <2>9 DEF Typed, HandlerAt
    <2>11. Recorded'
      <3>1. PICK w : w = [w3c' EXCEPT !.status = req'.status]
        OBVIOUS
      <3>2. w.status = a.status /\ w.method = name /\ w.uri = w3c.uri /\ w.bytes = bytes
        BY <2>5, <2>6, <3>1 DEF Record
      <3>3. w.uri # "-" => req.i \in DOMAIN sent /\ w.uri = sent[req.i].uri
        BY <2>4, <3>2 DEF Typed, Own
      <3>4. Describes(w, a, sent)
        BY <3>2, <3>3 DEF Describes
      <3>5. Describes([w3c EXCEPT !.status = req.status], out[Len(out)], sent)'
        BY <2>1, <2>3, <2>8, <2>9, <3>1, <3>4 DEF Longer
      <3>6. /\ Len(log) = m /\ result # "timeout"
            /\ \A n \in DOMAIN log : n \in DOMAIN out /\ Describes(log[n], out[n], sent)
        BY <2>3 DEF Recorded, Whole
      <3>7. \A n \in DOMAIN log : n \in DOMAIN out' /\ Describes(log[n], out'[n], sent)
        BY <2>8, <3>6 DEF Longer
      <3>8. out' # <<>>
        BY <2>8, <2>9
      <3>9. Whole' = m + 1
        BY <1>1, <2>9 DEF Whole
      <3> QED
        BY <1>1, <2>1, <3>5, <3>6, <3>7, <3>8, <3>9 DEF Recorded
    <2> QED
      BY <2>8, <2>10, <2>11
  <1> QED
    BY <1>0, <1>1 DEF Respond

LEMMA MethodGetResponds ==
    ASSUME IndInv, MethodGet
    PROVE  IndInv'
  <1>1. PICK f, s, n, bytes :
            /\ f = GetLengthFile(req) /\ s = f.size /\ n = BodySize(f)
            /\ bytes = (IF f.status # 200 THEN 0 ELSE IF s < 0 THEN -1 ELSE n)
    OBVIOUS
  <1>2. /\ pc = "method" /\ req.MethodHTTP = "methodGet"
        /\ errno' = f.errno /\ Respond(Response(f.status, s, n), "GET", bytes)
    BY <1>1 DEF MethodGet
  <1>3. f.status \in Statuses /\ f.errno \in Errno /\ s \in {-1, 0, FileSize}
    BY <1>1, <1>2, LengthFound
  <1>4. n \in 0 .. ChunkedSize(FileSize)
    BY <1>1, <1>3 DEF BodySize, ChunkedSize, FileSize, ErrorSize
  <1>5. PICK a : a = Response(f.status, s, n)
    OBVIOUS
  <1>6. a \in Answer(Len(sent)) /\ a.i = req.i /\ a.status = f.status /\ a.body = n
    BY <1>3, <1>4, <1>5, ResponseTyped
  <1>7. bytes \in -1 .. ChunkedSize(FileSize) /\ (f.status = 200 => bytes \in {n, -1})
    BY <1>1, <1>4 DEF ChunkedSize, FileSize
  <1>8. req.i \in DOMAIN sent /\ sent[req.i].method = "GET"
    BY <1>2 DEF IndInv, Typed, Own
  <1>9. "GET" \in Names
    BY DEF Names, Methods
  <1> QED
    BY <1>2, <1>3, <1>5, <1>6, <1>7, <1>8, <1>9, Responded

LEMMA MethodHeadResponds ==
    ASSUME IndInv, MethodHead
    PROVE  IndInv'
  <1>1. PICK f, n : f = GetLengthFile(req) /\ n = (IF f.status = 200 THEN 0 ELSE ErrorSize)
    OBVIOUS
  <1>2. /\ pc = "method" /\ req.MethodHTTP = "methodHead"
        /\ errno' = f.errno /\ Respond(Response(f.status, f.size, n), "HEAD", 0)
    BY <1>1 DEF MethodHead
  <1>3. f.status \in Statuses /\ f.errno \in Errno /\ f.size \in {-1, 0, FileSize}
    BY <1>1, <1>2, LengthFound
  <1>4. n \in 0 .. ChunkedSize(FileSize) /\ 0 \in -1 .. ChunkedSize(FileSize)
    BY <1>1 DEF ChunkedSize, FileSize, ErrorSize
  <1>5. PICK a : a = Response(f.status, f.size, n)
    OBVIOUS
  <1>6. a \in Answer(Len(sent)) /\ a.i = req.i
    BY <1>3, <1>4, <1>5, ResponseTyped
  <1>7. req.i \in DOMAIN sent /\ sent[req.i].method = "HEAD"
    BY <1>2 DEF IndInv, Typed, Own
  <1>8. "HEAD" \in Names
    BY DEF Names, Methods
  <1> QED
    BY <1>2, <1>3, <1>4, <1>5, <1>6, <1>7, <1>8, Responded

LEMMA StubsRespond ==
    ASSUME IndInv, MethodStub \/ MethodUnknow
    PROVE  IndInv'
  <1>1. {501, 400} \subseteq Statuses /\ -1 \in {-1, 0, FileSize} /\ StubSize \in 0 .. ChunkedSize(FileSize)
        /\ 0 \in -1 .. ChunkedSize(FileSize)
    BY DEF Statuses, StubSize, ChunkedSize, FileSize
  <1>2. errno' \in Errno
    BY DEF IndInv, Typed, MethodStub, MethodUnknow
  <1>3. CASE MethodStub
    <2>1. PICK a : a = Response(501, -1, StubSize)
      OBVIOUS
    <2>2. a \in Answer(Len(sent)) /\ a.i = req.i /\ a.status = 501
      BY <1>1, <2>1, ResponseTyped
    <2>3. /\ pc = "method" /\ req.MethodHTTP = "stub"
          /\ Respond(a, sent[req.i].method, 0)
      BY <1>3, <2>1 DEF MethodStub
    <2>4. req.i \in DOMAIN sent /\ sent \in Seq(Requests) /\ req.i \in 0 .. Len(sent)
      BY <2>3 DEF IndInv, Typed, Own, Object
    <2>5. sent[req.i].method \in Names
      <3>1. req.i \in 1 .. Len(sent)
        BY <2>4
      <3> QED
        BY <2>4, <3>1, SentRequest DEF Names
    <2> QED
      BY <1>1, <1>2, <2>2, <2>3, <2>4, <2>5, Responded
  <1>4. CASE MethodUnknow
    <2>1. PICK a : a = Response(400, -1, StubSize)
      OBVIOUS
    <2>2. a \in Answer(Len(sent)) /\ a.i = req.i /\ a.status = 400
      BY <1>1, <2>1, ResponseTyped
    <2>3. pc = "method" /\ Respond(a, "UNKNOW", 0)
      BY <1>4, <2>1 DEF MethodUnknow
    <2>4. "UNKNOW" \in Names
      BY DEF Names
    <2> QED
      BY <1>1, <1>2, <2>2, <2>3, <2>4, Responded
  <1> QED
    BY <1>3, <1>4

LEMMA Logs ==
    ASSUME IndInv, Log
    PROVE  IndInv'
  <1> USE DEF IndInv
  <1>1. PICK w : w = [w3c EXCEPT !.status = req.status]
    OBVIOUS
  <1>2. /\ pc = "log" /\ log' = (IF result = "timeout" THEN log ELSE Append(log, w))
        /\ w3c' = NoRecord /\ pc' = "loop"
        /\ UNCHANGED <<req, result, carry, errno, out, sent, net, client>>
    BY <1>1 DEF Log, clientVars
  <1>3. w \in Record(Statuses)
    <2>1. w3c \in Record({0}) /\ req.status \in Statuses
      BY DEF Typed, Object
    <2> QED
      BY <1>1, <2>1 DEF Record
  <1>4. log \in Seq(Record(Statuses)) /\ Len(log) \in Nat /\ DOMAIN log = 1 .. Len(log)
    BY DEF Typed
  <1>5. log' \in Seq(Record(Statuses))
    BY <1>2, <1>3, <1>4
  <1>6. w3c' \in Record({0})
    BY <1>2 DEF NoRecord, Record, Names, ChunkedSize, FileSize
  <1>7. Recorded'
    <2>0. Whole = Len(out) /\ Whole' = Len(out)
      <3>1. Len(out) \in Nat
        BY DEF Typed
      <3> QED
        BY <1>2, <3>1 DEF Whole
    <2>1. CASE result = "timeout"
      BY <1>2, <2>0, <2>1 DEF Recorded
    <2>2. CASE result # "timeout"
      <3>1. PICK m \in Nat : m = Len(log)
        BY <1>4
      <3>2. Len(out) = m + 1 /\ DOMAIN out = 1 .. m + 1 /\ Describes(w, out[m + 1], sent)
        <4>1. Len(log) = Len(out) - 1 /\ Describes(w, out[Len(out)], sent)
          BY <1>1, <1>2, <2>0, <2>2 DEF Recorded
        <4>2. Len(out) \in Nat /\ DOMAIN out = 1 .. Len(out)
          BY DEF Typed
        <4> QED
          BY <3>1, <4>1, <4>2
      <3>3. Len(log') = m + 1 /\ log'[m + 1] = w /\ \A n \in 1 .. m : log'[n] = log[n]
        BY <1>2, <1>4, <2>2, <3>1
      <3>4. \A n \in 1 .. m + 1 : Describes(log'[n], out[n], sent)
        <4> TAKE n \in 1 .. m + 1
        <4>1. CASE n \in 1 .. m
          BY <1>2, <1>4, <3>1, <3>3, <4>1 DEF Recorded
        <4>2. CASE n = m + 1
          BY <3>2, <3>3, <4>2
        <4> QED
          BY <4>1, <4>2
      <3>5. DOMAIN log' = 1 .. m + 1
        BY <1>5, <3>3
      <3>6. m + 1 = m + 1 - 0
        OBVIOUS
      <3> QED
        BY <1>2, <2>0, <3>2, <3>3, <3>4, <3>5, <3>6 DEF Recorded
    <2> QED
      BY <2>1, <2>2
  <1>8. pc' \in HandlerAt /\ result' \in Results /\ errno' \in Errno /\ client' \in {"open", "half", "gone"}
    BY <1>2 DEF HandlerAt, Typed
  <1> QED
    BY <1>2, <1>5, <1>6, <1>7, <1>8, QuietStep

LEMMA IndInvNext == IndInv /\ [Next]_vars => IndInv'
  <1> SUFFICES ASSUME IndInv, [Next]_vars PROVE IndInv'
    OBVIOUS
  <1>1. CASE HandlerStep
    <2>1. \/ CreateRequest
          \/ ReadTimeout \/ ReadError \/ ReadEof \/ NullUri \/ Loop
          \/ \E k \in 1 .. Len(net) : ReadData(k)
          \/ MethodGet
          \/ MethodHead
          \/ MethodStub \/ MethodUnknow
          \/ Log
      BY <1>1 DEF HandlerStep
    <2> QED
      BY <2>1, RequestCreated, OtherSteps, DataRead, MethodGetResponds, MethodHeadResponds, StubsRespond, Logs
  <1>2. CASE ClientStep
    BY <1>2, RequestSent, OtherSteps DEF ClientStep
  <1>3. CASE SemopInterrupted
    BY <1>3, OtherSteps
  <1>4. CASE UNCHANGED vars
    <2>1. UNCHANGED <<pc, req, w3c, result, carry, errno, out, log, sent, net, client>>
      BY <1>4 DEF vars, handlerVars, clientVars
    <2>2. Typed'
      BY <2>1 DEF IndInv, Typed
    <2>3. Ordered'
      BY <2>1 DEF IndInv, Ordered, Ahead, Latest, AnswersInOrder
    <2>4. Recorded'
      BY <2>1 DEF IndInv, Recorded, Whole
    <2> QED
      BY <2>2, <2>3, <2>4 DEF IndInv
  <1> QED
    BY <1>1, <1>2, <1>3, <1>4 DEF Next

LEMMA Invariant == Spec => []IndInv
  BY IndInvInit, IndInvNext, PTL DEF Spec

\* Type correctness, for every set of requests and all bounds.
THEOREM TypeCorrect == Spec => []TypeOK
  <1>1. IndInv => TypeOK
    <2> SUFFICES ASSUME IndInv PROVE TypeOK
      OBVIOUS
    <2>1. Len(sent) \in Nat /\ Len(sent) <= MaxRequests /\ MaxRequests \in Nat
      BY ConstantsAssumption DEF IndInv, Typed
    <2>2. 0 .. Len(sent) \subseteq 0 .. MaxRequests /\ 1 .. Len(sent) \subseteq 1 .. MaxRequests
      BY <2>1
    <2>3. req \in [version : {"undefined", "1.0", "1.1"}, status : Statuses, keepAlive : BOOLEAN,
                   chunk : BOOLEAN, MethodHTTP : Handlers, URI : Uris \cup {"null"},
                   i : 0 .. MaxRequests, applied : SUBSET (1 .. MaxRequests)]
      BY <2>2 DEF IndInv, Typed, Object
    <2>4. carry \in [h : HeaderTexts \cup {"none", "junk"}, i : 0 .. MaxRequests]
      BY <2>1, <2>2 DEF IndInv, Typed, PartOf, NoCarry
    <2>5. w3c.status = 0 /\ w3c.bytes \in -1 .. ChunkedSize(FileSize)
      BY DEF IndInv, Typed, Record
    <2> QED
      BY <2>3, <2>4, <2>5 DEF IndInv, Typed, TypeOK
  <1> QED
    BY <1>1, Invariant, PTL

\* However a stream is cut and joined, and whatever signals arrive: no request is answered
\* after a later one, and none but with 400 when it was answered before.
THEOREM InOrder == Spec => []AnswersInOrder
  <1>1. IndInv => AnswersInOrder
    BY DEF IndInv, Ordered
  <1> QED
    BY <1>1, Invariant, PTL

\* Each record of the access log describes the response it was written for, and a response
\* that was cut short has none: the static record carries nothing from one request of the
\* connection to the next.
THEOREM RecordsCorrect == Spec => []LogMatchesWire
  <1>1. IndInv => LogMatchesWire
    BY DEF IndInv, Recorded, Describes, LogMatchesWire
  <1> QED
    BY <1>1, Invariant, PTL

-----------------------------------------------------------------------------
(* Headers: the static buffer and the object of each request.              *)

\* Between two beginnings of requests all units are of one request.
LEMMA SameRequest ==
    ASSUME NEW X, NEW s \in Seq(X), Stream(s), NEW a \in 1 .. Len(s), NEW z \in a .. Len(s),
           \A k \in a + 1 .. z : s[k].kind # "M"
    PROVE  s[z].i = s[a].i
  <1> DEFINE S == {k \in a .. z : s[k].i # s[a].i}
  <1>1. SUFFICES ASSUME S # {} PROVE FALSE
    OBVIOUS
  <1>2. S \subseteq Nat
    OBVIOUS
  <1>3. PICK k \in S : \A l \in S : k <= l
    BY <1>1, <1>2, LeastElement
  <1>4. k \in a + 1 .. z /\ k - 1 \in a .. z /\ k - 1 \notin S
    BY <1>3
  <1>5. s[k - 1].i = s[a].i
    BY <1>4
  <1>6. k - 1 \in DOMAIN s /\ (k - 1) + 1 \in DOMAIN s /\ (k - 1) + 1 = k
    BY <1>4
  <1>7. Follows(s[k - 1], s[k])
    BY <1>6 DEF Stream
  <1> QED
    BY <1>3, <1>4, <1>5, <1>7 DEF Follows

\* What stands before the beginning of a request, or before a body.
LEMMA Before ==
    ASSUME NEW X, NEW s \in Seq(X), \A j \in DOMAIN s : s[j].kind \in Kind, Stream(s), NEW k \in 2 .. Len(s)
    PROVE  /\ s[k].kind = "M" => s[k - 1].kind \in {"N", "B"}
           /\ s[k].kind = "B" => s[k - 1].kind = "N"
           /\ s[k].kind \in {"M", "B"} /\ s[k - 1].kind = "N" /\ k > 2 => s[k - 2].kind = "N"
  <1>1. k - 1 \in DOMAIN s /\ (k - 1) + 1 \in DOMAIN s /\ (k - 1) + 1 = k
    OBVIOUS
  <1>2. Follows(s[k - 1], s[k]) /\ s[k - 1].kind \in Kind
    BY <1>1 DEF Stream
  <1>3. /\ s[k].kind = "M" => s[k - 1].kind \in {"N", "B"}
        /\ s[k].kind = "B" => s[k - 1].kind = "N"
    BY <1>2 DEF Follows, Kind
  <1>4. ASSUME s[k].kind \in {"M", "B"}, s[k - 1].kind = "N", k > 2 PROVE s[k - 2].kind = "N"
    <2>1. k - 2 \in DOMAIN s /\ (k - 2) + 2 \in DOMAIN s /\ (k - 2) + 2 = k /\ (k - 2) + 1 = k - 1
      BY <1>4
    <2> QED
      BY <1>4, <2>1 DEF Stream
  <1> QED
    BY <1>3, <1>4

\* A line holds the beginning of one request at most.
LEMMA OneBeginning ==
    ASSUME NEW X, NEW b \in Seq(X), \A j \in DOMAIN b : b[j].kind \in Kind, Stream(b),
           NEW m \in 1 .. Len(Line(b)), b[m].kind = "M", NEW k \in m + 1 .. Len(Line(b))
    PROVE  b[k].kind # "M"
  <1>1. \A j \in 1 .. Len(Line(b)) : j \in 1 .. Len(b) /\ b[j].kind # "N"
    BY LineIs
  <1>2. Len(b) \in Nat /\ Len(Line(b)) \in Nat
    BY LineIs
  <1>3. SUFFICES ASSUME b[k].kind = "M" PROVE FALSE
    OBVIOUS
  <1>4. k \in 2 .. Len(b) /\ k - 1 \in 1 .. Len(Line(b)) /\ k - 1 >= m
    BY <1>1, <1>2
  <1>5. b[k - 1].kind = "B"
    BY <1>1, <1>3, <1>4, Before
  <1>6. k - 1 \in 2 .. Len(b) /\ k - 2 \in 1 .. Len(Line(b)) /\ (k - 1) - 1 = k - 2
    <2>1. k - 1 # m
      BY <1>5
    <2> QED
      BY <1>1, <1>2, <1>4, <2>1
  <1>7. b[k - 2].kind = "N"
    BY <1>5, <1>6, Before
  <1> QED
    BY <1>1, <1>6, <1>7

\* The rest of a buffer after its first line.
Rest(b) == SubSeq(b, LineEnd(b) + 1, Len(b))

\* After the first line, a body or a further request comes after a blank line only.
LEMMA BlankBefore ==
    ASSUME NEW X, NEW b \in Seq(X), \A j \in DOMAIN b : b[j].kind \in Kind, Stream(b),
           LineEnd(b) # 0, Line(b) # <<>>,
           NEW k \in LineEnd(b) + 1 .. Len(b), b[k].kind \in {"M", "B"}
    PROVE  \E j \in Blanks(NoCarry, Rest(b)) : LineEnd(b) + j < k
  <1>1. PICK e \in 1 .. Len(b) : e = LineEnd(b) /\ b[e].kind = "N" /\ Len(Line(b)) = e - 1
    <2>1. LineEnd(b) \in 0 .. Len(b) /\ b[LineEnd(b)].kind = "N" /\ Len(Line(b)) = LineEnd(b) - 1
      BY LineIs
    <2>2. LineEnd(b) \in 1 .. Len(b)
      BY <2>1
    <2> QED
      BY <2>1, <2>2
  <1>2. \A j \in 1 .. e - 1 : b[j].kind # "N"
    BY <1>1, LineIs
  <1>3. e > 1
    <2>1. Line(b) \in Seq(X)
      BY LineIs
    <2>2. Len(Line(b)) # 0
      BY <2>1
    <2> QED
      BY <1>1, <2>2
  <1>4. PICK t : t = Rest(b)
    OBVIOUS
  <1>5. /\ t \in Seq(X) /\ Len(t) = Len(b) - e /\ DOMAIN t = 1 .. Len(b) - e
        /\ \A j \in 1 .. Len(b) - e : t[j] = b[e + j]
    BY <1>1, <1>4 DEF Rest
  <1> DEFINE S == {l \in e + 1 .. Len(b) : b[l].kind \in {"M", "B"}}
  <1>6. k \in S /\ S \subseteq Nat
    BY <1>1
  <1>7. PICK l \in S : \A x \in S : l <= x
    BY <1>6, LeastElement
  <1>8. l \in e + 1 .. Len(b) /\ b[l].kind \in {"M", "B"} /\ l <= k /\ l \in 2 .. Len(b) /\ l > 2
    BY <1>3, <1>6, <1>7
  <1>9. b[l - 1].kind = "N"
    <2>1. b[l - 1].kind \in {"N", "B"}
      BY <1>8, Before
    <2>2. CASE b[l - 1].kind = "B"
      <3>1. l - 1 # e
        BY <1>1, <2>2
      <3>2. l - 1 \in S
        BY <1>8, <2>2, <3>1
      <3> QED
        BY <1>7, <1>8, <3>2
    <2> QED
      BY <2>1, <2>2
  <1>10. b[l - 2].kind = "N"
    BY <1>8, <1>9, Before
  <1>11. l - 1 # e
    <2>1. l - 1 = e => l - 2 \in 1 .. e - 1
      BY <1>3
    <2> QED
      BY <1>2, <1>10, <2>1
  <1>12. PICK j \in 1 .. Len(b) - e : j = l - 1 - e /\ e + j = l - 1
    BY <1>8, <1>11
  <1>13. t[j].kind = "N"
    BY <1>5, <1>9, <1>12
  <1>14. Pending(NoCarry, t, j) = NoCarry
    <2>1. CASE j = 1
      BY <2>1 DEF Pending
    <2>2. CASE j # 1
      <3>1. j - 1 \in 1 .. Len(b) - e /\ e + (j - 1) = l - 2
        BY <1>12, <2>2
      <3>2. t[j - 1].kind = "N"
        BY <1>5, <1>10, <3>1
      <3> QED
        BY <2>2, <3>2 DEF Pending
    <2> QED
      BY <2>1, <2>2
  <1>15. j \in Blanks(NoCarry, t)
    BY <1>5, <1>13, <1>14 DEF Blanks
  <1>16. e + j < k
    BY <1>8, <1>12
  <1> QED
    BY <1>1, <1>4, <1>15, <1>16

\* b is the first k units of s.
FirstUnits(b, s, k) == b = SubSeq(s, 1, k)

\* The headers that take effect with a request line are those of its request; a part
\* that is left at the end of the buffer is ended by what comes next in the stream.
LEMMA HeadersOfLine ==
    ASSUME NEW X, NEW s \in Seq(X), \A j \in DOMAIN s : s[j].kind \in Kind, Stream(s), EndsWhole(s),
           NEW k \in 1 .. Len(s), NEW b \in Seq(X), FirstUnits(b, s, k),
           LineEnd(b) # 0, NEW m \in 1 .. Len(Line(b)), b[m].kind = "M"
    PROVE  /\ AppliedOf(NoCarry, Rest(b)) \subseteq {b[m].i}
           /\ \/ Pending(NoCarry, Rest(b), StopAt(NoCarry, Rest(b))) = NoCarry
              \/ k < Len(s) /\ s[k + 1].kind = "N"
  <1>1. Len(b) = k /\ Len(s) \in Nat /\ (\A j \in 1 .. k : b[j] = s[j]) /\ DOMAIN b = 1 .. k /\ DOMAIN s = 1 .. Len(s)
    BY DEF FirstUnits
  <1>0. PICK n \in Nat : n = Len(s) /\ k \in 1 .. n
    OBVIOUS
  <1>2. (\A j \in DOMAIN b : b[j].kind \in Kind) /\ Stream(b)
    BY <1>1, StreamBegins DEF FirstUnits
  <1>3. Line(b) \in Seq(X) /\ Line(b) # <<>>
    <2>1. Line(b) \in Seq(X)
      BY LineIs
    <2>2. Len(Line(b)) # 0
      OBVIOUS
    <2> QED
      BY <2>1, <2>2
  <1>4. PICK e \in 1 .. k : e = LineEnd(b) /\ b[e].kind = "N" /\ Len(Line(b)) = e - 1
    <2>1. LineEnd(b) \in 0 .. Len(b) /\ b[LineEnd(b)].kind = "N" /\ Len(Line(b)) = LineEnd(b) - 1
      BY LineIs
    <2>2. LineEnd(b) \in 1 .. k
      BY <1>1, <2>1
    <2> QED
      BY <2>1, <2>2
  <1>5. PICK t : t = Rest(b)
    OBVIOUS
  <1>6. /\ t \in Seq(X) /\ Len(t) = k - e /\ DOMAIN t = 1 .. k - e
        /\ \A j \in 1 .. k - e : t[j] = b[e + j]
    BY <1>1, <1>4, <1>5 DEF Rest
  <1>7. ASSUME NEW l \in e + 1 .. k, b[l].kind \in {"M", "B"}
        PROVE  \E j \in Blanks(NoCarry, t) : e + j < l
    BY <1>1, <1>2, <1>3, <1>4, <1>5, <1>7, BlankBefore
  <1>8. PICK stop \in 1 .. k - e + 1 :
            /\ stop = StopAt(NoCarry, t)
            /\ \A j \in Blanks(NoCarry, t) : stop <= j
            /\ Blanks(NoCarry, t) # {} => stop \in Blanks(NoCarry, t)
            /\ \A H : Said(NoCarry, t, H) \subseteq 1 .. k - e
    <2>1. /\ StopAt(NoCarry, t) \in 1 .. Len(t) + 1
          /\ \A j \in Blanks(NoCarry, t) : StopAt(NoCarry, t) <= j
          /\ Blanks(NoCarry, t) # {} => StopAt(NoCarry, t) \in Blanks(NoCarry, t)
          /\ \A H : Said(NoCarry, t, H) \subseteq 1 .. Len(t)
      BY <1>6, StopIs
    <2> QED
      BY <1>6, <2>1
  <1>9. ASSUME NEW x \in AppliedOf(NoCarry, t) PROVE x = b[m].i
    <2>1. PICK j \in Said(NoCarry, t, {"close", "keep", "chunked"}) : x = Pending(NoCarry, t, j).i
      BY <1>9 DEF AppliedOf
    <2>2. /\ j \in 1 .. stop - 1 /\ j \in 1 .. k - e
          /\ Pending(NoCarry, t, j).h \in {"close", "keep", "chunked"}
      BY <1>8, <2>1 DEF Said
    <2>3. Pending(NoCarry, t, j) # NoCarry
      BY <2>2 DEF NoCarry
    <2>4. j # 1
      BY <2>3 DEF Pending
    <2>5. j - 1 \in 1 .. k - e /\ e + (j - 1) \in m .. k /\ e + (j - 1) \in 1 .. k /\ m < e /\ m \in 1 .. k
      <3>1. m \in 1 .. e - 1
        BY <1>4
      <3> QED
        BY <1>0, <2>2, <2>4, <3>1
    <2>6. x = t[j - 1].i
      BY <2>1, <2>3, <2>4 DEF Pending
    <2>7. x = b[e + (j - 1)].i
      BY <1>6, <2>5, <2>6
    <2>8. ASSUME NEW l \in m + 1 .. e + (j - 1) PROVE b[l].kind # "M"
      <3>1. CASE l < e
        <4>1. l \in m + 1 .. Len(Line(b))
          BY <1>4, <3>1
        <4> QED
          BY <1>2, <4>1, OneBeginning
      <3>2. CASE l = e
        BY <1>4, <3>2
      <3>3. CASE l > e
        <4>1. l \in e + 1 .. k
          BY <2>5, <3>3
        <4>2. SUFFICES ASSUME b[l].kind \in {"M", "B"} PROVE FALSE
          OBVIOUS
        <4>3. PICK y \in Blanks(NoCarry, t) : e + y < l
          BY <1>7, <4>1, <4>2
        <4>4. y \in 1 .. k - e /\ stop <= y
          BY <1>6, <1>8 DEF Blanks
        <4> QED
          BY <2>2, <2>8, <4>3, <4>4
      <3>4. l < e \/ l = e \/ l > e
        BY <2>5
      <3> QED
        BY <3>1, <3>2, <3>3, <3>4
    <2>9. m \in 1 .. Len(b) /\ e + (j - 1) \in m .. Len(b)
      BY <1>1, <2>5
    <2>10. b[e + (j - 1)].i = b[m].i
      BY <1>2, <2>8, <2>9, SameRequest
    <2> QED
      BY <2>7, <2>10
  <1>10. ASSUME Pending(NoCarry, t, stop) # NoCarry PROVE k < Len(s) /\ s[k + 1].kind = "N"
    <2>1. Blanks(NoCarry, t) = {}
      BY <1>8, <1>10 DEF Blanks
    <2>2. stop = k - e + 1
      BY <1>6, <1>8, <2>1 DEF StopAt
    <2>3. stop # 1
      BY <1>10 DEF Pending
    <2>4. k - e \in 1 .. k - e /\ stop - 1 = k - e /\ k \in e + 1 .. k /\ e + (k - e) = k
      <3>1. e \in Nat /\ k \in Nat /\ e <= k /\ k - e # 0
        BY <1>0, <1>4, <2>2, <2>3
      <3> QED
        BY <2>2, <3>1
    <2>5. t[stop - 1] = s[k]
      <3>1. t[k - e] = b[e + (k - e)]
        BY <1>6, <2>4
      <3> QED
        BY <1>1, <2>4, <3>1
    <2>6. s[k].kind # "N"
      BY <1>10, <2>3, <2>5 DEF Pending
    <2>7. s[k].kind \notin {"M", "B"}
      BY <1>1, <1>7, <2>1, <2>4
    <2>8. k # Len(s)
      <3>1. s # <<>>
        BY <1>1
      <3> QED
        BY <2>6, <2>7, <3>1 DEF EndsWhole
    <2>9. k < Len(s) /\ k \in DOMAIN s /\ k + 1 \in DOMAIN s
      <3>1. k < n /\ k + 1 \in 1 .. n
        BY <1>0, <2>8
      <3> QED
        BY <1>0, <1>1, <3>1
    <2>10. Follows(s[k], s[k + 1]) /\ s[k].kind \in {"V", "T"}
      BY <2>6, <2>7, <2>9 DEF Stream, Kind
    <2> QED
      BY <2>9, <2>10 DEF Follows
  <1> QED
    BY <1>5, <1>8, <1>9, <1>10

\* What is in the static buffer when a further request may come is nothing, or a header
\* that what was not read yet ends.
Carried ==
    \/ carry = NoCarry
    \/ net # <<>> /\ net[1].kind = "N"
    \/ pc \in {"closed", "crashed", "cut"}
    \/ pc \in {"method", "log", "loop"} /\ ~ req.keepAlive

OwnHeaders == HeadersAreOwn /\ Carried /\ (pc = "read" => req = FreshRequest)

\* The freed flag keeps its value, and no request fills the buffer exactly.
NeitherFreedNorFull == FreedValue = "kept" /\ \A r \in Requests : ~ r.exact

LEMMA FreshParsed ==
    ASSUME IndInv, OwnHeaders, pc = "read", NEW k \in 1 .. Len(net)
    PROVE  LET p == ParseParameters(req, carry, SubSeq(net, 1, k))
           IN  /\ p.q.applied \subseteq {p.q.i}
               /\ p.null \/ p.carry = NoCarry \/ (k < Len(net) /\ net[k + 1].kind = "N") \/ ~ p.q.keepAlive
  <1>0. PICK b, p : b = SubSeq(net, 1, k) /\ p = ParseParameters(req, carry, b)
    OBVIOUS
  <1> SUFFICES /\ p.q.applied \subseteq {p.q.i}
               /\ p.null \/ p.carry = NoCarry \/ (k < Len(net) /\ net[k + 1].kind = "N") \/ ~ p.q.keepAlive
    BY <1>0
  <1>1. PICK X : X = UnitOf(Len(sent))
    OBVIOUS
  <1>2. net \in Seq(X) /\ b \in Seq(X) /\ Len(b) = k /\ (\A j \in 1 .. k : b[j] = net[j]) /\ Len(net) \in Nat
    <2>1. net \in Seq(X)
      BY <1>1 DEF IndInv, Typed
    <2> QED
      BY <1>0, <2>1
  <1>3. \A j \in DOMAIN net : net[j].kind \in Kind
    <2>1. \A j \in DOMAIN net : net[j] \in UnitOf(Len(sent))
      BY <1>1, <1>2
    <2> QED
      BY <2>1 DEF UnitOf
  <1>4. Stream(net) /\ EndsWhole(net)
    BY DEF IndInv, Ordered
  <1>5. sent \in Seq(Requests) /\ req \in Object(Len(sent)) /\ Own(req, sent) /\ carry \in PartOf(Len(sent))
    BY DEF IndInv, Typed
  <1>6. req.version = "undefined" /\ req.applied = {} /\ req.keepAlive = FALSE
    BY DEF OwnHeaders, FreshRequest
  <1>7. PICK first : first = ProccessFirstString(req, b)
    OBVIOUS
  <1>8. FirstRead(req, first, b)
    <2>1. b # <<>> /\ b \in Seq(UnitOf(Len(sent)))
      BY <1>1, <1>2
    <2> QED
      BY <1>5, <1>7, <2>1, FirstStringIsOwn
  <1>9. PICK f : f = RequestParametersParse(first.q, carry, first.rest)
    OBVIOUS
  <1>10. /\ first.null => p.q = first.q /\ p.null
         /\ ~ first.null /\ first.q.status # 200 => p.q = first.q /\ p.carry = carry
         /\ ~ first.null /\ first.q.status = 200 => p.q = f.q /\ p.carry = f.carry
    BY <1>0, <1>7, <1>9 DEF ParseParameters
  <1>11. first.q.applied = {}
    BY <1>6, <1>8 DEF FirstRead
  <1>12. PICK line : line = Line(b)
    OBVIOUS
  <1>15. /\ b \in Seq(X) /\ line \in Seq(X) /\ LineEnd(b) \in 0 .. Len(b)
         /\ \A j \in 1 .. Len(line) : j \in 1 .. Len(b) /\ line[j] = b[j] /\ b[j].kind # "N"
    <2>1. b \in Seq(X)
      BY <1>2
    <2> QED
      BY <1>12, <2>1, LineIs
  <1>13. CASE line = <<>> \/ Huge(line)
    <2>1. PICK i : i = b[1].i
      OBVIOUS
    <2>2. first.q = Refused(req, i) /\ ~ first.null
      BY <1>6, <1>7, <1>12, <1>13, <2>1, FirstStringRefused
    <2>3. Refused(req, i).status = 400 /\ ~ Refused(req, i).keepAlive
      BY <1>5, <1>6 DEF Refused, Object
    <2> QED
      BY <1>10, <1>11, <2>2, <2>3
  <1>14. CASE line # <<>> /\ ~ Huge(line)
    <2>1. carry = NoCarry
      <3>2. 1 \in 1 .. Len(line)
        BY <1>14, <1>15
      <3>3. net[1].kind # "N"
        BY <1>2, <1>15, <3>2
      <3> QED
        BY <3>3 DEF OwnHeaders, Carried
    <2>4. /\ first.rest = Rest(b)
          /\ first.null <=> (~ ThreeWords(line) \/ (LineEnd(b) = 0 /\ first.q.status = 200))
      BY <1>6, <1>7, <1>12, <1>14, FirstStringLine DEF Rest
    <2>5. CASE first.null \/ first.q.status # 200
      BY <1>10, <1>11, <2>1, <2>5
    <2>6. CASE ~ first.null /\ first.q.status = 200
      <3>1. LineEnd(b) # 0
        BY <2>4, <2>6
      <3>2. Begins(line, first.q.i)
        BY <1>6, <1>8, <1>12, <2>6 DEF FirstRead
      <3>4. PICK m \in 1 .. Len(line) : b[m].kind = "M" /\ b[m].i = first.q.i
        <4>1. PICK m \in DOMAIN line : line[m].kind = "M" /\ line[m].i = first.q.i
          BY <3>2 DEF Begins
        <4>2. m \in 1 .. Len(line) /\ line[m] = b[m]
          BY <1>15, <4>1
        <4> QED
          BY <4>1, <4>2
      <3>5. /\ AppliedOf(NoCarry, Rest(b)) \subseteq {b[m].i}
            /\ \/ Pending(NoCarry, Rest(b), StopAt(NoCarry, Rest(b))) = NoCarry
               \/ k < Len(net) /\ net[k + 1].kind = "N"
        <4>1. m \in 1 .. Len(Line(b))
          BY <1>12
        <4>2. net \in Seq(X) /\ b \in Seq(X) /\ FirstUnits(b, net, k)
          BY <1>0, <1>2 DEF FirstUnits
        <4> QED
          BY <1>3, <1>4, <3>1, <3>4, <4>1, <4>2, HeadersOfLine
      <3>6. HeadersRead(first.q, f, carry, first.rest)
        BY <1>5, <1>8, <1>9, ParametersRead DEF FirstRead
      <3>7. /\ f.q.i = first.q.i /\ f.q.applied = first.q.applied \cup AppliedOf(NoCarry, Rest(b))
            /\ f.carry = Pending(NoCarry, Rest(b), StopAt(NoCarry, Rest(b)))
        BY <2>1, <2>4, <3>6 DEF HeadersRead
      <3> QED
        BY <1>10, <1>11, <2>6, <3>4, <3>5, <3>7
    <2> QED
      BY <2>5, <2>6
  <1> QED
    BY <1>13, <1>14

LEMMA OwnHeadersStep ==
    ASSUME NeitherFreedNorFull, IndInv, OwnHeaders, [Next]_vars
    PROVE  OwnHeaders'
  <1> USE DEF OwnHeaders
  <1>1. ASSUME NEW r \in Requests, SendRequest(r) PROVE OwnHeaders'
    <2>1. net' = net \o Units(r, Len(sent) + 1) /\ UNCHANGED <<pc, req, carry>>
      BY <1>1 DEF SendRequest, handlerVars
    <2>2. PICK n, i, u : n = Len(sent) /\ i = n + 1 /\ u = Units(r, i) /\ i \in Nat \ {0}
      BY DEF IndInv, Typed
    <2>3. u \in Seq(UnitOf(i))
      BY <2>2, UnitsAre
    <2>4. ASSUME net # <<>> /\ net[1].kind = "N" PROVE net' # <<>> /\ net'[1].kind = "N"
      <3>1. net \in Seq(UnitOf(n)) /\ n \in Nat
        BY <2>2 DEF IndInv, Typed
      <3>2. net \in Seq(UnitOf(i))
        <4>1. UnitOf(n) \subseteq UnitOf(i)
          BY <2>2, <3>1 DEF UnitOf
        <4> QED
          BY <3>1, <4>1
      <3>3. 1 \in 1 .. Len(net)
        BY <2>4, <3>1
      <3>4. net' = net \o u
        BY <2>1, <2>2
      <3>5. net'[1] = net[1] /\ Len(net') = Len(net) + Len(u) /\ net' \in Seq(UnitOf(i))
        BY <2>3, <3>2, <3>3, <3>4, Joined
      <3>6. Len(net') # 0
        BY <2>3, <3>1, <3>3, <3>5
      <3> QED
        BY <2>4, <3>5, <3>6
    <2> QED
      BY <2>1, <2>4 DEF HeadersAreOwn, Carried
  <1>2. CASE CreateRequest
    <2>1. pc = "create" /\ req' = FreshRequest /\ pc' = "read" /\ UNCHANGED <<carry, net>>
      BY <1>2 DEF CreateRequest, clientVars
    <2> QED
      BY <2>1 DEF HeadersAreOwn, FreshRequest, Carried
  <1>3. CASE ReadTimeout \/ ReadError \/ ReadEof
    <2>1. pc = "read" /\ pc' \in {"log", "method"} /\ UNCHANGED <<req, carry, net>>
      BY <1>3 DEF ReadTimeout, ReadError, ReadEof, clientVars
    <2> QED
      BY <2>1 DEF HeadersAreOwn, Carried
  <1>4. ASSUME NEW k \in 1 .. Len(net), ReadData(k) PROVE OwnHeaders'
    <2>1. PICK b, p : b = SubSeq(net, 1, k) /\ p = ParseParameters(req, carry, b)
      OBVIOUS
    <2>2. ~ Full(b)
      <3>1. \A i \in DOMAIN sent : ~ sent[i].exact
        BY DEF IndInv, Typed, NeitherFreedNorFull
      <3> QED
        BY <3>1 DEF Full
    <2>3. pc = "read" /\ req.status = 200
      BY <1>4 DEF ReadData, OwnHeaders, FreshRequest
    <2>4. /\ net' = SubSeq(net, k + 1, Len(net))
          /\ req' = p.q /\ carry' = p.carry
          /\ pc' = (IF p.null THEN "crashed" ELSE "method")
      BY <1>4, <2>1, <2>2, <2>3 DEF ReadData
    <2>5. /\ p.q.applied \subseteq {p.q.i}
          /\ p.null \/ p.carry = NoCarry \/ (k < Len(net) /\ net[k + 1].kind = "N") \/ ~ p.q.keepAlive
      BY <2>1, <2>3, FreshParsed
    <2>6. ASSUME k < Len(net), net[k + 1].kind = "N" PROVE net' # <<>> /\ net'[1].kind = "N"
      <3>1. net \in Seq(UnitOf(Len(sent))) /\ Len(net) \in Nat
        BY DEF IndInv, Typed
      <3>2. 1 \in 1 .. Len(net) - k /\ k + 1 = k + 1
        BY <2>6, <3>1
      <3>3. Len(net') = Len(net) - k /\ net'[1] = net[k + 1]
        BY <2>4, <3>1, <3>2
      <3>4. Len(net') # 0
        BY <2>6, <3>1, <3>3
      <3> QED
        BY <2>6, <3>3, <3>4
    <2>7. HeadersAreOwn'
      BY <2>4, <2>5 DEF HeadersAreOwn
    <2>8. Carried'
      BY <2>4, <2>5, <2>6 DEF Carried
    <2> QED
      BY <2>4, <2>7, <2>8
  <1>5. CASE MethodGet \/ MethodHead \/ MethodStub \/ MethodUnknow
    <2>1. PICK a, name, bytes : pc = "method" /\ Respond(a, name, bytes)
      BY <1>5 DEF MethodGet, MethodHead, MethodStub, MethodUnknow
    <2>2. /\ pc = "method" /\ pc' \in {"log", "crashed", "cut"} /\ UNCHANGED <<carry, net>>
          /\ req' \in {req, [req EXCEPT !.status = a.status]}
      BY <2>1 DEF Respond, BrokenPipe, clientVars
    <2>3. req'.applied = req.applied /\ req'.i = req.i /\ req'.keepAlive = req.keepAlive
      BY <2>2 DEF IndInv, Typed, Object
    <2> QED
      BY <2>2, <2>3 DEF HeadersAreOwn, Carried
  <1>6. CASE NullUri
    <2>1. pc' = "crashed" /\ UNCHANGED <<req, carry, net>>
      BY <1>6 DEF NullUri, clientVars
    <2> QED
      BY <2>1 DEF HeadersAreOwn, Carried
  <1>7. CASE Log
    <2>1. pc = "log" /\ pc' = "loop" /\ UNCHANGED <<req, carry, net>>
      BY <1>7 DEF Log, clientVars
    <2> QED
      BY <2>1 DEF HeadersAreOwn, Carried
  <1>8. CASE Loop
    <2>1. /\ pc = "loop" /\ (pc' = "closed" \/ (pc' = "create" /\ req.keepAlive))
          /\ UNCHANGED <<req, carry, net>>
      BY <1>8 DEF Loop, clientVars, NeitherFreedNorFull
    <2> QED
      BY <2>1 DEF HeadersAreOwn, Carried
  <1>9. CASE SemopInterrupted \/ UNCHANGED vars \/ \E how \in {"half", "gone"} : Leave(how)
    <2>1. UNCHANGED <<pc, req, carry, net>>
      BY <1>9 DEF SemopInterrupted, clientVars, vars, handlerVars, Leave
    <2> QED
      BY <2>1 DEF HeadersAreOwn, Carried
  <1> QED
    BY <1>1, <1>2, <1>3, <1>4, <1>5, <1>6, <1>7, <1>8, <1>9 DEF Next, HandlerStep, ClientStep

\* A header takes effect on the request it was sent with and on no other, however the
\* stream is cut: a part of a header that outlives its request in the static buffer is
\* ended by the stream before another request begins.
THEOREM HeadersStayOwn ==
    ASSUME NeitherFreedNorFull
    PROVE  Spec => []HeadersAreOwn
  <1>1. Init => OwnHeaders
    BY DEF Init, OwnHeaders, HeadersAreOwn, Carried, FreshRequest
  <1>2. IndInv /\ OwnHeaders /\ [Next]_vars => OwnHeaders'
    BY OwnHeadersStep
  <1>3. OwnHeaders => HeadersAreOwn
    BY DEF OwnHeaders
  <1> QED
    BY <1>1, <1>2, <1>3, Invariant, PTL DEF Spec

-----------------------------------------------------------------------------
(* A client that sends whole requests, one at a time: what the parser      *)
(* makes of each.                                                          *)

\* Requests come whole and one at a time, and no signal leaves EINTR in errno.  A request fits the buffer, is well formed, of a version and a method the
\* server knows; what GET and HEAD look up is a file, a directory or nothing.
Polite ==
    /\ ~ Segmented /\ ~ Pipelined /\ ~ Signals
    /\ \A r \in Requests :
          /\ ~ r.exact /\ r.version \in {"1.0", "1.1"} /\ r.uri \notin {"bare", "long", "huge"}
          /\ r.method # "BREW" /\ (r.method = "PUT" => r.version = "1.1")
          /\ r.method \in {"GET", "HEAD"} => r.uri \in {"file", "empty", "missing", "dir"}

\* The method a polite request is answered by.
MethodOf(r) ==
    IF r.method = "GET" THEN "methodGet" ELSE IF r.method = "HEAD" THEN "methodHead" ELSE "stub"

\* The object says what the request line of r says, the i-th one, and how it persists.
Understood(q, r, i, persistent) ==
    /\ q.i = i /\ q.status = 200 /\ q.keepAlive = persistent
    /\ q.MethodHTTP = MethodOf(r) /\ q.URI = r.uri

LEMMA GreatestElement ==
    ASSUME NEW n \in Nat, NEW S, S \subseteq 1 .. n, S # {}
    PROVE  Max(S) \in S /\ \A k \in S : k <= Max(S)
  <1> DEFINE D == {n - k : k \in S}
  <1>1. D \subseteq Nat /\ D # {}
    <2>1. \A k \in S : n - k \in Nat
      OBVIOUS
    <2> QED
      BY <2>1
  <1>2. PICK d \in D : \A e \in D : d <= e
    BY <1>1, LeastElement
  <1>3. PICK m \in S : d = n - m
    OBVIOUS
  <1>4. \A k \in S : m >= k
    <2> TAKE k \in S
    <2>1. n - m <= n - k
      BY <1>2, <1>3
    <2> QED
      BY <2>1
  <1>5. Max(S) \in S /\ \A k \in S : Max(S) >= k
    BY <1>4 DEF Max
  <1> QED
    BY <1>5

\* Doubling the elements of a set doubles its greatest.
LEMMA GreatestDouble ==
    ASSUME NEW n \in Nat, NEW S, S \subseteq 1 .. n, S # {}, NEW D, D = {2 * k : k \in S}
    PROVE  Max(D) = 2 * Max(S) /\ Max(S) \in S
  <1>1. PICK m \in S : m = Max(S) /\ \A k \in S : k <= m
    BY GreatestElement
  <1>2. D \subseteq 1 .. 2 * n /\ D # {} /\ 2 * n \in Nat
    OBVIOUS
  <1>3. PICK x \in D : x = Max(D) /\ \A k \in D : k <= x
    BY <1>2, GreatestElement
  <1>4. 2 * m \in D
    OBVIOUS
  <1>5. PICK k \in S : x = 2 * k
    OBVIOUS
  <1>6. 2 * m <= x /\ k <= m
    BY <1>1, <1>3, <1>4
  <1>7. x = 2 * m
    BY <1>5, <1>6
  <1> QED
    BY <1>1, <1>3, <1>7

LEMMA NotEmpty ==
    ASSUME NEW s, Len(s) # 0
    PROVE  s # <<>>
  OBVIOUS

\* What proccessFirstString makes of the line of a polite request.
LEMMA LineUnderstood ==
    ASSUME Polite, sent \in Seq(Requests), NEW i \in 1 .. Len(sent),
           NEW line \in Seq(UnitOf(Len(sent))), Len(line) = 2,
           line[1] = Unit("M", i, "none"), line[2] = Unit("V", i, "none")
    PROVE  /\ line # <<>> /\ ~ Huge(line) /\ ThreeWords(line)
           /\ RequestLine(FreshRequest, line) \in Object(Len(sent))
           /\ Understood(RequestLine(FreshRequest, line), sent[i], i, sent[i].version = "1.1")
  <1>1. PICK n \in Nat : n = Len(sent) /\ DOMAIN sent = 1 .. n
    OBVIOUS
  <1>2. PICK r : r = sent[i]
    OBVIOUS
  <1>3. /\ r \in Requests /\ r.method \in Methods /\ r.version \in {"1.0", "1.1"} /\ r.uri \in Uris
        /\ r.uri \notin {"bare", "long", "huge"} /\ r.method # "BREW"
        /\ (r.method = "PUT" => r.version = "1.1")
    BY <1>1, <1>2, SentRequest DEF Polite
  <1>4. /\ DOMAIN line = 1 .. 2
        /\ line[1].kind = "M" /\ line[1].i = i /\ line[2].kind = "V"
    BY DEF Unit
  <1>5. "M" \in Kinds(line) /\ "V" \in Kinds(line)
    BY <1>4 DEF Kinds
  <1>6. (CHOOSE j \in DOMAIN line : line[j].kind = "M") = 1
    <2>1. \A j \in DOMAIN line : line[j].kind = "M" <=> j = 1
      BY <1>4
    <2>2. 1 \in DOMAIN line
      BY <1>4
    <2> QED
      BY <2>1, <2>2
  <1>7. ~ Huge(line)
    <2>1. \A j \in DOMAIN line : line[j].kind = "M" => line[j].i = i
      BY <1>4
    <2> QED
      BY <1>2, <1>3, <2>1 DEF Huge
  <1>8. PICK q0 : q0 = [FreshRequest EXCEPT !.i = i]
    OBVIOUS
  <1>9. q0 \in Object(n) /\ q0.i = i /\ q0.status = 200
    <2>1. FreshRequest \in Object(n) /\ FreshRequest.status = 200
      BY FreshTyped DEF FreshRequest
    <2>2. q0 \in Object(n) /\ q0.status = 200
      BY <1>1, <1>8, <2>1, NumberSet
    <2>3. q0.i = i
      BY <1>8, <2>1 DEF Object
    <2> QED
      BY <2>2, <2>3
  <1>10. PICK q1 : q1 = GetVersion(q0, r.version)
    OBVIOUS
  <1>11. /\ q1 \in Object(n) /\ q1.i = i /\ q1.status = 200 /\ q1.version = r.version
         /\ q1.keepAlive = (r.version = "1.1")
    <2>1. r.version \in Versions
      BY <1>3 DEF Versions
    <2>2. q1 \in Object(n) /\ q1.i = i /\ q1.status = 200 /\ q1.version = r.version
      BY <1>3, <1>9, <1>10, <2>1, VersionRead
    <2>3. CASE r.version = "1.0"
      <3>1. q1 = [q0 EXCEPT !.version = "1.0", !.keepAlive = FALSE, !.chunk = FALSE]
        BY <1>10, <2>3 DEF GetVersion
      <3>2. q1.keepAlive = FALSE
        BY <1>9, <3>1 DEF Object
      <3> QED
        BY <2>2, <2>3, <3>2
    <2>4. CASE r.version = "1.1"
      <3>1. q1 = [q0 EXCEPT !.version = "1.1", !.keepAlive = TRUE, !.chunk = TRUE]
        BY <1>10, <2>4 DEF GetVersion
      <3>2. q1.keepAlive = TRUE
        BY <1>9, <3>1 DEF Object
      <3> QED
        BY <2>2, <2>4, <3>2
    <2> QED
      BY <1>3, <2>3, <2>4
  <1>12. PICK q2 : q2 = [q1 EXCEPT !.MethodHTTP = MethodOf(r)]
    OBVIOUS
  <1>13. GetMethod(q1, r.method) = q2
    <2>1. CASE r.method = "GET"
      BY <1>11, <1>12, <2>1 DEF GetMethod, MethodOf
    <2>2. CASE r.method = "HEAD"
      BY <1>11, <1>12, <2>2 DEF GetMethod, MethodOf
    <2>3. CASE r.method = "POST"
      BY <1>11, <1>12, <2>3 DEF GetMethod, MethodOf
    <2>4. CASE r.method = "PUT"
      BY <1>3, <1>11, <1>12, <2>4 DEF GetMethod, MethodOf
    <2> QED
      BY <1>3, <2>1, <2>2, <2>3, <2>4 DEF Methods
  <1>14. /\ q2 \in Object(n) /\ q2.i = i /\ q2.status = 200 /\ q2.MethodHTTP = MethodOf(r)
         /\ q2.keepAlive = (r.version = "1.1")
    <2>1. q2 \in Object(n)
      BY <1>3, <1>11, <1>13, MethodRead
    <2>2. q2.i = q1.i /\ q2.status = q1.status /\ q2.keepAlive = q1.keepAlive /\ q2.MethodHTTP = MethodOf(r)
      BY <1>11, <1>12 DEF Object
    <2> QED
      BY <1>11, <2>1, <2>2
  <1>15. PICK q3 : q3 = [q2 EXCEPT !.URI = r.uri]
    OBVIOUS
  <1>16. GetURI(q2, r.uri) = q3
    BY <1>3, <1>14, <1>15 DEF GetURI
  <1>17. q3 \in Object(n) /\ Understood(q3, r, i, r.version = "1.1")
    <2>1. q3 \in Object(n)
      BY <1>3, <1>14, <1>16, UriRead
    <2>2. q3.i = q2.i /\ q3.status = q2.status /\ q3.keepAlive = q2.keepAlive
          /\ q3.MethodHTTP = q2.MethodHTTP /\ q3.URI = r.uri
      BY <1>14, <1>15 DEF Object
    <2> QED
      BY <1>14, <2>1, <2>2 DEF Understood
  <1>18. RequestLine(FreshRequest, line) = q3
    BY <1>2, <1>4, <1>5, <1>6, <1>8, <1>10, <1>13, <1>16 DEF RequestLine
  <1>19. ThreeWords(line)
    BY <1>5 DEF ThreeWords
  <1>20. line # <<>>
    <2>1. Len(line) # 0
      OBVIOUS
    <2> QED
      BY <2>1, NotEmpty
  <1> QED
    BY <1>1, <1>2, <1>7, <1>17, <1>18, <1>19, <1>20
\* t begins with the headers of r, the i-th request, and the blank line after them.
Headed(t, r, i) ==
    /\ 2 * Len(r.headers) + 1 <= Len(t)
    /\ \A j \in 1 .. 2 * Len(r.headers) : t[j] = HeaderUnit(r, i, j)
    /\ t[2 * Len(r.headers) + 1] = Unit("N", i, "none")

\* The headers whose word the connection's future depends on.
Wishes(r) == {k \in DOMAIN r.headers : r.headers[k] \in {"close", "keep"}}

\* Where the k-th header is, and what the buffer holds at its end.
HeaderAt(t, r, i, k) ==
    /\ t[2 * k - 1].kind = "T" /\ t[2 * k - 1].h = r.headers[k] /\ t[2 * k - 1].i = i
    /\ t[2 * k].kind = "N"
SaidAt(t, r, i, k) == Pending(NoCarry, t, 2 * k) = [h |-> r.headers[k], i |-> i]
EmptyBefore(t, k) == Pending(NoCarry, t, 2 * k - 1) = NoCarry

\* requestParametersParse reads the headers of a whole request, each as it was sent, and
\* stops at its blank line, with an empty buffer.
LEMMA HeadersSaid ==
    ASSUME NEW r \in Requests, NEW i \in Nat \ {0}, NEW X, NEW t \in Seq(X), Headed(t, r, i)
    PROVE  /\ \A k \in DOMAIN r.headers : Pending(NoCarry, t, 2 * k).h = r.headers[k]
           /\ Said(NoCarry, t, {"close", "keep"}) = {2 * k : k \in Wishes(r)}
           /\ Pending(NoCarry, t, StopAt(NoCarry, t)) = NoCarry
  <1>1. PICK h \in Nat : h = Len(r.headers) /\ DOMAIN r.headers = 1 .. h
    BY HeaderCount
  <1>2. \A k \in 1 .. h : r.headers[k] \in HeaderTexts
    BY <1>1, HeaderCount
  <1>3. /\ DOMAIN t = 1 .. Len(t) /\ Len(t) \in Nat /\ 2 * h + 1 <= Len(t)
        /\ \A j \in 1 .. 2 * h : t[j] = HeaderUnit(r, i, j)
        /\ t[2 * h + 1] = Unit("N", i, "none")
    BY <1>1 DEF Headed
  <1>4. \A k \in 1 .. h : HeaderAt(t, r, i, k)
    <2> TAKE k \in 1 .. h
    <2>1. /\ 2 * k - 1 \in 1 .. 2 * h /\ (2 * k - 1) % 2 = 1 /\ ((2 * k - 1) + 1) \div 2 = k
          /\ 2 * k \in 1 .. 2 * h /\ (2 * k) % 2 # 1
      OBVIOUS
    <2>2. t[2 * k - 1] = Unit("T", i, r.headers[k]) /\ t[2 * k] = Unit("N", i, "none")
      BY <1>3, <2>1 DEF HeaderUnit
    <2> QED
      BY <2>2 DEF HeaderAt, Unit
  <1>5. \A k \in 1 .. h : SaidAt(t, r, i, k)
    <2> TAKE k \in 1 .. h
    <2>1. HeaderAt(t, r, i, k)
      BY <1>4
    <2>2. k # 1 => t[2 * k - 2].kind = "N"
      <3>1. SUFFICES ASSUME k # 1 PROVE t[2 * k - 2].kind = "N"
        OBVIOUS
      <3>2. PICK l \in 1 .. h : l = k - 1 /\ 2 * l = 2 * k - 2
        BY <3>1
      <3>3. HeaderAt(t, r, i, l)
        BY <1>4
      <3> QED
        BY <3>2, <3>3 DEF HeaderAt
    <2>3. PICK j \in Nat : j = 2 * k
      OBVIOUS
    <2>4. j # 1 /\ (j = 2 <=> k = 1) /\ t[j - 1].kind = "T" /\ t[j - 1].h = r.headers[k] /\ t[j - 1].i = i
          /\ (k # 1 => t[j - 2].kind = "N")
      BY <2>1, <2>2, <2>3 DEF HeaderAt
    <2>5. Pending(NoCarry, t, j) = [h |-> r.headers[k], i |-> i]
      BY <2>4 DEF Pending
    <2> QED
      BY <2>3, <2>5 DEF SaidAt
  <1>6. \A k \in 1 .. h + 1 : EmptyBefore(t, k)
    <2> TAKE k \in 1 .. h + 1
    <2>1. CASE k = 1
      BY <2>1 DEF Pending, EmptyBefore
    <2>2. CASE k # 1
      <3>1. PICK l \in 1 .. h : l = k - 1 /\ 2 * l = (2 * k - 1) - 1 /\ 2 * k - 1 # 1
        BY <2>2
      <3>2. HeaderAt(t, r, i, l)
        BY <1>4
      <3>3. PICK j : j = 2 * k - 1 /\ j # 1 /\ t[j - 1].kind = "N"
        BY <3>1, <3>2 DEF HeaderAt
      <3>4. Pending(NoCarry, t, j) = NoCarry
        BY <3>3 DEF Pending
      <3> QED
        BY <3>3, <3>4 DEF EmptyBefore
    <2> QED
      BY <2>1, <2>2
  <1>7. \A j \in 1 .. 2 * h : \E k \in 1 .. h : j = 2 * k - 1 \/ j = 2 * k
    <2> TAKE j \in 1 .. 2 * h
    <2>1. (j + 1) \div 2 \in 1 .. h /\ (j = 2 * ((j + 1) \div 2) - 1 \/ j = 2 * ((j + 1) \div 2))
      OBVIOUS
    <2> QED
      BY <2>1
  <1>8. StopAt(NoCarry, t) = 2 * h + 1 /\ Pending(NoCarry, t, StopAt(NoCarry, t)) = NoCarry
    <2>1. 2 * h + 1 \in Blanks(NoCarry, t)
      <3>1. PICK l \in 1 .. h + 1 : l = h + 1 /\ 2 * l - 1 = 2 * h + 1 /\ 2 * h + 1 \in DOMAIN t
        BY <1>3
      <3>2. Pending(NoCarry, t, 2 * h + 1) = NoCarry
        BY <1>6, <3>1 DEF EmptyBefore
      <3> QED
        BY <1>3, <3>1, <3>2 DEF Blanks, Unit
    <2>2. ASSUME NEW j \in Blanks(NoCarry, t), j \in 1 .. 2 * h PROVE FALSE
      <3>1. PICK k \in 1 .. h : j = 2 * k - 1 \/ j = 2 * k
        BY <1>7, <2>2
      <3>2. t[j].kind = "N" /\ Pending(NoCarry, t, j) = NoCarry
        BY <2>2 DEF Blanks
      <3>3. HeaderAt(t, r, i, k) /\ SaidAt(t, r, i, k)
        BY <1>4, <1>5
      <3>4. CASE j = 2 * k - 1
        BY <3>2, <3>4, <3>3 DEF HeaderAt
      <3>5. CASE j = 2 * k
        <4>1. NoCarry = [h |-> r.headers[k], i |-> i]
          BY <3>2, <3>5, <3>3 DEF SaidAt
        <4> QED
          BY <1>2, <4>1 DEF NoCarry, HeaderTexts
      <3> QED
        BY <3>1, <3>4, <3>5
    <2>3. StopAt(NoCarry, t) \in Blanks(NoCarry, t) /\ StopAt(NoCarry, t) <= 2 * h + 1
      BY <2>1, StopIs
    <2>4. StopAt(NoCarry, t) \in 1 .. Len(t)
      BY <1>3, <2>3 DEF Blanks
    <2>5. StopAt(NoCarry, t) = 2 * h + 1
      BY <2>2, <2>3, <2>4
    <2>6. Pending(NoCarry, t, StopAt(NoCarry, t)) = NoCarry
      BY <2>3 DEF Blanks
    <2> QED
      BY <2>5, <2>6
  <1>9. ASSUME NEW j PROVE j \in Said(NoCarry, t, {"close", "keep"}) <=> \E k \in Wishes(r) : j = 2 * k
    <2>1. ASSUME j \in Said(NoCarry, t, {"close", "keep"}) PROVE \E k \in Wishes(r) : j = 2 * k
      <3>1. j \in 1 .. 2 * h /\ t[j].kind = "N" /\ Pending(NoCarry, t, j).h \in {"close", "keep"}
        BY <1>8, <2>1 DEF Said
      <3>2. PICK k \in 1 .. h : j = 2 * k - 1 \/ j = 2 * k
        BY <1>7, <3>1
      <3>3. HeaderAt(t, r, i, k) /\ SaidAt(t, r, i, k)
        BY <1>4, <1>5
      <3>4. j = 2 * k
        BY <3>1, <3>2, <3>3 DEF HeaderAt
      <3>5. k \in Wishes(r)
        <4>1. Pending(NoCarry, t, j).h = r.headers[k]
          BY <3>4, <3>3 DEF SaidAt
        <4> QED
          BY <1>1, <3>1, <4>1 DEF Wishes
      <3> QED
        BY <3>4, <3>5
    <2>2. ASSUME NEW k \in Wishes(r), j = 2 * k PROVE j \in Said(NoCarry, t, {"close", "keep"})
      <3>1. k \in 1 .. h /\ r.headers[k] \in {"close", "keep"}
        BY <1>1 DEF Wishes
      <3>2. HeaderAt(t, r, i, k) /\ SaidAt(t, r, i, k)
        BY <1>4, <1>5, <3>1
      <3>3. t[j].kind = "N" /\ Pending(NoCarry, t, j).h = r.headers[k]
        BY <2>2, <3>2 DEF HeaderAt, SaidAt
      <3>4. j \in 1 .. (2 * h + 1) - 1
        BY <2>2, <3>1
      <3> QED
        BY <1>8, <3>1, <3>3, <3>4 DEF Said
    <2> QED
      BY <2>1, <2>2
  <1>10. \A k \in DOMAIN r.headers : Pending(NoCarry, t, 2 * k).h = r.headers[k]
    <2> TAKE k \in DOMAIN r.headers
    <2>1. SaidAt(t, r, i, k)
      BY <1>1, <1>5
    <2> QED
      BY <2>1 DEF SaidAt
  <1> QED
    BY <1>8, <1>9, <1>10

\* The object keeps the connection alive exactly after a persistent request.
LEMMA Persists ==
    ASSUME NEW r \in Requests, NEW i \in Nat \ {0}, NEW X, NEW t \in Seq(X), Headed(t, r, i),
           NEW n, NEW q \in Object(n), q.keepAlive = (r.version = "1.1")
    PROVE  RequestParametersParse(q, NoCarry, t).q.keepAlive = Service!Persistent(r)
  <1>1. PICK h \in Nat : h = Len(r.headers) /\ DOMAIN r.headers = 1 .. h
    BY HeaderCount
  <1>2. PICK W, D : W = Wishes(r) /\ D = Said(NoCarry, t, {"close", "keep"})
    OBVIOUS
  <1>3. D = {2 * k : k \in W} /\ \A k \in W : Pending(NoCarry, t, 2 * k).h = r.headers[k]
    BY <1>1, <1>2, HeadersSaid DEF Wishes
  <1>4. PICK a, c, A, z, e :
            RequestParametersParse(q, NoCarry, t) =
                [q |-> [q EXCEPT !.keepAlive = a, !.chunk = c, !.applied = A], carry |-> z, ended |-> e]
            /\ a = IF D = {} THEN q.keepAlive ELSE Pending(NoCarry, t, Max(D)).h = "keep"
    BY <1>2, ParametersAre
  <1>5. RequestParametersParse(q, NoCarry, t).q.keepAlive = a
    <2>1. PICK w : w = [q EXCEPT !.keepAlive = a, !.chunk = c, !.applied = A]
      OBVIOUS
    <2>2. w.keepAlive = a
      BY <2>1 DEF Object
    <2>3. RequestParametersParse(q, NoCarry, t).q = w
      BY <1>4, <2>1
    <2> QED
      BY <2>2, <2>3
  <1>6. Service!Persistent(r) = IF W = {} THEN r.version = "1.1" ELSE r.headers[Max(W)] = "keep"
    BY <1>2 DEF Service!Persistent, Service!Max, Max, Wishes
  <1>7. CASE W = {}
    BY <1>3, <1>4, <1>5, <1>6, <1>7
  <1>8. CASE W # {}
    <2>1. W \subseteq 1 .. h
      BY <1>1, <1>2 DEF Wishes
    <2>2. Max(D) = 2 * Max(W) /\ Max(W) \in W
      BY <1>3, <1>8, <2>1, GreatestDouble
    <2>3. D # {}
      BY <1>3, <1>8
    <2> QED
      BY <1>3, <1>4, <1>5, <1>6, <1>8, <2>2, <2>3
  <1> QED
    BY <1>7, <1>8
\* A whole polite request is understood: its line and its headers give the object the
\* request number, the method, the URI and the persistence that it was sent with.
LEMMA RequestUnderstood ==
    ASSUME Polite, sent \in Seq(Requests), NEW i \in 1 .. Len(sent)
    PROVE  LET p == ParseParameters(FreshRequest, NoCarry, Units(sent[i], i))
           IN  /\ ~ p.null /\ p.carry = NoCarry
               /\ Understood(p.q, sent[i], i, Service!Persistent(sent[i]))
  <1>1. PICK n \in Nat : n = Len(sent) /\ i \in 1 .. n /\ i \in Nat \ {0}
    OBVIOUS
  <1>2. PICK r : r = sent[i] /\ r \in Requests
    BY SentRequest
  <1>3. PICK h \in Nat : h = Len(r.headers)
    BY <1>2, HeaderCount
  <1>4. PICK b : b = Units(r, i)
    OBVIOUS
  <1>5. /\ b \in Seq(UnitOf(i))
        /\ Len(b) = 4 + 2 * h + (IF r.body THEN 1 ELSE 0)
        /\ b[1] = Unit("M", i, "none") /\ b[2] = Unit("V", i, "none") /\ b[3] = Unit("N", i, "none")
        /\ \A j \in 1 .. 2 * h : b[3 + j] = HeaderUnit(r, i, j)
        /\ b[4 + 2 * h] = Unit("N", i, "none")
    BY <1>1, <1>2, <1>3, <1>4, UnitsAre
  <1>6. PICK X : X = UnitOf(n)
    OBVIOUS
  <1>7. b \in Seq(X)
    <2>1. UnitOf(i) \subseteq X
      BY <1>1, <1>6 DEF UnitOf
    <2> QED
      BY <1>5, <2>1
  <1>8. PICK l \in Nat : l = Len(b) /\ 4 + 2 * h <= l
    BY <1>5
  <1>9. LineEnd(b) = 3
    <2>1. /\ LineEnd(b) \in 0 .. l
          /\ LineEnd(b) # 0 => b[LineEnd(b)].kind = "N"
          /\ Len(Line(b)) = (IF LineEnd(b) = 0 THEN l ELSE LineEnd(b) - 1)
          /\ \A j \in 1 .. Len(Line(b)) : b[j].kind # "N"
      BY <1>7, <1>8, LineIs
    <2>2. b[1].kind # "N" /\ b[2].kind # "N" /\ b[3].kind = "N"
      BY <1>5 DEF Unit
    <2>3. LineEnd(b) # 1 /\ LineEnd(b) # 2
      BY <2>1, <2>2
    <2>4. 3 \notin 1 .. Len(Line(b))
      BY <2>1, <2>2
    <2> QED
      BY <1>8, <2>1, <2>3, <2>4
  <1>10. PICK line \in Seq(X) : line = Line(b) /\ Len(line) = 2 /\ line[1] = b[1] /\ line[2] = b[2]
    <2>1. PICK line : line = Line(b)
      OBVIOUS
    <2>2. /\ line \in Seq(X) /\ Len(line) = (IF LineEnd(b) = 0 THEN Len(b) ELSE LineEnd(b) - 1)
          /\ \A j \in 1 .. Len(line) : line[j] = b[j]
      BY <1>7, <2>1, LineIs
    <2>3. Len(line) = 2
      BY <1>9, <2>2
    <2>4. line[1] = b[1] /\ line[2] = b[2]
      BY <2>2, <2>3
    <2> QED
      BY <2>1, <2>2, <2>3, <2>4
  <1>11. PICK t : t = Rest(b)
    OBVIOUS
  <1>12. t \in Seq(X) /\ Headed(t, r, i)
    <2>1. t = SubSeq(b, 4, l)
      BY <1>8, <1>9, <1>11 DEF Rest
    <2>2. t \in Seq(X) /\ Len(t) = l - 3 /\ \A j \in 1 .. l - 3 : t[j] = b[3 + j]
      BY <1>7, <1>8, <2>1
    <2>3. 2 * h + 1 <= l - 3 /\ 2 * h \in Nat
      BY <1>8
    <2>4. \A j \in 1 .. 2 * h : t[j] = HeaderUnit(r, i, j)
      BY <1>5, <2>2, <2>3
    <2>5. t[2 * h + 1] = Unit("N", i, "none")
      <3>1. PICK k \in 1 .. l - 3 : k = 2 * h + 1 /\ 3 + k = 4 + 2 * h
        BY <2>3
      <3> QED
        BY <1>5, <2>2, <3>1
    <2> QED
      BY <1>3, <2>2, <2>3, <2>4, <2>5 DEF Headed
  <1>13. PICK w : w = RequestLine(FreshRequest, line)
    OBVIOUS
  <1>14. /\ line # <<>> /\ ~ Huge(line) /\ ThreeWords(line)
         /\ w \in Object(n) /\ Understood(w, r, i, r.version = "1.1")
    BY <1>1, <1>2, <1>5, <1>6, <1>10, <1>13, LineUnderstood
  <1>15. PICK first : first = ProccessFirstString(FreshRequest, b)
    OBVIOUS
  <1>16. first.q = w /\ first.rest = t /\ ~ first.null
    <2>1. FreshRequest.version = "undefined"
      BY DEF FreshRequest
    <2>2. LineEnd(b) # 0
      BY <1>9
    <2> QED
      BY <1>10, <1>11, <1>13, <1>14, <1>15, <2>1, <2>2, FirstStringLine DEF Rest
  <1>17. PICK f : f = RequestParametersParse(w, NoCarry, t)
    OBVIOUS
  <1>18. HeadersRead(w, f, NoCarry, t)
    <2>1. NoCarry \in PartOf(n)
      BY DEF PartOf
    <2> QED
      BY <1>1, <1>6, <1>12, <1>14, <1>17, <2>1, ParametersRead
  <1>19. f.q.keepAlive = Service!Persistent(r)
    <2>1. w.keepAlive = (r.version = "1.1")
      BY <1>14 DEF Understood
    <2> QED
      BY <1>1, <1>2, <1>12, <1>14, <1>17, <2>1, Persists
  <1>20. Understood(f.q, r, i, Service!Persistent(r))
    BY <1>14, <1>18, <1>19 DEF HeadersRead, Understood
  <1>21. PICK p : p = ParseParameters(FreshRequest, NoCarry, b)
    OBVIOUS
  <1>22. p.q = f.q /\ p.carry = f.carry /\ ~ p.null
    <2>1. w.status = 200
      BY <1>14 DEF Understood
    <2>2. p = [q |-> f.q, carry |-> f.carry, again |-> f.ended, null |-> FALSE]
      BY <1>15, <1>16, <1>17, <1>21, <2>1 DEF ParseParameters
    <2> QED
      BY <2>2
  <1>23. f.carry = NoCarry
    BY <1>1, <1>2, <1>12, <1>18, HeadersSaid DEF HeadersRead
  <1> QED
    BY <1>2, <1>4, <1>20, <1>21, <1>22, <1>23
-----------------------------------------------------------------------------
(* One request at a time, and one answer to each.                          *)

\* Every request sent was read and answered but, perhaps, the last, which is unread.
OneUnread ==
    \/ net = <<>> /\ Len(out) = Len(sent)
    \/ /\ sent # <<>> /\ Len(out) + 1 = Len(sent)
       /\ net = Units(sent[Len(sent)], Len(sent))

\* The last request answered lets the connection go on, where the freed flag tells.
GoesOn == FreedValue = "kept" /\ out # <<>> => Service!Persistent(sent[Len(out)])

\* The client has left, and every request was answered.
NothingLeft == client # "open" /\ net = <<>> /\ Len(out) >= Len(sent)

\* The last request sent was read and understood, and is being answered.
Answering ==
    /\ net = <<>> /\ sent # <<>> /\ Len(out) + 1 = Len(sent)
    /\ GoesOn
    /\ Understood(req, sent[Len(sent)], Len(sent), Service!Persistent(sent[Len(sent)]))

\* The client has left, and what is being answered is the end of its input.
Refusing == NothingLeft /\ req.MethodHTTP = "methodUnknow" /\ ~ req.keepAlive

\* The object says exactly after a persistent request, and not when the client has left,
\* that the loop is to go on.
Decided ==
    \/ OneUnread /\ out # <<>> /\ req.keepAlive = Service!Persistent(sent[Len(out)])
    \/ NothingLeft /\ ~ req.keepAlive

OneByOne ==
    /\ errno \in {"0", "ENOENT"} /\ carry = NoCarry
    /\ result = "timeout" => pc \in {"log", "loop", "closed"}
    /\ client = "open" => Len(out) <= Len(sent) /\ pc # "cut"
    /\ pc = "read" => req = FreshRequest
    /\ pc \in {"create", "read"} => (OneUnread /\ GoesOn) \/ NothingLeft
    /\ pc = "method" => Answering \/ Refusing
    /\ pc \in {"log", "loop"} /\ result # "timeout" => Decided

\* What the client sees of an answer, and of w that are whole when the requests s were sent.
Reply(a) == [i |-> a.i, status |-> a.status]
Replies(o, l) == [n \in 1 .. l |-> Reply(o[n])]
AnswersOf(o, w, s) == Replies(o, Min({w, Len(s)}))

LEMMA AnswersAre ==
    ASSUME NEW o, NEW w \in Nat, NEW s \in Seq(Requests),
           NEW l \in Nat, l = (IF w <= Len(s) THEN w ELSE Len(s))
    PROVE  AnswersOf(o, w, s) = Replies(o, l) /\ Len(Replies(o, l)) = l
  <1>1. {w, Len(s)} \subseteq Nat /\ {w, Len(s)} # {}
    OBVIOUS
  <1>2. /\ Min({w, Len(s)}) \in {w, Len(s)}
        /\ \A k \in {w, Len(s)} : Min({w, Len(s)}) <= k
    BY <1>1, LeastElement
  <1>3. Min({w, Len(s)}) = l
    BY <1>2
  <1>4. PICK A : A = [n \in 1 .. l |-> Reply(o[n])]
    OBVIOUS
  <1>5. Len(A) = l
    <2>1. A \in [1 .. l -> {Reply(o[n]) : n \in 1 .. l}]
      BY <1>4
    <2> QED
      BY <2>1, IsASeq
  <1> QED
    BY <1>3, <1>4, <1>5 DEF AnswersOf, Replies

LEMMA AnswersView ==
    /\ Answers = AnswersOf(out, Whole, sent) /\ Answers' = AnswersOf(out', Whole', sent')
    /\ Len(out) \in Nat /\ pc # "cut" => Whole = Len(out)
    /\ Len(out') \in Nat /\ pc' # "cut" => Whole' = Len(out')
  BY DEF Answers, AnswersOf, Replies, Reply, Whole

\* As long as no answer is without a request, the client sees all of them.
LEMMA AllSeen ==
    ASSUME IndInv, Len(out) <= Len(sent), pc # "cut"
    PROVE  Answers = Replies(out, Len(out)) /\ Len(Answers) = Len(out)
  <1>1. out \in Seq(Answer(Len(sent))) /\ sent \in Seq(Requests) /\ Len(out) \in Nat
    BY DEF IndInv, Typed
  <1>2. PICK m \in Nat, n \in Nat : m = Len(out) /\ n = Len(sent) /\ m <= n
    BY <1>1
  <1>3. Answers = AnswersOf(out, m, sent)
    BY <1>2, AnswersView
  <1>4. m = (IF m <= Len(sent) THEN m ELSE Len(sent))
    BY <1>2
  <1> QED
    BY <1>1, <1>2, <1>3, <1>4, AnswersAre

\* The last answer the client sees is to the last request that was answered.
LEMMA LastSeen ==
    ASSUME IndInv, Len(out) <= Len(sent), pc # "cut"
    PROVE  Service!LastAllowsMore <=> GoesOn
  <1>1. Len(Answers) = Len(out) /\ out \in Seq(Answer(Len(sent)))
    BY AllSeen DEF IndInv, Typed
  <1>2. Answers = [n \in 1 .. Len(out) |-> Reply(out[n])]
    BY AllSeen DEF Replies
  <1>3. Answers = <<>> <=> out = <<>>
    <2>1. CASE out = <<>>
      <3>1. Len(Answers) = 0 /\ Answers \in Seq({Reply(out[n]) : n \in 1 .. Len(out)})
        BY <1>1, <1>2, <2>1, IsASeq
      <3> QED
        BY <2>1, <3>1
    <2>2. CASE out # <<>>
      BY <1>1, <2>2
    <2> QED
      BY <2>1, <2>2
  <1> QED
    BY <1>1, <1>3 DEF Service!LastAllowsMore, GoesOn

\* A step without an answer, a request or a change of the connection is none of the service.
LEMMA NotSeen ==
    ASSUME UNCHANGED <<sent, out, client>>, Phase' = Phase, pc' = "cut" <=> pc = "cut"
    PROVE  UNCHANGED Service!vars
  <1>1. Whole' = Whole
    BY DEF Whole
  <1> QED
    BY <1>1 DEF Service!vars, Answers

LEMMA Nonempty ==
    ASSUME NEW X, NEW s \in Seq(X), s # <<>>
    PROVE  Len(s) \in 1 .. Len(s)
  OBVIOUS

\* When nothing is unread, every request was answered.
LEMMA AllAnswered ==
    ASSUME IndInv, OneUnread, net = <<>>
    PROVE  Len(out) = Len(sent)
  <1>1. PICK n \in Nat : n = Len(sent)
    BY DEF IndInv, Typed
  <1>2. SUFFICES ASSUME sent # <<>>, net = Units(sent[n], n) PROVE FALSE
    BY <1>1 DEF OneUnread
  <1>3. n \in 1 .. Len(sent) /\ n \in Nat \ {0} /\ sent \in Seq(Requests)
    BY <1>1, <1>2, Nonempty DEF IndInv, Typed
  <1>4. sent[n] \in Requests
    BY <1>3
  <1>5. Len(Units(sent[n], n)) >= 4
    BY <1>3, <1>4, UnitsStream
  <1> QED
    BY <1>2, <1>5

\* A further request is sent when the last one was answered.
LEMMA AskStep ==
    ASSUME Polite, IndInv, OneByOne, NEW r \in Requests, SendRequest(r)
    PROVE  OneByOne' /\ Service!Ask(r)
  <1>1. PICK m \in Nat, n \in Nat : m = Len(out) /\ n = Len(sent)
    BY DEF IndInv, Typed
  <1>2. sent \in Seq(Requests) /\ DOMAIN sent = 1 .. n /\ out \in Seq(Answer(n)) /\ net \in Seq(UnitOf(n))
    BY <1>1 DEF IndInv, Typed
  <1>3. /\ client = "open" /\ m = n
        /\ sent' = Append(sent, r) /\ net' = net \o Units(r, n + 1)
        /\ UNCHANGED <<pc, req, result, carry, errno, out, client>> /\ pc # "cut"
    BY <1>1 DEF SendRequest, handlerVars, Polite, OneByOne
  <1>4. sent' \in Seq(Requests) /\ Len(sent') = n + 1 /\ sent'[n + 1] = r /\ \A j \in 1 .. n : sent'[j] = sent[j]
    BY <1>1, <1>2, <1>3
  <1>5. Answers' = Answers
    <2>1. Answers = Replies(out, m)
      BY <1>1, <1>3, AllSeen
    <2>2. Answers' = AnswersOf(out, m, sent')
      BY <1>1, <1>3, AnswersView
    <2>3. m = (IF m <= Len(sent') THEN m ELSE Len(sent'))
      BY <1>1, <1>3, <1>4
    <2>4. AnswersOf(out, m, sent') = Replies(out, m)
      BY <1>1, <1>2, <1>4, <2>3, AnswersAre
    <2> QED
      BY <2>1, <2>2, <2>4
  <1>6. Service!Ask(r)
    BY <1>3, <1>5 DEF Service!Ask, Phase, Ended
  <1>7. out # <<>> => m \in 1 .. m
    BY <1>1, Nonempty DEF IndInv, Typed
  <1>8. ASSUME GoesOn PROVE GoesOn'
    <2>1. out # <<>> => m \in 1 .. n
      BY <1>3, <1>7
    <2> QED
      BY <1>1, <1>3, <1>4, <1>8, <2>1 DEF GoesOn
  <1>9. ASSUME OneUnread PROVE OneUnread'
    <2>1. net = <<>>
      BY <1>1, <1>3, <1>9 DEF OneUnread
    <2>2. Units(r, n + 1) \in Seq(UnitOf(n + 1))
      <3>1. n + 1 \in Nat \ {0}
        OBVIOUS
      <3> QED
        BY <3>1, UnitsAre
    <2>3. net' = Units(r, n + 1)
      BY <1>3, <2>1, <2>2
    <2>4. sent' # <<>>
      BY <1>4
    <2> QED
      BY <1>1, <1>3, <1>4, <2>3, <2>4 DEF OneUnread
  <1>10. ~ Answering /\ ~ Refusing /\ ~ NothingLeft
    BY <1>1, <1>3 DEF Answering, Refusing, NothingLeft
  <1>11. ASSUME Decided PROVE Decided'
    <2>1. OneUnread /\ out # <<>> /\ req.keepAlive = Service!Persistent(sent[m])
      BY <1>1, <1>3, <1>11 DEF Decided, NothingLeft
    <2>2. m \in 1 .. n
      BY <1>3, <1>7, <2>1
    <2>3. sent'[m] = sent[m]
      BY <1>4, <2>2
    <2> QED
      BY <1>1, <1>3, <1>9, <2>1, <2>3 DEF Decided
  <1>12. OneByOne'
    <2>1. m <= n + 1
      BY <1>3
    <2> QED
      BY <1>1, <1>3, <1>4, <1>8, <1>9, <1>10, <1>11, <2>1 DEF OneByOne
  <1> QED
    BY <1>6, <1>12

LEMMA LeaveStep ==
    ASSUME OneByOne, NEW how \in {"half", "gone"}, Leave(how)
    PROVE  OneByOne' /\ Service!Leave
  <1>1. client # "gone" /\ client' # "open"
        /\ UNCHANGED <<pc, req, result, carry, errno, out, sent, net>>
    BY DEF Leave, handlerVars
  <1>2. Service!Leave
    BY <1>1 DEF Service!Leave, Answers, Whole, Phase, Ended
  <1>3. /\ OneUnread' <=> OneUnread
        /\ GoesOn' <=> GoesOn
        /\ NothingLeft => NothingLeft'
        /\ Answering' <=> Answering
    BY <1>1 DEF OneUnread, GoesOn, NothingLeft, Answering
  <1>4. (Refusing => Refusing') /\ (Decided => Decided')
    BY <1>1, <1>3 DEF Refusing, Decided
  <1> QED
    BY <1>1, <1>2, <1>3, <1>4 DEF OneByOne

LEMMA CreateStep ==
    ASSUME OneByOne, CreateRequest
    PROVE  OneByOne' /\ UNCHANGED Service!vars
  <1>1. /\ pc = "create" /\ pc' = "read" /\ result # "timeout" /\ req' = FreshRequest
        /\ UNCHANGED <<result, carry, errno, out, sent, net, client>>
    BY DEF CreateRequest, clientVars, OneByOne
  <1>2. UNCHANGED Service!vars
    BY <1>1, NotSeen DEF Phase, Ended
  <1>3. (OneUnread' <=> OneUnread) /\ (GoesOn' <=> GoesOn) /\ (NothingLeft' <=> NothingLeft)
    BY <1>1 DEF OneUnread, GoesOn, NothingLeft
  <1> QED
    BY <1>1, <1>2, <1>3 DEF OneByOne

\* Nothing is unread when select returns 0, so that every request was answered.
LEMMA SilenceStep ==
    ASSUME IndInv, OneByOne, ReadTimeout
    PROVE  OneByOne' /\ Service!Silence
  <1>1. /\ pc = "read" /\ net = <<>> /\ result' = "timeout" /\ pc' = "log" /\ result # "timeout"
        /\ client = "open"
        /\ UNCHANGED <<req, carry, errno, out, sent, net, client>>
    BY DEF ReadTimeout, clientVars, OneByOne
  <1>2. PICK m \in Nat, n \in Nat : m = Len(out) /\ n = Len(sent)
    BY DEF IndInv, Typed
  <1>3. m = n
    BY <1>1, <1>2, AllAnswered DEF OneByOne, NothingLeft
  <1>4. Len(Answers) = Len(sent)
    BY <1>1, <1>2, <1>3, AllSeen
  <1>5. Answers' = Answers /\ Phase = "open" /\ Phase' = "silent"
    BY <1>1 DEF Answers, Whole, Phase, Ended
  <1>6. Service!Silence
    BY <1>1, <1>4, <1>5 DEF Service!Silence
  <1>7. OneByOne'
    BY <1>1 DEF OneByOne
  <1> QED
    BY <1>6, <1>7

\* The end of the input, or the reset, is answered when every request was.
LEMMA EndStep ==
    ASSUME Polite, IndInv, OneByOne, ReadError \/ ReadEof
    PROVE  OneByOne' /\ UNCHANGED Service!vars
  <1>1. /\ pc = "read" /\ net = <<>> /\ result' # "timeout" /\ pc' = "method" /\ result # "timeout"
        /\ client # "open" /\ UNCHANGED <<req, carry, errno, out, sent, net, client>>
    BY DEF ReadError, ReadEof, clientVars, OneByOne, Polite
  <1>2. PICK m \in Nat, n \in Nat : m = Len(out) /\ n = Len(sent)
    BY DEF IndInv, Typed
  <1>3. m >= n
    BY <1>1, <1>2, AllAnswered DEF OneByOne, NothingLeft
  <1>4. req.MethodHTTP = "methodUnknow" /\ ~ req.keepAlive
    BY <1>1 DEF OneByOne, FreshRequest
  <1>5. Refusing'
    BY <1>1, <1>2, <1>3, <1>4 DEF Refusing, NothingLeft
  <1>6. OneByOne'
    BY <1>1, <1>5 DEF OneByOne
  <1>7. UNCHANGED Service!vars
    BY <1>1, NotSeen DEF Phase, Ended
  <1> QED
    BY <1>6, <1>7

\* One read returns the one request that is unread, and the parser understands it.
LEMMA ReadStep ==
    ASSUME Polite, IndInv, OneByOne, NEW k \in 1 .. Len(net), ReadData(k)
    PROVE  OneByOne' /\ UNCHANGED Service!vars
  <1>1. PICK m \in Nat, n \in Nat : m = Len(out) /\ n = Len(sent)
    BY DEF IndInv, Typed
  <1>2. sent \in Seq(Requests) /\ DOMAIN sent = 1 .. n /\ net \in Seq(UnitOf(n)) /\ Len(net) \in Nat
    BY <1>1 DEF IndInv, Typed
  <1>3. pc = "read" /\ k = Len(net) /\ result # "timeout"
    BY DEF ReadData, Polite, OneByOne
  <1>4. OneUnread /\ GoesOn
    <2>1. net # <<>>
      BY <1>2
    <2> QED
      BY <1>3, <2>1 DEF OneByOne, NothingLeft
  <1>5. sent # <<>> /\ m + 1 = n /\ net = Units(sent[n], n) /\ n \in 1 .. n
    BY <1>1, <1>2, <1>4 DEF OneUnread
  <1>6. SubSeq(net, 1, k) = net /\ SubSeq(net, k + 1, Len(net)) = <<>>
    BY <1>2, <1>3
  <1>7. carry = NoCarry /\ req = FreshRequest
    BY <1>3 DEF OneByOne
  <1>8. ~ Full(net)
    BY <1>2, SentRequest DEF Full, Polite
  <1>9. PICK p : p = ParseParameters(FreshRequest, NoCarry, net)
    OBVIOUS
  <1>10. ~ p.null /\ p.carry = NoCarry /\ Understood(p.q, sent[n], n, Service!Persistent(sent[n]))
    BY <1>1, <1>2, <1>5, <1>9, RequestUnderstood
  <1>11. /\ net' = <<>> /\ result' = "data" /\ req' = p.q /\ carry' = NoCarry /\ pc' = "method"
         /\ UNCHANGED <<errno, out, sent, client>>
    <2>1. FreshRequest.status = 200
      BY DEF FreshRequest
    <2>2. PICK z : z = ParseParameters(req, carry, SubSeq(net, 1, k)) /\ z = p
      BY <1>6, <1>7, <1>9
    <2>3. /\ req' = z.q /\ carry' = z.carry
          /\ pc' = IF z.null THEN "crashed"
                   ELSE IF z.again /\ Full(SubSeq(net, 1, k)) THEN "read" ELSE "method"
      BY <1>7, <2>1, <2>2 DEF ReadData
    <2>4. /\ net' = SubSeq(net, k + 1, Len(net)) /\ UNCHANGED <<errno, out, sent, client>>
          /\ result' = IF Full(SubSeq(net, 1, k)) THEN "full" ELSE "data"
      BY DEF ReadData
    <2> QED
      BY <1>6, <1>8, <1>10, <2>2, <2>3, <2>4
  <1>12. Answering'
    BY <1>1, <1>4, <1>5, <1>10, <1>11 DEF Answering, GoesOn
  <1>13. OneByOne'
    BY <1>11, <1>12 DEF OneByOne
  <1>14. UNCHANGED Service!vars
    BY <1>3, <1>11, NotSeen DEF Phase, Ended
  <1> QED
    BY <1>13, <1>14

LEMMA OneMore ==
    ASSUME NEW X, NEW s \in Seq(X), NEW a
    PROVE  /\ Append(s, a) \in Seq(X \cup {a}) /\ Len(Append(s, a)) = Len(s) + 1
           /\ Append(s, a)[Len(s) + 1] = a
           /\ \A k \in 1 .. Len(s) : Append(s, a)[k] = s[k]
  <1>1. PICK Y : Y = X \cup {a}
    OBVIOUS
  <1>2. s \in Seq(Y) /\ a \in Y
    BY <1>1
  <1>3. PICK t : t = Append(s, a)
    OBVIOUS
  <1>4. /\ t \in Seq(Y) /\ Len(t) = Len(s) + 1 /\ t[Len(s) + 1] = a
        /\ \A k \in 1 .. Len(s) : t[k] = s[k]
    BY <1>2, <1>3, AppendProperties
  <1> QED
    BY <1>1, <1>3, <1>4

\* With one more answer, the client sees one more reply.
LEMMA RepliesGrow ==
    ASSUME NEW m \in Nat, NEW n \in Nat, m + 1 = n, NEW o, NEW p, \A k \in 1 .. m : p[k] = o[k]
    PROVE  Replies(p, n) = Append(Replies(o, m), Reply(p[n]))
  <1>1. PICK R : R = {Reply(o[k]) : k \in 1 .. m} \cup {Reply(p[n])}
    OBVIOUS
  <1>2. PICK A : A = [k \in 1 .. m |-> Reply(o[k])]
    OBVIOUS
  <1>3. A \in [1 .. m -> R]
    BY <1>1, <1>2
  <1>4. A \in Seq(R) /\ Len(A) = m
    BY <1>3, IsASeq
  <1>5. PICK e : e = Reply(p[n]) /\ e \in R
    BY <1>1
  <1>6. PICK B : B = Append(A, e)
    OBVIOUS
  <1>7. B \in [1 .. n -> R] /\ B[n] = Reply(p[n]) /\ \A k \in 1 .. m : B[k] = A[k]
    <2>1. /\ B \in Seq(R) /\ Len(B) = Len(A) + 1 /\ B[Len(A) + 1] = e
          /\ \A k \in 1 .. Len(A) : B[k] = A[k]
      BY <1>4, <1>5, <1>6, AppendProperties
    <2>2. Len(B) = n /\ B[n] = e /\ \A k \in 1 .. m : B[k] = A[k]
      BY <1>4, <2>1
    <2>3. B \in [1 .. n -> R]
      BY <2>1, <2>2, LenProperties
    <2> QED
      BY <1>5, <2>2, <2>3
  <1>8. ASSUME NEW k \in 1 .. n PROVE B[k] = Reply(p[k])
    <2>1. CASE k = n
      BY <1>7, <2>1
    <2>2. CASE k # n
      <3>1. k \in 1 .. m
        BY <2>2
      <3> QED
        BY <1>2, <1>7, <3>1
    <2> QED
      BY <2>1, <2>2
  <1>9. B = [k \in 1 .. n |-> Reply(p[k])]
    BY <1>7, <1>8
  <1> QED
    BY <1>2, <1>5, <1>9, <1>6 DEF Replies

\* The status of a polite GET or HEAD: errno says nothing but that a file is missing.
LEMMA StatusFound ==
    ASSUME req.status = 200, errno \in {"0", "ENOENT"}, req.URI \in {"file", "empty", "missing", "dir"}
    PROVE  /\ GetLengthFile(req).status = (IF req.URI \in {"file", "empty"} THEN 200 ELSE 404)
           /\ GetLengthFile(req).errno \in {"0", "ENOENT"}
  <1>1. StatusByErrno("ENOENT", 200) = 404 /\ StatusByErrno(errno, 404) = 404
    BY DEF StatusByErrno
  <1>2. CASE req.URI = "file"
    BY <1>2 DEF GetLengthFile
  <1>3. CASE req.URI = "empty"
    BY <1>3 DEF GetLengthFile
  <1>4. CASE req.URI = "missing"
    BY <1>1, <1>4 DEF GetLengthFile
  <1>5. CASE req.URI = "dir"
    BY <1>1, <1>5 DEF GetLengthFile
  <1> QED
    BY <1>2, <1>3, <1>4, <1>5

\* The answer goes to the one request that was read, with its proper status.
LEMMA AnswerStep ==
    ASSUME IndInv, OneByOne, pc = "method", Answering, NEW a, out' = Append(out, a),
           a.i = req.i, a.status = Service!ProperStatus(sent[Len(sent)]),
           req'.keepAlive = req.keepAlive, pc' = "log", errno' \in {"0", "ENOENT"},
           UNCHANGED <<result, carry, net, sent, client>>
    PROVE  OneByOne' /\ Service!Answer
  <1>1. PICK m \in Nat, n \in Nat : m = Len(out) /\ n = Len(sent)
    BY DEF IndInv, Typed
  <1>2. PICK X : out \in Seq(X)
    BY DEF IndInv, Typed
  <1>3. /\ sent \in Seq(Requests) /\ m + 1 = n /\ net = <<>> /\ GoesOn /\ result # "timeout"
        /\ req.i = n /\ req.keepAlive = Service!Persistent(sent[n])
    BY <1>1 DEF IndInv, Typed, OneByOne, Answering, Understood
  <1>4. Len(out') = n /\ out'[n] = a /\ \A k \in 1 .. m : out'[k] = out[k]
    BY <1>1, <1>2, <1>3, OneMore
  <1>5. out' # <<>>
    BY <1>2
  <1>6. Answers = Replies(out, m) /\ Len(Answers) = m
    BY <1>1, <1>3, AllSeen
  <1>7. Answers' = Replies(out', n)
    <2>1. PICK o : o = out'
      OBVIOUS
    <2>2. Answers' = AnswersOf(o, n, sent)
      BY <1>4, <2>1, AnswersView
    <2>3. AnswersOf(o, n, sent) = Replies(o, n)
      <3>1. n = (IF n <= Len(sent) THEN n ELSE Len(sent))
        BY <1>1
      <3> QED
        BY <1>3, <3>1, AnswersAre
    <2> QED
      BY <2>1, <2>2, <2>3
  <1>8. Answers' = Append(Answers, Reply(a))
    <2>1. Answers' = Append(Answers, Reply(out'[n]))
      <3>1. PICK o : o = out'
        OBVIOUS
      <3>2. \A k \in 1 .. m : o[k] = out[k]
        BY <1>4, <3>1
      <3>3. m + 1 = n
        BY <1>3
      <3>4. Replies(o, n) = Append(Replies(out, m), Reply(o[n]))
        BY <3>2, <3>3, RepliesGrow
      <3> QED
        BY <1>6, <1>7, <3>1, <3>4
    <2> QED
      BY <1>4, <2>1
  <1>9. Reply(a) = [i |-> m + 1, status |-> Service!ProperStatus(sent[m + 1])]
    BY <1>1, <1>3 DEF Reply
  <1>10. Service!LastAllowsMore
    BY <1>1, <1>3, LastSeen
  <1>11. Phase = "open" /\ Phase' = "open"
    BY <1>3 DEF Phase, Ended
  <1>12. Service!Answer
    BY <1>1, <1>3, <1>6, <1>8, <1>9, <1>10, <1>11 DEF Service!Answer
  <1>13. Decided'
    BY <1>1, <1>3, <1>4, <1>5 DEF Decided, OneUnread
  <1>14. OneByOne'
    BY <1>1, <1>3, <1>4, <1>13 DEF OneByOne
  <1> QED
    BY <1>12, <1>14

\* What the handler says to the end of the input answers no request.
LEMMA RefuseStep ==
    ASSUME IndInv, OneByOne, pc = "method", Refusing, NEW a, out' = Append(out, a),
           req'.keepAlive = req.keepAlive, pc' = "log",
           UNCHANGED <<result, carry, errno, net, sent, client>>
    PROVE  OneByOne' /\ UNCHANGED Service!vars
  <1>1. PICK m \in Nat, n \in Nat : m = Len(out) /\ n = Len(sent) /\ n <= m
    BY DEF IndInv, Typed, Refusing, NothingLeft
  <1>2. PICK X : out \in Seq(X)
    BY DEF IndInv, Typed
  <1>3. /\ sent \in Seq(Requests) /\ result # "timeout" /\ client # "open" /\ net = <<>>
        /\ ~ req.keepAlive
    BY DEF IndInv, Typed, OneByOne, Refusing, NothingLeft
  <1>4. Len(out') = m + 1 /\ \A k \in 1 .. m : out'[k] = out[k]
    <2>1. Len(Append(out, a)) = Len(out) + 1 /\ \A k \in 1 .. Len(out) : Append(out, a)[k] = out[k]
      BY <1>2, OneMore
    <2> QED
      BY <1>1, <2>1
  <1>5. Answers = Replies(out, n)
    <2>1. Answers = AnswersOf(out, m, sent)
      BY <1>1, AnswersView
    <2>2. n = (IF m <= Len(sent) THEN m ELSE Len(sent))
      BY <1>1
    <2> QED
      BY <1>3, <2>1, <2>2, AnswersAre
  <1>6. Answers' = Replies(out', n)
    <2>0. PICK l \in Nat : l = m + 1
      OBVIOUS
    <2>1. PICK o : o = out' /\ l = m + 1
      BY <2>0
    <2>2. Answers' = AnswersOf(o, l, sent)
      BY <1>4, <2>1, AnswersView
    <2>3. n = (IF l <= Len(sent) THEN l ELSE Len(sent))
      BY <1>1, <2>1
    <2>4. AnswersOf(o, l, sent) = Replies(o, n)
      BY <1>3, <2>3, AnswersAre
    <2> QED
      BY <2>1, <2>2, <2>4
  <1>7. Answers' = Answers
    <2>1. \A k \in 1 .. n : k \in 1 .. m
      BY <1>1
    <2> QED
      BY <1>4, <1>5, <1>6, <2>1 DEF Replies
  <1>8. UNCHANGED Service!vars
    BY <1>3, <1>7 DEF Service!vars, Phase, Ended
  <1>9. NothingLeft'
    BY <1>1, <1>3, <1>4 DEF NothingLeft
  <1>10. OneByOne'
    BY <1>3, <1>9 DEF OneByOne, Decided
  <1> QED
    BY <1>8, <1>10

\* The client is gone: what was sent of the response is no answer, and the process ends.
LEMMA PipeStep ==
    ASSUME IndInv, OneByOne, pc = "method", NEW a, BrokenPipe(a), errno' \in {"0", "ENOENT"},
           UNCHANGED <<result, carry, net, sent, client>>
    PROVE  OneByOne' /\ Service!Close
  <1>1. /\ client = "gone" /\ pc' \in {"crashed", "cut"} /\ result # "timeout"
        /\ IF pc' = "cut" THEN out' = Append(out, [a EXCEPT !.body = 0]) ELSE out' = out
    BY DEF BrokenPipe, OneByOne
  <1>2. PICK m \in Nat, n \in Nat : m = Len(out) /\ n = Len(sent) /\ sent \in Seq(Requests)
    BY DEF IndInv, Typed
  <1>3. Whole = m /\ Whole' = m /\ \A k \in 1 .. m : out'[k] = out[k]
    <2>1. CASE pc' = "cut"
      <3>1. PICK X : out \in Seq(X)
        BY DEF IndInv, Typed
      <3>2. PICK x : x = [a EXCEPT !.body = 0]
        OBVIOUS
      <3>3. Len(Append(out, x)) = Len(out) + 1 /\ \A k \in 1 .. Len(out) : Append(out, x)[k] = out[k]
        BY <3>1, OneMore
      <3>4. out' = Append(out, x)
        BY <1>1, <2>1, <3>2
      <3>5. Len(out') = m + 1 /\ \A k \in 1 .. m : out'[k] = out[k]
        BY <1>2, <3>3, <3>4
      <3> QED
        BY <1>2, <2>1, <3>5 DEF Whole
    <2>2. CASE pc' # "cut"
      BY <1>1, <1>2, <2>2 DEF Whole
    <2> QED
      BY <2>1, <2>2
  <1>4. PICK l \in Nat : l = (IF m <= n THEN m ELSE n)
    OBVIOUS
  <1>5. Answers = Replies(out, l)
    <2>1. Answers = AnswersOf(out, m, sent)
      BY <1>3, AnswersView
    <2>2. l = (IF m <= Len(sent) THEN m ELSE Len(sent))
      BY <1>2, <1>4
    <2> QED
      BY <1>2, <2>1, <2>2, AnswersAre
  <1>6. Answers' = Replies(out', l)
    <2>1. PICK o : o = out'
      OBVIOUS
    <2>2. Answers' = AnswersOf(o, m, sent)
      BY <1>3, <2>1, AnswersView
    <2>3. AnswersOf(o, m, sent) = Replies(o, l)
      <3>1. l = (IF m <= Len(sent) THEN m ELSE Len(sent))
        BY <1>2, <1>4
      <3> QED
        BY <1>2, <3>1, AnswersAre
    <2> QED
      BY <2>1, <2>2, <2>3
  <1>7. Answers' = Answers
    <2>1. \A k \in 1 .. l : k \in 1 .. m
      BY <1>4
    <2> QED
      BY <1>3, <1>5, <1>6, <2>1 DEF Replies
  <1>8. Service!Close
    BY <1>1, <1>7 DEF Service!Close, Phase, Ended
  <1>9. OneByOne'
    BY <1>1 DEF OneByOne
  <1> QED
    BY <1>8, <1>9

\* Each method answers the request that was read, unless the client is gone; only
\* methodUnknow answers the end of the input.
LEMMA MethodStep ==
    ASSUME Polite, IndInv, OneByOne, MethodGet \/ MethodHead \/ MethodStub \/ MethodUnknow
    PROVE  OneByOne' /\ (Service!Answer \/ Service!Close \/ UNCHANGED Service!vars)
  <1>1. PICK status, size, body, name, bytes :
            /\ Respond(Response(status, size, body), name, bytes)
            /\ \/ req.MethodHTTP \in {"methodGet", "methodHead"}
                  /\ status = GetLengthFile(req).status /\ errno' = GetLengthFile(req).errno
               \/ req.MethodHTTP = "stub" /\ status = 501 /\ errno' = errno
               \/ req.MethodHTTP = "methodUnknow" /\ errno' = errno
    BY DEF MethodGet, MethodHead, MethodStub, MethodUnknow
  <1>2. PICK a : a = Response(status, size, body)
    OBVIOUS
  <1>3. a.i = req.i /\ a.status = status
    BY <1>2 DEF Response
  <1>4. pc = "method" /\ errno \in {"0", "ENOENT"}
    BY DEF MethodGet, MethodHead, MethodStub, MethodUnknow, OneByOne
  <1>5. /\ UNCHANGED <<result, carry, net, sent, client>>
        /\ BrokenPipe(a) \/ (out' = Append(out, a) /\ pc' = "log" /\ req' = [req EXCEPT !.status = a.status])
    BY <1>1, <1>2 DEF Respond, clientVars
  <1>6. ~ BrokenPipe(a) => req'.keepAlive = req.keepAlive
    BY <1>5 DEF IndInv, Typed, Object
  <1>7. CASE Refusing
    <2>1. UNCHANGED errno
      BY <1>1, <1>7 DEF Refusing
    <2>2. CASE BrokenPipe(a)
      BY <1>4, <1>5, <2>1, <2>2, PipeStep
    <2>3. CASE ~ BrokenPipe(a)
      BY <1>4, <1>5, <1>6, <1>7, <2>1, <2>3, RefuseStep
    <2> QED
      BY <2>2, <2>3
  <1>8. CASE Answering
    <2>1. PICK n \in Nat : n = Len(sent)
      BY DEF IndInv, Typed
    <2>2. n \in 1 .. Len(sent) /\ sent \in Seq(Requests)
      BY <1>8, <2>1, Nonempty DEF IndInv, Typed, Answering
    <2>3. PICK r \in Requests : r = sent[n]
      BY <2>2
    <2>4. req.status = 200 /\ req.MethodHTTP = MethodOf(r) /\ req.URI = r.uri
      BY <1>8, <2>1, <2>3 DEF Answering, Understood
    <2>5. r.method \in {"GET", "HEAD"} => r.uri \in {"file", "empty", "missing", "dir"}
      BY DEF Polite
    <2>6. status = Service!ProperStatus(r) /\ errno' \in {"0", "ENOENT"}
      <3>1. CASE r.method \in {"GET", "HEAD"}
        <4>1. req.MethodHTTP \in {"methodGet", "methodHead"}
          BY <2>4, <3>1 DEF MethodOf
        <4>2. /\ GetLengthFile(req).status = (IF r.uri \in {"file", "empty"} THEN 200 ELSE 404)
              /\ GetLengthFile(req).errno \in {"0", "ENOENT"}
          BY <1>4, <2>4, <2>5, <3>1, StatusFound
        <4> QED
          BY <1>1, <3>1, <4>1, <4>2 DEF Service!ProperStatus
      <3>2. CASE r.method \notin {"GET", "HEAD"}
        <4>1. req.MethodHTTP = "stub"
          BY <2>4, <3>2 DEF MethodOf
        <4> QED
          BY <1>1, <1>4, <3>2, <4>1 DEF Service!ProperStatus
      <3> QED
        BY <3>1, <3>2
    <2>7. a.status = Service!ProperStatus(sent[Len(sent)])
      BY <1>3, <2>1, <2>3, <2>6
    <2>8. CASE BrokenPipe(a)
      BY <1>4, <1>5, <2>6, <2>8, PipeStep
    <2>9. CASE ~ BrokenPipe(a)
      BY <1>3, <1>4, <1>5, <1>6, <1>8, <2>6, <2>7, <2>9, AnswerStep
    <2> QED
      BY <2>8, <2>9
  <1> QED
    BY <1>4, <1>7, <1>8 DEF OneByOne

\* A polite request has a URI: it is never null in a method.
LEMMA CrashStep ==
    ASSUME Polite, IndInv, OneByOne
    PROVE  ~ NullUri
  <1> SUFFICES ASSUME NullUri PROVE FALSE
    OBVIOUS
  <1>1. pc = "method" /\ req.MethodHTTP \in {"methodGet", "methodHead"} /\ req.URI = "null"
    BY DEF NullUri
  <1>2. Answering
    BY <1>1 DEF OneByOne, Refusing
  <1>3. PICK n \in Nat : n = Len(sent)
    BY DEF IndInv, Typed
  <1>4. n \in 1 .. Len(sent) /\ sent \in Seq(Requests)
    BY <1>2, <1>3, Nonempty DEF IndInv, Typed, Answering
  <1>5. sent[n].uri \in Uris
    BY <1>4, SentRequest
  <1>6. req.URI = sent[n].uri
    BY <1>2, <1>3 DEF Answering, Understood
  <1> QED
    BY <1>1, <1>5, <1>6 DEF Uris

LEMMA LogStep ==
    ASSUME OneByOne, Log
    PROVE  OneByOne' /\ UNCHANGED Service!vars
  <1>1. pc = "log" /\ pc' = "loop" /\ UNCHANGED <<req, result, carry, errno, out, sent, net, client>>
    BY DEF Log, clientVars
  <1>2. UNCHANGED Service!vars
    BY <1>1, NotSeen DEF Phase, Ended
  <1>3. Decided => Decided'
    BY <1>1 DEF Decided, OneUnread, NothingLeft
  <1> QED
    BY <1>1, <1>2, <1>3 DEF OneByOne

\* Where the freed flag keeps its value, the loop goes on after a persistent request; after
\* another, or when the client has left, the connection is closed.
LEMMA LoopEnds ==
    ASSUME Polite, IndInv, OneByOne, Loop
    PROVE  OneByOne' /\ (Service!Close \/ UNCHANGED Service!vars)
  <1>1. /\ pc = "loop" /\ UNCHANGED <<req, result, carry, errno, out, sent, net, client>>
        /\ pc' \in {"create", "closed"}
        /\ result = "timeout" => pc' = "closed"
        /\ FreedValue = "kept" /\ result # "timeout" => (pc' = "create" <=> req.keepAlive)
    BY DEF Loop, clientVars
  <1>2. /\ OneUnread => OneUnread'
        /\ NothingLeft => NothingLeft'
        /\ GoesOn => GoesOn'
    BY <1>1 DEF OneUnread, NothingLeft, GoesOn
  <1>3. CASE result = "timeout"
    <2>1. UNCHANGED Service!vars
      BY <1>1, <1>3, NotSeen DEF Phase
    <2> QED
      BY <1>1, <1>3, <2>1 DEF OneByOne
  <1>4. CASE result # "timeout" /\ pc' = "create"
    <2>1. Decided
      BY <1>1, <1>4 DEF OneByOne
    <2>2. (OneUnread /\ GoesOn) \/ NothingLeft
      BY <1>1, <1>4, <2>1 DEF Decided, GoesOn
    <2>3. UNCHANGED Service!vars
      BY <1>1, <1>4, NotSeen DEF Phase, Ended
    <2> QED
      BY <1>1, <1>2, <1>4, <2>2, <2>3 DEF OneByOne
  <1>5. CASE result # "timeout" /\ pc' = "closed"
    <2>1. Decided
      BY <1>1, <1>5 DEF OneByOne
    <2>2. FreedValue # "kept" \/ ~ Service!LastAllowsMore \/ client # "open"
      <3>1. SUFFICES ASSUME FreedValue = "kept", OneUnread, out # <<>>, ~ Service!Persistent(sent[Len(out)])
                     PROVE  ~ Service!LastAllowsMore
        BY <1>1, <1>5, <2>1 DEF Decided, NothingLeft
      <3>2. Len(out) \in Nat /\ Len(sent) \in Nat
        BY DEF IndInv, Typed
      <3>3. Len(out) <= Len(sent)
        BY <3>1, <3>2 DEF OneUnread
      <3> QED
        BY <1>1, <3>1, <3>3, LastSeen DEF GoesOn
    <2>3. Answers' = Answers /\ Phase = "open" /\ Phase' = "closed"
      BY <1>1, <1>5 DEF Answers, Whole, Phase, Ended
    <2>4. Service!Close
      BY <1>1, <2>2, <2>3 DEF Service!Close
    <2> QED
      BY <1>1, <1>5, <2>4 DEF OneByOne
  <1> QED
    BY <1>1, <1>3, <1>4, <1>5

LEMMA ServiceStep ==
    ASSUME Polite, IndInv, OneByOne, [Next]_vars
    PROVE  OneByOne' /\ [Service!Next]_(Service!vars)
  <1>1. ASSUME NEW r \in Requests, SendRequest(r) PROVE OneByOne' /\ [Service!Next]_(Service!vars)
    BY <1>1, AskStep DEF Service!Next
  <1>2. ASSUME NEW how \in {"half", "gone"}, Leave(how) PROVE OneByOne' /\ [Service!Next]_(Service!vars)
    BY <1>2, LeaveStep DEF Service!Next
  <1>3. ASSUME NEW k \in 1 .. Len(net), ReadData(k) PROVE OneByOne' /\ [Service!Next]_(Service!vars)
    BY <1>3, ReadStep
  <1>4. CASE ReadTimeout
    BY <1>4, SilenceStep DEF Service!Next
  <1>5. CASE CreateRequest \/ ReadError \/ ReadEof \/ Log
    BY <1>5, CreateStep, EndStep, LogStep
  <1>6. CASE MethodGet \/ MethodHead \/ MethodStub \/ MethodUnknow
    BY <1>6, MethodStep DEF Service!Next
  <1>7. CASE NullUri \/ Loop
    BY <1>7, CrashStep, LoopEnds DEF Service!Next
  <1>8. CASE UNCHANGED vars
    <2>1. UNCHANGED <<pc, req, result, carry, errno, out, sent, net, client>>
      BY <1>8 DEF vars, handlerVars, clientVars
    <2>2. UNCHANGED Service!vars
      BY <2>1, NotSeen DEF Phase, Ended
    <2> QED
      BY <2>1, <2>2 DEF OneByOne, OneUnread, GoesOn, NothingLeft, Answering, Refusing, Decided
  <1>9. ~ SemopInterrupted
    BY DEF SemopInterrupted, Polite
  <1> QED
    BY <1>1, <1>2, <1>3, <1>4, <1>5, <1>6, <1>7, <1>8, <1>9 DEF Next, HandlerStep, ClientStep

\* A client that sends polite requests, whole and one at a time, gets one answer to each, in
\* order and with the proper status, until the client is silent for too long, or leaves, or
\* the connection is closed: where the freed flag keeps its value, exactly after a request
\* that is not persistent; otherwise after any.  Connection implements RequestService.
THEOREM ServesPolite ==
    ASSUME Polite
    PROVE  Spec => ServesRequests
  <1>1. Init => OneByOne /\ Service!Init
    <2> SUFFICES ASSUME Init PROVE OneByOne /\ Service!Init
      OBVIOUS
    <2>1. OneByOne
      BY DEF Init, OneByOne, OneUnread, GoesOn
    <2>2. Answers = <<>>
      <3>1. IndInv /\ Len(out) = 0 /\ Len(sent) = 0 /\ pc # "cut"
        BY IndInvInit DEF Init
      <3>2. Len(Answers) = 0 /\ Answers = [n \in 1 .. 0 |-> Reply(out[n])]
        BY <3>1, AllSeen
      <3>3. Answers \in Seq({Reply(out[n]) : n \in 1 .. 0})
        BY <3>2, IsASeq
      <3> QED
        BY <3>2, <3>3
    <2> QED
      BY <2>1, <2>2 DEF Init, Service!Init, Phase, Ended
  <1>2. IndInv /\ OneByOne /\ [Next]_vars => OneByOne' /\ [Service!Next]_(Service!vars)
    BY ServiceStep
  <1> QED
    BY <1>1, <1>2, Invariant, PTL DEF Spec, ServesRequests, Service!Spec

===============================================================================
