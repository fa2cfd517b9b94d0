-------------------------- MODULE ConversionsProofs --------------------------
(***************************************************************************)
(* Proofs about the computations that keep no state, for all instants,     *)
(* days of any length and texts of any length and characters: the          *)
(* credentials and the origins that are let in, the calendar of            *)
(* certificates and of their renewal, the days that the status shows.      *)
(***************************************************************************)
EXTENDS Conversions, FiniteSetTheorems, WellFoundedInduction, SequenceTheorems, TLAPS

\* A nonempty set of numbers has a smallest one, a bounded one a largest.
LEMMA SmallestOf ==
    ASSUME NEW S \in SUBSET Nat, S # {}
    PROVE  \E m \in S : \A n \in S : m <= n
<1>1. PICK less : less = OpToRel(<, Nat)
  OBVIOUS
<1>2. IsWellFoundedOn(less, Nat)
  BY <1>1, NatLessThanWellFounded
<1>3. PICK m \in S : \A n \in S : ~(<<n, m>> \in less)
  BY <1>2, WFMin
<1>4. ASSUME NEW n \in S PROVE m <= n
  <2>1. <<n, m>> \notin OpToRel(<, Nat)
    BY <1>1, <1>3
  <2> QED
    BY <2>1 DEF OpToRel
<1> QED
  BY <1>3, <1>4

\* The other way about: a bounded set has a largest number.
LEMMA LargestOf ==
    ASSUME NEW k \in Nat, NEW S, S \subseteq 0..k, S # {}
    PROVE  \E m \in S : \A n \in S : n <= m
<1> DEFINE D == {d \in Nat : \E i \in S : i + d = k}
<1>1. D \in SUBSET Nat /\ D # {}
  <2>1. PICK i \in S : i \in 0..k
    OBVIOUS
  <2>2. k - i \in D
    BY <2>1
  <2> QED
    BY <2>2
<1>2. PICK d \in D : \A e \in D : d <= e
  BY <1>1, SmallestOf
<1>3. PICK m \in S : m + d = k /\ m \in Nat
  BY <1>2
<1>4. ASSUME NEW n \in S PROVE n <= m
  <2>1. n \in 0..k /\ k - n \in D
    OBVIOUS
  <2> QED
    BY <1>2, <1>3, <2>1
<1> QED
  BY <1>4

-----------------------------------------------------------------------------
(* Texts *)

\* Positions of a part of a text.
LEMMA PartOf ==
    ASSUME NEW C, NEW s \in Seq(C), NEW a \in Nat \ {0}, NEW b \in 0..Len(s)
    PROVE  /\ SubSeq(s, a, b) \in Seq(C)
           /\ Len(SubSeq(s, a, b)) = IF a <= b THEN b - a + 1 ELSE 0
           /\ DOMAIN SubSeq(s, a, b) = 1..Len(SubSeq(s, a, b))
           /\ \A i \in DOMAIN SubSeq(s, a, b) : SubSeq(s, a, b)[i] = s[a + i - 1]
<1>1. \A i \in a..b : s[i] \in C
  OBVIOUS
<1>2. /\ SubSeq(s, a, b) \in Seq(C)
      /\ Len(SubSeq(s, a, b)) = IF a <= b THEN b - a + 1 ELSE 0
      /\ \A i \in 1..(b - a + 1) : SubSeq(s, a, b)[i] = s[a + i - 1]
  BY <1>1, SubSeqProperties
<1>3. /\ DOMAIN SubSeq(s, a, b) = 1..Len(SubSeq(s, a, b))
      /\ Len(SubSeq(s, a, b)) \in Nat
  BY <1>2, LenProperties
<1> QED
  BY <1>2, <1>3

\* The first and the last character that is not blank.
Edges(s, a, b) ==
    /\ a \in DOMAIN s /\ b \in DOMAIN s /\ a <= b
    /\ s[a] # Blank /\ s[b] # Blank
    /\ \A i \in DOMAIN s : i < a \/ b < i => s[i] = Blank

\* Trim keeps what lies between the outermost characters that are no blanks,
LEMMA TrimIsBetweenEdges ==
    ASSUME NEW C, NEW s \in Seq(C), NEW a, NEW b, Edges(s, a, b)
    PROVE  Trim(s) = SubSeq(s, a, b)
<1> DEFINE solid == {i \in DOMAIN s : s[i] # Blank}
<1>1. Len(s) \in Nat /\ DOMAIN s = 1..Len(s)
  BY LenProperties
<1>2. a \in solid /\ \A j \in solid : a <= j
  BY <1>1 DEF Edges
<1>3. b \in solid /\ \A j \in solid : b >= j
  BY <1>1 DEF Edges
<1>4. \A i, j \in solid : i \in Nat /\ (i <= j /\ j <= i => i = j)
  BY <1>1
<1>5. (CHOOSE i \in solid : \A j \in solid : i <= j) = a
  BY <1>2, <1>4
<1>6. (CHOOSE i \in solid : \A j \in solid : i >= j) = b
  BY <1>3, <1>4
<1>7. ~IsBlank(s)
  BY <1>2 DEF IsBlank
<1> QED
  BY <1>5, <1>6, <1>7 DEF Trim

\* which are there in every text that is not blank.
LEMMA EdgesExist ==
    ASSUME NEW C, NEW s \in Seq(C), ~IsBlank(s)
    PROVE  \E a, b \in 1..Len(s) : Edges(s, a, b)
<1> DEFINE solid == {i \in DOMAIN s : s[i] # Blank}
<1>1. Len(s) \in Nat /\ DOMAIN s = 1..Len(s)
  BY LenProperties
<1>2. solid \in SUBSET Nat /\ solid \subseteq 0..Len(s) /\ solid # {}
  BY <1>1 DEF IsBlank
<1>3. PICK a \in solid : \A j \in solid : a <= j
  BY <1>2, SmallestOf
<1>4. PICK b \in solid : \A j \in solid : j <= b
  <2> HIDE DEF solid
  <2> QED
    BY <1>1, <1>2, LargestOf
<1>5. Edges(s, a, b)
  BY <1>1, <1>3, <1>4 DEF Edges
<1> QED
  BY <1>1, <1>3, <1>4, <1>5

\* What Trim returns has no blanks at its ends, and is a part of the text.
LEMMA Trimmed ==
    ASSUME NEW C, NEW s \in Seq(C), NEW t, t = Trim(s)
    PROVE  /\ t \in Seq(C) /\ Len(t) <= Len(s) /\ Trim(t) = t
           /\ t # << >> => /\ ~IsBlank(s) /\ Len(t) \in Nat \ {0}
                           /\ Edges(t, 1, Len(t))
                           /\ \E a, b \in 1..Len(s) : Edges(s, a, b) /\ t = SubSeq(s, a, b)
<1>1. Len(s) \in Nat /\ DOMAIN s = 1..Len(s)
  BY LenProperties
<1>2. CASE IsBlank(s)
  <2>1. t = << >>
    BY <1>2 DEF Trim
  <2>4. IsBlank(<< >>)
    BY DEF IsBlank
  <2>3. Trim(t) = << >>
    BY <2>1, <2>4 DEF Trim
  <2>2. t \in Seq(C) /\ Len(t) = 0
    BY <2>1, EmptySeq
  <2> QED
    BY <1>1, <2>1, <2>2, <2>3
<1>3. CASE ~IsBlank(s)
  <2>1. PICK a \in 1..Len(s), b \in 1..Len(s) : Edges(s, a, b)
    BY <1>3, EdgesExist
  <2>2. t = SubSeq(s, a, b)
    BY <2>1, TrimIsBetweenEdges
  <2>3. a <= b /\ a \in Nat \ {0} /\ b \in 0..Len(s)
    BY <1>1, <2>1 DEF Edges
  <2>4. /\ t \in Seq(C) /\ Len(t) = b - a + 1
        /\ DOMAIN t = 1..Len(t) /\ \A i \in 1..Len(t) : t[i] = s[a + i - 1]
    BY <2>2, <2>3, PartOf
  <2>5. t[1] = s[a] /\ t[Len(t)] = s[b]
    BY <2>3, <2>4
  <2>6. Edges(t, 1, Len(t))
    BY <2>1, <2>3, <2>4, <2>5 DEF Edges
  <2>7. Trim(t) = t
    BY <2>4, <2>6, TrimIsBetweenEdges, SubSeqFull
  <2>8. Len(t) <= Len(s) /\ Len(t) \in Nat \ {0}
    BY <1>1, <2>1, <2>3, <2>4
  <2>9. \E x, y \in 1..Len(s) : Edges(s, x, y) /\ t = SubSeq(s, x, y)
    BY <2>1, <2>2
  <2> QED
    BY <1>3, <2>4, <2>6, <2>7, <2>8, <2>9
<1> QED
  BY <1>2, <1>3

\* A text that is its own trimmed form has no blank at its ends.
LEMMA KeptByTrim ==
    ASSUME NEW C, NEW t \in Seq(C), t = Trim(t), t # << >>
    PROVE  Edges(t, 1, Len(t)) /\ Len(t) \in Nat \ {0}
  BY Trimmed

\* What is left of a text between blanks.
LEMMA TrimOfPadded ==
    ASSUME NEW C, NEW s \in Seq(C), NEW a \in 1..Len(s), NEW b \in a..Len(s),
           NEW t, t = SubSeq(s, a, b), Edges(t, 1, Len(t)),
           \A i \in 1..Len(s) : i < a \/ b < i => s[i] = Blank
    PROVE  Trim(s) = t
<1>1. Len(s) \in Nat /\ DOMAIN s = 1..Len(s)
  BY LenProperties
<1>2. /\ Len(t) = b - a + 1
      /\ DOMAIN t = 1..Len(t) /\ \A i \in 1..Len(t) : t[i] = s[a + i - 1]
  BY <1>1, PartOf
<1>3. t[1] = s[a] /\ t[Len(t)] = s[b]
  BY <1>1, <1>2
<1>4. Edges(s, a, b)
  BY <1>1, <1>3 DEF Edges
<1> QED
  BY <1>4, TrimIsBetweenEdges

\* The first colon.
LEMMA FirstColon ==
    ASSUME NEW C, NEW s \in Seq(C), NEW k \in Colons(s), \A j \in Colons(s) : k <= j
    PROVE  Separator(s) = k
<1>1. Len(s) \in Nat /\ DOMAIN s = 1..Len(s)
  BY LenProperties
<1>2. \A i, j \in Colons(s) : i \in Nat /\ (i <= j /\ j <= i => i = j)
  BY <1>1 DEF Colons
<1> QED
  BY <1>2 DEF Separator

\* A text with colons has a first one, and Separator is its place.
LEMMA FirstColonExists ==
    ASSUME NEW C, NEW s \in Seq(C), Colons(s) # {}
    PROVE  /\ Separator(s) \in 1..Len(s) /\ s[Separator(s)] = ":"
           /\ \A j \in Colons(s) : Separator(s) <= j
<1>1. Len(s) \in Nat /\ DOMAIN s = 1..Len(s)
  BY LenProperties
<1>2. Colons(s) \in SUBSET Nat /\ Colons(s) # {}
  BY <1>1 DEF Colons
<1>3. PICK k \in Colons(s) : \A j \in Colons(s) : k <= j
  BY <1>2, SmallestOf
<1>4. Separator(s) = k
  BY <1>3, FirstColon
<1> QED
  BY <1>1, <1>3, <1>4 DEF Colons

\* A text put behind another.
Joins(r, s, t, k) ==
    /\ Len(r) = k + Len(t)
    /\ \A n \in 1..k : r[n] = s[n]
    /\ \A n \in 1..Len(t) : r[k + n] = t[n]

\* The characters of two texts, one after the other.
LEMMA Joined ==
    ASSUME NEW C, NEW s \in Seq(C), NEW t \in Seq(C), NEW k, k = Len(s)
    PROVE  s \o t \in Seq(C) /\ Joins(s \o t, s, t, k)
<1>1. k \in Nat /\ Len(t) \in Nat
  BY LenProperties
<1>2. /\ s \o t \in Seq(C) /\ Len(s \o t) = k + Len(t)
      /\ \A n \in 1..(k + Len(t)) :
            (s \o t)[n] = IF n <= k THEN s[n] ELSE t[n - k]
  BY ConcatProperties
<1>3. ASSUME NEW n \in 1..Len(t) PROVE (s \o t)[k + n] = t[n]
  <2>1. k + n \in 1..(k + Len(t)) /\ ~(k + n <= k) /\ k + n - k = n
    BY <1>1
  <2> QED
    BY <1>2, <2>1
<1>4. ASSUME NEW n \in 1..k PROVE (s \o t)[n] = s[n]
  <2>1. n \in 1..(k + Len(t)) /\ n <= k
    BY <1>1
  <2> QED
    BY <1>2, <2>1
<1> QED
  BY <1>1, <1>2, <1>3, <1>4 DEF Joins

\* Credentials put together of their parts.
Together(i, u, j, p) == Blanks(i) \o u \o Blanks(j) \o <<":">> \o p

\* Text t stands in s behind the first m characters.
Part(t, s, m) == \A n \in 1..Len(t) : s[m + n] = t[n]

\* c is u among i and j blanks, up to character b, a colon at k, and p.
Consists(c, i, u, j, p, b, k) ==
    /\ b = i + Len(u) /\ k = b + j + 1 /\ Len(c) = k + Len(p)
    /\ \A n \in 1..i : c[n] = Blank
    /\ \A n \in 1..j : c[b + n] = Blank
    /\ Part(u, c, i) /\ c[k] = ":" /\ Part(p, c, k)

\* Where the parts of assembled credentials are in them.
LEMMA PartsOfCredentials ==
    ASSUME NEW C, Blank \in C, ":" \in C, NEW u \in Seq(C), NEW p \in Seq(C),
           NEW i \in Nat, NEW j \in Nat, NEW c, c = Together(i, u, j, p)
    PROVE  c \in Seq(C) /\ Consists(c, i, u, j, p, i + Len(u), i + Len(u) + j + 1)
<1>1. ASSUME NEW n \in Nat
      PROVE  /\ Blanks(n) \in Seq(C) /\ Len(Blanks(n)) = n
             /\ \A m \in 1..n : Blanks(n)[m] = Blank
  BY DEF Blanks
<1>2. PICK x, y, z : x = Blanks(i) /\ y = Blanks(j) /\ z = <<":">>
  OBVIOUS
<1>3. /\ x \in Seq(C) /\ Len(x) = i /\ y \in Seq(C) /\ Len(y) = j
      /\ z \in Seq(C) /\ Len(z) = 1 /\ z[1] = ":"
      /\ \A m \in 1..i : x[m] = Blank
      /\ \A m \in 1..j : y[m] = Blank
  BY <1>1, <1>2
<1>4. PICK a, b, d : a = x \o u /\ b = a \o y /\ d = b \o z /\ c = d \o p
  BY <1>2 DEF Together
<1>5. a \in Seq(C) /\ Joins(a, x, u, i)
  BY <1>3, <1>4, Joined
<1>6. Len(a) = i + Len(u) /\ Len(u) \in Nat /\ Len(p) \in Nat
  BY <1>5, LenProperties DEF Joins
<1>7. b \in Seq(C) /\ Joins(b, a, y, i + Len(u)) /\ Len(b) = i + Len(u) + j
  <2>1. b \in Seq(C) /\ Joins(b, a, y, i + Len(u))
    BY <1>3, <1>4, <1>5, <1>6, Joined
  <2> QED
    BY <1>3, <2>1 DEF Joins
<1>8. d \in Seq(C) /\ Joins(d, b, z, i + Len(u) + j) /\ Len(d) = i + Len(u) + j + 1
  <2>1. d \in Seq(C) /\ Joins(d, b, z, i + Len(u) + j)
    BY <1>3, <1>4, <1>7, Joined
  <2> QED
    BY <1>3, <2>1 DEF Joins
<1>13. c \in Seq(C) /\ Joins(c, d, p, i + Len(u) + j + 1)
  BY <1>4, <1>8, Joined
<1>9. ASSUME NEW n \in 1..i PROVE c[n] = Blank
  BY <1>3, <1>5, <1>6, <1>7, <1>8, <1>13 DEF Joins
<1>10. ASSUME NEW n \in 1..Len(u) PROVE c[i + n] = u[n]
  <2>1. /\ i + n \in 1..(i + Len(u)) /\ i + n \in 1..(i + Len(u) + j)
        /\ i + n \in 1..(i + Len(u) + j + 1)
    BY <1>6
  <2> QED
    BY <2>1, <1>5, <1>7, <1>8, <1>13 DEF Joins
<1>11. ASSUME NEW n \in 1..j PROVE c[i + Len(u) + n] = Blank
  <2>1. /\ i + Len(u) + n \in 1..(i + Len(u) + j)
        /\ i + Len(u) + n \in 1..(i + Len(u) + j + 1)
        /\ n \in 1..Len(y)
    BY <1>3, <1>6
  <2>2. y[n] = Blank /\ b[i + Len(u) + n] = y[n]
    BY <1>3, <2>1, <1>7 DEF Joins
  <2>3. d[i + Len(u) + n] = b[i + Len(u) + n]
    BY <2>1, <1>8 DEF Joins
  <2>4. c[i + Len(u) + n] = d[i + Len(u) + n]
    BY <2>1, <1>13 DEF Joins
  <2> QED
    BY <2>2, <2>3, <2>4
<1>12. c[i + Len(u) + j + 1] = ":"
  <2>1. i + Len(u) + j + 1 \in 1..(i + Len(u) + j + 1) /\ 1 \in 1..Len(z)
    BY <1>3, <1>6
  <2> QED
    BY <1>3, <2>1, <1>8, <1>13 DEF Joins
<1>14. Len(c) = i + Len(u) + j + 1 + Len(p)
  BY <1>13 DEF Joins
<1>15. \A n \in 1..Len(p) : c[i + Len(u) + j + 1 + n] = p[n]
  BY <1>13 DEF Joins
<1> QED
  BY <1>6, <1>9, <1>10, <1>11, <1>12, <1>13, <1>14, <1>15 DEF Consists, Part

\* The characters of texts, those the code looks for and that of Absent.
Chars == Characters \cup {Blank, ":", ",", "absent"}

\* The inductive invariant: what the computations are given.
Inputs ==
    /\ input.of = "certificate" =>
          input.clock \in Nat /\ input.later \in Nat /\ input.years \in Nat
    /\ input.of = "status" => input.notAfter \in Nat /\ input.now \in Nat
    /\ input.of \in {"process", "call", "origin"} => input.env \in Environments
    /\ input.of \in {"call", "origin"} => Starts(input.env)
    /\ input.of = "call" => input.credentials \in Seq(Chars)
    /\ input.of = "origin" => input.origin \in Seq(Chars)

\* All texts are sequences of one set of characters.
LEMMA TextsAreSequences ==
    /\ Text \subseteq Seq(Chars)
    /\ \A env \in Environments :
          /\ env.USERNAME \in Seq(Chars) /\ env.PASSWORD \in Seq(Chars)
          /\ env.FRONTEND_URL \in Seq(Chars) /\ env.FRONTEND_URLS \in Seq(Chars)
<1>1. Text \subseteq Seq(Chars)
  <2>1. Absent \in Seq(Chars)
    BY DEF Absent, Chars
  <2>2. ASSUME NEW s \in Seq(Characters) PROVE s \in Seq(Chars)
    <3>1. Characters \subseteq Chars
      BY DEF Chars
    <3> QED
      BY <3>1, SeqMonotonic
  <2> QED
    BY <2>1, <2>2 DEF Text
<1> QED
  BY <1>1, TextsAssumption

\* Nothing is given at first,
LEMMA InputsStart == ConversionsInit => Inputs
  BY DEF ConversionsInit, NoInput, Inputs

\* each step gives what the constants say, calls only to started processes,
LEMMA InputsKept == Inputs /\ [ConversionsNext]_input => Inputs'
<1> SUFFICES ASSUME Inputs, [ConversionsNext]_input PROVE Inputs'
  OBVIOUS
<1>1. CASE Build
  BY <1>1, InstantsAssumption DEF Build, Inputs
<1>2. CASE Show
  BY <1>2, InstantsAssumption DEF Show, Inputs
<1>3. CASE Boot
  BY <1>3 DEF Boot, Inputs
<1>4. CASE Call
  <2>1. PICK c \in Presented : input' = [of |-> "call", env |-> input.env, credentials |-> c]
    BY <1>4 DEF Call
  <2>2. c \in Seq(Chars)
    BY TextsAssumption, TextsAreSequences
  <2> QED
    BY <1>4, <2>1, <2>2 DEF Call, Inputs
<1>5. CASE Browse
  <2>1. PICK o \in Origins : input' = [of |-> "origin", env |-> input.env, origin |-> o]
    BY <1>5 DEF Browse
  <2>2. o \in Seq(Chars)
    BY TextsAssumption, TextsAreSequences
  <2> QED
    BY <1>5, <2>1, <2>2 DEF Browse, Inputs
<1>6. CASE Forget
  BY <1>6 DEF Forget, Inputs, NoInput
<1>7. CASE UNCHANGED input
  BY <1>7 DEF Inputs
<1> QED
  BY <1>1, <1>2, <1>3, <1>4, <1>5, <1>6, <1>7 DEF ConversionsNext

\* so that all inputs are as Inputs says.
LEMMA InputsHold == ConversionsSpec => []Inputs
  BY InputsStart, InputsKept, PTL DEF ConversionsSpec

\* Text t is the n characters of s behind the first m.
Cuts(C, t, s, m, n) == t \in Seq(C) /\ Len(t) = n /\ Part(t, s, m)

\* SubSeq cuts out a part.
LEMMA Cut ==
    ASSUME NEW C, NEW s \in Seq(C), NEW m \in Nat, NEW n \in Nat, m + n <= Len(s),
           NEW a, a = m + 1, NEW b, b = m + n, NEW t, t = SubSeq(s, a, b)
    PROVE  Cuts(C, t, s, m, n)
<1>1. Len(s) \in Nat /\ a \in Nat \ {0} /\ b \in 0..Len(s)
  BY LenProperties
<1>2. /\ t \in Seq(C) /\ Len(t) = IF a <= b THEN b - a + 1 ELSE 0
      /\ DOMAIN t = 1..Len(t)
      /\ \A i \in DOMAIN t : t[i] = s[a + i - 1]
  BY <1>1, PartOf
<1>3. Len(t) = n
  BY <1>2
<1>4. ASSUME NEW i \in 1..n PROVE t[i] = s[m + i]
  <2>1. i \in DOMAIN t /\ a + i - 1 = m + i
    BY <1>2, <1>3
  <2> QED
    BY <1>2, <2>1
<1> QED
  BY <1>2, <1>3, <1>4 DEF Cuts, Part

\* Where the text that Trim returns was.
LEMMA TrimmedFrom ==
    ASSUME NEW C, NEW s \in Seq(C), Trim(s) # << >>
    PROVE  \E a, b \in 1..Len(s) : Edges(s, a, b) /\ Trim(s) = SubSeq(s, a, b)
  BY Trimmed

\* c is u among blanks, a colon and p, and its first colon is that one.
Apart(c, u, p) ==
    Colons(u) = {} /\ \E i, j \in 0..Len(c) : c = Together(i, u, j, p)

\* c is cut into u and p.
CutInto(c, u, p) ==
    /\ Len(c) > 1 /\ Colons(c) # {} /\ Separator(c) > 1
    /\ Username(c) = u /\ Password(c) = p

\* Credentials that are let in are their parts put together.
LEMMA CutApart ==
    ASSUME NEW C, Blank \in C, ":" \in C, NEW c \in Seq(C), Colons(c) # {},
           NEW u, u = Username(c), u # << >>, NEW p, p = Password(c)
    PROVE  Apart(c, u, p)
<1>1. Len(c) \in Nat /\ DOMAIN c = 1..Len(c)
  BY LenProperties
<1>2. PICK k \in 1..Len(c) :
         k = Separator(c) /\ c[k] = ":" /\ \A m \in Colons(c) : k <= m
  BY FirstColonExists
<1>3. PICK h : h = SubSeq(c, 1, k - 1) /\ u = Trim(h)
  BY <1>2 DEF Username
<1>4. /\ h \in Seq(C) /\ Len(h) = k - 1 /\ Part(h, c, 0)
      /\ p \in Seq(C) /\ Len(p) = Len(c) - k /\ Part(p, c, k)
  <2>1. p = SubSeq(c, k + 1, Len(c))
    BY <1>2 DEF Password
  <2>2. 0 \in Nat /\ k - 1 \in Nat /\ 0 + (k - 1) <= Len(c) /\ k - 1 = 0 + (k - 1)
        /\ k \in Nat /\ Len(c) - k \in Nat /\ k + (Len(c) - k) <= Len(c)
        /\ Len(c) = k + (Len(c) - k) /\ 1 = 0 + 1
    BY <1>1
  <2>3. Cuts(C, h, c, 0, k - 1)
    BY <1>3, <2>2, Cut
  <2>4. Cuts(C, p, c, k, Len(c) - k)
    BY <2>1, <2>2, Cut
  <2> QED
    BY <2>3, <2>4 DEF Cuts
<1>5. PICK a \in 1..Len(h), b \in 1..Len(h) : Edges(h, a, b) /\ u = SubSeq(h, a, b)
  <2>1. h \in Seq(C) /\ Trim(h) # << >>
    BY <1>3, <1>4
  <2>2. \E a, b \in 1..Len(h) : Edges(h, a, b) /\ Trim(h) = SubSeq(h, a, b)
    BY <2>1, TrimmedFrom
  <2> QED
    BY <1>3, <2>2
<1>6. a \in 1..(k - 1) /\ b \in 1..(k - 1) /\ a <= b /\ b \in a..Len(h)
  BY <1>1, <1>4, <1>5 DEF Edges
<1>7. u \in Seq(C) /\ Len(u) = b - a + 1 /\ Part(u, h, a - 1)
  <2>1. /\ a - 1 \in Nat /\ b - a + 1 \in Nat /\ (a - 1) + (b - a + 1) <= Len(h)
        /\ a = (a - 1) + 1 /\ b = (a - 1) + (b - a + 1)
    BY <1>1, <1>4, <1>6
  <2>2. Cuts(C, u, h, a - 1, b - a + 1)
    BY <1>4, <1>5, <2>1, Cut
  <2> QED
    BY <2>2 DEF Cuts
<1>8. Part(u, c, a - 1)
  <2> SUFFICES ASSUME NEW n \in 1..Len(u) PROVE c[a - 1 + n] = u[n]
    BY DEF Part
  <2>1. a - 1 + n \in 1..Len(h) /\ 0 + (a - 1 + n) = a - 1 + n
    BY <1>1, <1>4, <1>6, <1>7
  <2>2. u[n] = h[a - 1 + n]
    BY <1>7 DEF Part
  <2>3. h[a - 1 + n] = c[0 + (a - 1 + n)]
    BY <1>4, <2>1 DEF Part
  <2> QED
    BY <2>1, <2>2, <2>3
<1>9. ASSUME NEW n \in 1..(k - 1), n < a \/ b < n PROVE c[n] = Blank
  <2>1. DOMAIN h = 1..Len(h)
    BY <1>4, LenProperties
  <2>2. n \in 1..Len(h) /\ 0 + n = n
    BY <1>1, <1>4
  <2>3. h[n] = Blank
    BY <1>5, <1>9, <2>1, <2>2 DEF Edges
  <2>4. h[n] = c[0 + n]
    BY <1>4, <2>2 DEF Part
  <2> QED
    BY <2>2, <2>3, <2>4
<1>10. Colons(u) = {}
  <2> SUFFICES ASSUME NEW n \in DOMAIN u, u[n] = ":" PROVE FALSE
    BY DEF Colons
  <2>1. n \in 1..Len(u)
    BY <1>7, LenProperties
  <2>2. a - 1 + n \in 1..(k - 1) /\ a - 1 + n \in 1..Len(c)
    BY <1>1, <1>6, <1>7, <2>1
  <2>3. c[a - 1 + n] = ":"
    BY <1>8, <2>1 DEF Part
  <2>4. a - 1 + n \in Colons(c)
    BY <1>1, <2>2, <2>3 DEF Colons
  <2> QED
    BY <1>2, <2>2, <2>4
<1>11. PICK i \in 0..Len(c), j \in 0..Len(c) : i = a - 1 /\ j = k - 1 - b
  BY <1>1, <1>6
<1>12. PICK w : w = Together(i, u, j, p)
  OBVIOUS
<1>13. w \in Seq(C) /\ Consists(w, i, u, j, p, i + Len(u), i + Len(u) + j + 1)
  <2>1. i \in Nat /\ j \in Nat
    BY <1>1
  <2> QED
    BY <1>4, <1>7, <1>12, <2>1, PartsOfCredentials
<1>14. i + Len(u) = b /\ b + j + 1 = k /\ Len(w) = Len(c)
  <2>1. Len(w) = i + Len(u) + j + 1 + Len(p)
    BY <1>13 DEF Consists
  <2>2. i + Len(u) = b
    BY <1>1, <1>6, <1>7, <1>11
  <2>3. b + j + 1 = k
    BY <1>1, <1>6, <1>11
  <2>4. Len(p) = Len(c) - k
    BY <1>4
  <2> QED
    BY <1>1, <2>1, <2>2, <2>3, <2>4
<1>15. ASSUME NEW n \in 1..Len(c) PROVE w[n] = c[n]
  <2>0. Consists(w, i, u, j, p, b, k)
    BY <1>13, <1>14
  <2>1. CASE n <= i
    <3>1. n \in 1..i /\ n \in 1..(k - 1) /\ n < a
      BY <1>1, <1>6, <1>11, <2>1
    <3> QED
      BY <1>9, <2>0, <3>1 DEF Consists
  <2>2. CASE i < n /\ n <= b
    <3>1. PICK m \in 1..Len(u) : n = i + m
      <4>1. n - i \in 1..Len(u) /\ n = i + (n - i)
        BY <1>1, <1>6, <1>7, <1>11, <2>2
      <4> QED
        BY <4>1
    <3>2. Part(u, w, i) /\ Part(u, c, i)
      BY <1>8, <1>11, <2>0 DEF Consists
    <3> QED
      BY <3>1, <3>2 DEF Part
  <2>3. CASE b < n /\ n < k
    <3>1. PICK m \in 1..j : n = b + m
      <4>1. n - b \in 1..j /\ n = b + (n - b)
        BY <1>1, <1>6, <1>11, <2>3
      <4> QED
        BY <4>1
    <3>2. c[n] = Blank
      BY <1>1, <1>9, <2>3
    <3> QED
      BY <2>0, <3>1, <3>2 DEF Consists
  <2>4. CASE n = k
    BY <1>2, <2>0, <2>4 DEF Consists
  <2>5. CASE k < n
    <3>1. PICK m \in 1..Len(p) : n = k + m
      <4>1. n - k \in 1..Len(p) /\ n = k + (n - k)
        BY <1>1, <1>4, <2>5
      <4> QED
        BY <4>1
    <3>2. Part(p, w, k) /\ Part(p, c, k)
      BY <1>4, <2>0 DEF Consists
    <3> QED
      BY <3>1, <3>2 DEF Part
  <2> QED
    BY <1>1, <1>6, <2>1, <2>2, <2>3, <2>4, <2>5
<1>16. w = c
  BY <1>13, <1>14, <1>15, SeqEqual
<1> QED
  BY <1>10, <1>12, <1>16 DEF Apart

\* Parts put together are cut apart again.
LEMMA PutTogether ==
    ASSUME NEW C, Blank \in C, ":" \in C, NEW u \in Seq(C), NEW p \in Seq(C),
           u # << >>, Edges(u, 1, Len(u)), Colons(u) = {},
           NEW i \in Nat, NEW j \in Nat, NEW c, c = Together(i, u, j, p)
    PROVE  CutInto(c, u, p)
<1>1. PICK b, k : /\ b = i + Len(u) /\ k = i + Len(u) + j + 1
                  /\ c \in Seq(C) /\ Consists(c, i, u, j, p, b, k)
  BY PartsOfCredentials
<1>2. /\ Len(u) \in Nat \ {0} /\ Len(p) \in Nat /\ DOMAIN u = 1..Len(u)
      /\ Len(c) \in Nat /\ DOMAIN c = 1..Len(c)
  BY <1>1, LenProperties, EmptySeq
<1>3. /\ b \in Nat /\ i < b /\ k \in 1..Len(c) /\ b < k /\ k > 1 /\ c[k] = ":"
      /\ Len(c) - k = Len(p) /\ Len(c) > 1 + Len(p) /\ k = b + j + 1
  <2>1. Len(c) = k + Len(p) /\ c[k] = ":"
    BY <1>1 DEF Consists
  <2> QED
    BY <1>1, <1>2, <2>1
<1>4. ASSUME NEW n \in 1..(k - 1), n <= i \/ b < n PROVE c[n] = Blank
  <2>1. CASE n <= i
    BY <1>1, <2>1 DEF Consists
  <2>2. CASE b < n
    <3>1. PICK m \in 1..j : n = b + m
      <4>1. n - b \in 1..j /\ n = b + (n - b)
        BY <1>3, <2>2
      <4> QED
        BY <4>1
    <3> QED
      BY <1>1, <3>1 DEF Consists
  <2> QED
    BY <1>4, <2>1, <2>2
<1>5. ASSUME NEW n \in 1..(k - 1) PROVE c[n] # ":"
  <2>1. CASE n <= i \/ b < n
    BY <1>4, <2>1 DEF Blank
  <2>2. CASE i < n /\ n <= b
    <3>1. PICK m \in 1..Len(u) : n = i + m
      <4>1. n - i \in 1..Len(u) /\ n = i + (n - i)
        BY <1>1, <1>2, <2>2
      <4> QED
        BY <4>1
    <3>2. c[n] = u[m]
      BY <1>1, <3>1 DEF Consists, Part
    <3> QED
      BY <1>2, <3>2 DEF Colons
  <2> QED
    BY <1>3, <2>1, <2>2
<1>6. Separator(c) = k /\ Colons(c) # {}
  <2>1. k \in Colons(c)
    BY <1>2, <1>3 DEF Colons
  <2>2. ASSUME NEW m \in Colons(c) PROVE k <= m
    <3>1. m \in 1..Len(c) /\ c[m] = ":"
      BY <1>2 DEF Colons
    <3> QED
      BY <1>2, <1>3, <1>5, <3>1
  <2> QED
    BY <1>1, <2>1, <2>2, FirstColon
<1>7. PICK h, q : h = SubSeq(c, 1, k - 1) /\ q = SubSeq(c, k + 1, Len(c))
  OBVIOUS
<1>8. /\ h \in Seq(C) /\ Len(h) = k - 1 /\ Part(h, c, 0)
      /\ q \in Seq(C) /\ Len(q) = Len(c) - k /\ Part(q, c, k)
  <2>1. 0 \in Nat /\ k - 1 \in Nat /\ 0 + (k - 1) <= Len(c) /\ k - 1 = 0 + (k - 1)
        /\ k \in Nat /\ Len(c) - k \in Nat /\ k + (Len(c) - k) <= Len(c)
        /\ Len(c) = k + (Len(c) - k) /\ 1 = 0 + 1
    BY <1>2, <1>3
  <2>2. Cuts(C, h, c, 0, k - 1)
    BY <1>1, <1>7, <2>1, Cut
  <2>3. Cuts(C, q, c, k, Len(c) - k)
    BY <1>1, <1>7, <2>1, Cut
  <2> QED
    BY <2>2, <2>3 DEF Cuts
<1>9. q = p
  <2>1. Len(q) = Len(p) /\ Part(p, c, k)
    BY <1>1, <1>3, <1>8 DEF Consists
  <2>2. \A n \in 1..Len(q) : q[n] = p[n]
    BY <1>8, <2>1 DEF Part
  <2> QED
    BY <1>8, <2>1, <2>2, SeqEqual
<1>10. Trim(h) = u
  <2>1. PICK a \in 1..Len(h) : a = i + 1 /\ b \in a..Len(h)
    BY <1>3, <1>8
  <2>2. PICK t : t = SubSeq(h, a, b)
    OBVIOUS
  <2>3. t \in Seq(C) /\ Len(t) = b - a + 1 /\ Part(t, h, a - 1)
    <3>1. /\ a - 1 \in Nat /\ b - a + 1 \in Nat /\ (a - 1) + (b - a + 1) <= Len(h)
          /\ a = (a - 1) + 1 /\ b = (a - 1) + (b - a + 1)
      BY <1>2, <1>3, <1>8, <2>1
    <3>2. Cuts(C, t, h, a - 1, b - a + 1)
      BY <1>8, <2>2, <3>1, Cut
    <3> QED
      BY <3>2 DEF Cuts
  <2>4. Len(t) = Len(u)
    BY <1>1, <1>2, <2>1, <2>3
  <2>5. ASSUME NEW n \in 1..Len(t) PROVE t[n] = u[n]
    <3>1. /\ a - 1 + n = i + n /\ i + n \in 1..Len(h) /\ 0 + (i + n) = i + n
          /\ n \in 1..Len(u)
      BY <1>1, <1>2, <1>3, <1>8, <2>1, <2>4
    <3>2. t[n] = h[i + n]
      BY <2>3, <3>1 DEF Part
    <3>3. h[i + n] = c[i + n]
      BY <1>8, <3>1 DEF Part
    <3>4. c[i + n] = u[n]
      BY <1>1, <3>1 DEF Consists, Part
    <3> QED
      BY <3>2, <3>3, <3>4
  <2>6. t = u
    BY <2>3, <2>4, <2>5, SeqEqual
  <2>7. ASSUME NEW n \in 1..Len(h), n < a \/ b < n PROVE h[n] = Blank
    <3>1. n \in 1..(k - 1) /\ 0 + n = n /\ (n <= i \/ b < n)
      BY <1>3, <1>8, <2>1, <2>7
    <3>2. h[n] = c[0 + n]
      BY <1>8 DEF Part
    <3> QED
      BY <1>4, <3>1, <3>2
  <2>8. u = SubSeq(h, a, b)
    BY <2>2, <2>6
  <2> QED
    BY <1>8, <2>1, <2>7, <2>8, TrimOfPadded
<1> QED
  BY <1>2, <1>3, <1>6, <1>7, <1>9, <1>10 DEF CutInto, Username, Password

\* What a process that has started expects.
LEMMA ExpectedTexts ==
    ASSUME Inputs, input.of \in {"process", "call", "origin"}, Starts(input.env),
           NEW u, u = Expected(input.env).username,
           NEW p, p = Expected(input.env).password
    PROVE  /\ u \in Seq(Chars) /\ u # << >> /\ Edges(u, 1, Len(u))
           /\ p \in Seq(Chars) /\ p # << >> /\ Len(p) \in Nat \ {0}
           /\ Len(u) \in Nat \ {0}
<1>1. /\ input.env.USERNAME \in Seq(Chars) /\ input.env.PASSWORD \in Seq(Chars)
      /\ u = Trim(input.env.USERNAME) /\ p = Trim(input.env.PASSWORD)
      /\ u # << >> /\ p # << >>
  BY TextsAreSequences DEF Inputs, Expected, Starts
<1> QED
  BY <1>1, Trimmed

\* A variable that is not set is no pair of texts.
LEMMA AbsentIsShort == Len(Absent) = 1
  BY DEF Absent

\* To admit a caller whose credentials are more than one character long is to
\* find the two expected texts on the sides of their first colon.
LEMMA Admits ==
    ASSUME NEW env, NEW C, NEW c \in Seq(C), Len(c) > 1
    PROVE  Authenticates(env, c)
             <=> /\ Colons(c) # {} /\ Separator(c) > 1
                 /\ Username(c) = Expected(env).username
                 /\ Password(c) = Expected(env).password
<1>1. c # Absent
  <2>1. PICK n \in Nat : n = Len(c)
    BY LenProperties
  <2>2. n > 1
    BY <2>1
  <2>3. ASSUME c = Absent PROVE n = Len(Absent)
    BY <2>1, <2>3, Zenon
  <2> QED
    BY <2>2, <2>3, AbsentIsShort
<1> QED
  BY <1>1 DEF Authenticates

\* What the start has checked.
LEMMA StartedTexts ==
    ASSUME NEW env, Starts(env)
    PROVE  /\ env.USERNAME # << >> /\ env.PASSWORD # << >>
           /\ Expected(env).username = Trim(env.USERNAME)
           /\ Expected(env).password = Trim(env.PASSWORD)
<1>1. Valid(env)
  BY DEF Starts
<1>2. env.USERNAME # << >> /\ env.PASSWORD # << >>
  BY <1>1 DEF Valid
<1> QED
  BY <1>2 DEF Expected

\* A caller is taken for the administration service exactly when it presents
\* the two expected texts around a colon.
THEOREM ExactlyThePairIsAdmitted == ConversionsSpec => []AdmitsExactlyThePair
<1>1. Inputs => AdmitsExactlyThePair
  <2> SUFFICES ASSUME Inputs, input.of = "call" PROVE AdmitsExactlyThePair
    BY DEF AdmitsExactlyThePair
  <2>1. PICK c, u, p : /\ c = input.credentials
                       /\ u = Expected(input.env).username
                       /\ p = Expected(input.env).password
    OBVIOUS
  <2>2. /\ c \in Seq(Chars) /\ Starts(input.env)
        /\ Blank \in Chars /\ ":" \in Chars
    BY <2>1 DEF Inputs, Chars
  <2>3. /\ u \in Seq(Chars) /\ u # << >> /\ Edges(u, 1, Len(u))
        /\ p \in Seq(Chars) /\ Len(p) \in Nat \ {0}
    BY <2>1, <2>2, ExpectedTexts
  <2>4. ASSUME Authenticates(input.env, c)
        PROVE  Apart(c, u, p)
    <3>1. Colons(c) # {} /\ u = Username(c) /\ p = Password(c)
      BY <2>1, <2>4 DEF Authenticates
    <3> QED
      BY <2>2, <2>3, <3>1, CutApart
  <2>5. ASSUME Colons(u) = {}, NEW i \in 0..Len(c), NEW j \in 0..Len(c),
               c = Together(i, u, j, p)
        PROVE  Authenticates(input.env, c)
    <3>1. i \in Nat /\ j \in Nat
      OBVIOUS
    <3>2. CutInto(c, u, p)
      BY <2>2, <2>3, <2>5, <3>1, PutTogether
    <3>3. /\ Len(c) > 1 /\ Colons(c) # {} /\ Separator(c) > 1
          /\ Username(c) = u /\ Password(c) = p
      BY <3>2 DEF CutInto
    <3> QED
      BY <2>1, <2>2, <3>3, Admits
  <2> QED
    BY <2>1, <2>4, <2>5 DEF AdmitsExactlyThePair, Together, Apart
<1> QED
  BY <1>1, InputsHold, PTL

\* What the administration service sends.
LEMMA SentCredentials ==
    ASSUME NEW C, ":" \in C, NEW u \in Seq(C), NEW p \in Seq(C), u # << >>,
           NEW c, c = u \o <<":">> \o p
    PROVE  IF Colons(u) = {} THEN CutInto(c, Trim(u), p)
                             ELSE Len(Password(c)) > Len(p)
<1>1. Len(u) \in Nat \ {0} /\ Len(p) \in Nat /\ DOMAIN u = 1..Len(u)
  BY LenProperties, EmptySeq
<1>2. PICK k : k = Len(u) + 1
  OBVIOUS
<1>3. c \in Seq(C) /\ Len(c) = k + Len(p) /\ Part(u, c, 0) /\ c[k] = ":" /\ Part(p, c, k)
  <2>1. PICK z, d : z = <<":">> /\ d = u \o z /\ c = d \o p
    OBVIOUS
  <2>2. z \in Seq(C) /\ Len(z) = 1 /\ z[1] = ":"
    BY <2>1
  <2>3. d \in Seq(C) /\ Joins(d, u, z, Len(u))
    BY <2>1, <2>2, Joined
  <2>4. /\ Len(d) = k /\ d[k] = ":" /\ \A n \in 1..Len(u) : d[n] = u[n]
    <3>1. 1 \in 1..Len(z)
      BY <2>2
    <3> QED
      BY <1>2, <2>2, <2>3, <3>1 DEF Joins
  <2>5. c \in Seq(C) /\ Joins(c, d, p, k)
    BY <2>1, <2>3, <2>4, Joined
  <2>6. \A n \in 1..k : c[n] = d[n]
    BY <2>5 DEF Joins
  <2>7. Part(u, c, 0)
    <3> SUFFICES ASSUME NEW n \in 1..Len(u) PROVE c[0 + n] = u[n]
      BY DEF Part
    <3>1. 0 + n = n /\ n \in 1..k
      BY <1>1, <1>2
    <3> QED
      BY <2>4, <2>6, <3>1
  <2>8. Len(c) = k + Len(p) /\ Part(p, c, k)
    BY <2>5 DEF Joins, Part
  <2>9. c[k] = ":"
    <3>1. k \in 1..k
      BY <1>1, <1>2
    <3> QED
      BY <2>4, <2>6, <3>1
  <2> QED
    BY <2>5, <2>7, <2>8, <2>9
<1>4. k \in 1..Len(c) /\ k > 1 /\ Len(c) \in Nat /\ DOMAIN c = 1..Len(c)
  BY <1>1, <1>2, <1>3, LenProperties
<1>5. k \in Colons(c)
  BY <1>3, <1>4 DEF Colons
<1>6. ASSUME NEW n \in 1..Len(u) PROVE c[n] = u[n]
  <2>1. 0 + n = n
    BY <1>1
  <2> QED
    BY <1>3, <2>1 DEF Part
<1>7. ASSUME Colons(u) = {}
      PROVE  Separator(c) = k /\ Username(c) = Trim(u) /\ Password(c) = p
  <2>1. ASSUME NEW m \in Colons(c) PROVE k <= m
    <3>1. m \in 1..Len(c) /\ c[m] = ":"
      BY <1>4 DEF Colons
    <3>2. m \notin 1..Len(u)
      BY <1>1, <1>6, <1>7, <3>1 DEF Colons
    <3> QED
      BY <1>1, <1>2, <3>1, <3>2
  <2>2. Separator(c) = k
    BY <1>3, <1>5, <2>1, FirstColon
  <2>3. PICK h, q : h = SubSeq(c, 1, k - 1) /\ q = SubSeq(c, k + 1, Len(c))
    OBVIOUS
  <2>4. h = u
    <3>1. 0 \in Nat /\ Len(u) \in Nat /\ 0 + Len(u) <= Len(c) /\ 1 = 0 + 1
          /\ k - 1 = 0 + Len(u)
      BY <1>1, <1>2, <1>3
    <3>2. Cuts(C, h, c, 0, Len(u))
      BY <1>3, <2>3, <3>1, Cut
    <3>3. h \in Seq(C) /\ Len(h) = Len(u)
      BY <3>2 DEF Cuts
    <3>4. \A n \in 1..Len(h) : h[n] = u[n]
      BY <1>3, <3>2, <3>3 DEF Cuts, Part
    <3> QED
      BY <3>3, <3>4, SeqEqual
  <2>5. q = p
    <3>1. k \in Nat /\ Len(p) \in Nat /\ k + Len(p) <= Len(c) /\ Len(c) = k + Len(p)
      BY <1>1, <1>2, <1>3
    <3>2. Cuts(C, q, c, k, Len(p))
      BY <1>3, <2>3, <3>1, Cut
    <3>3. q \in Seq(C) /\ Len(q) = Len(p)
      BY <3>2 DEF Cuts
    <3>4. \A n \in 1..Len(q) : q[n] = p[n]
      BY <1>3, <3>2, <3>3 DEF Cuts, Part
    <3> QED
      BY <3>3, <3>4, SeqEqual
  <2> QED
    BY <2>2, <2>3, <2>4, <2>5 DEF Username, Password
<1>8. ASSUME Colons(u) # {} PROVE Len(Password(c)) > Len(p)
  <2>1. PICK m \in 1..Len(u) : u[m] = ":"
    BY <1>1, <1>8 DEF Colons
  <2>2. m \in Colons(c)
    BY <1>1, <1>2, <1>4, <1>6, <2>1 DEF Colons
  <2>3. PICK s \in 1..Len(c) : s = Separator(c) /\ s <= m
    BY <1>3, <1>5, <2>2, FirstColonExists
  <2>4. PICK q : q = SubSeq(c, s + 1, Len(c)) /\ q = Password(c)
    BY <2>3 DEF Password
  <2>5. s \in Nat /\ Len(c) - s \in Nat /\ s + (Len(c) - s) <= Len(c)
        /\ Len(c) = s + (Len(c) - s)
    BY <1>4, <2>3
  <2>6. Cuts(C, q, c, s, Len(c) - s)
    BY <1>3, <2>4, <2>5, Cut
  <2>7. Len(q) = Len(c) - s
    BY <2>6 DEF Cuts
  <2> QED
    BY <1>1, <1>2, <1>3, <2>1, <2>3, <2>4, <2>7
<1> QED
  BY <1>1, <1>2, <1>3, <1>4, <1>5, <1>7, <1>8 DEF CutInto

\* The same two texts on both sides let the administration service in, unless
\* the user name has a colon or the password a blank at its ends.
THEOREM SameTextsAreAdmitted == ConversionsSpec => []SameTextsAdmit
<1>1. Inputs => SameTextsAdmit
  <2> SUFFICES ASSUME Inputs, input.of = "process", Starts(input.env)
               PROVE  SameTextsAdmit
    BY DEF SameTextsAdmit
  <2>1. PICK env, u, p, c :
           /\ env = input.env /\ u = env.USERNAME /\ p = env.PASSWORD
           /\ c = u \o <<":">> \o p
    OBVIOUS
  <2>2. u \in Seq(Chars) /\ p \in Seq(Chars) /\ ":" \in Chars
    BY <2>1, TextsAreSequences DEF Inputs, Chars
  <2>3. /\ u # << >> /\ p # << >>
        /\ Expected(env).username = Trim(u) /\ Expected(env).password = Trim(p)
    BY <2>1, StartedTexts
  <2>4. IF Colons(u) = {} THEN CutInto(c, Trim(u), p)
                          ELSE Len(Password(c)) > Len(p)
    BY <2>1, <2>2, <2>3, SentCredentials
  <2>5. Len(p) \in Nat /\ Len(Trim(p)) \in Nat /\ Len(Trim(p)) <= Len(p)
    <3>1. Trim(p) \in Seq(Chars) /\ Len(Trim(p)) <= Len(p)
      BY <2>2, Trimmed
    <3> QED
      BY <2>2, <3>1, LenProperties
  <2>7. Authenticates(env, c) <=> Colons(u) = {} /\ p = Trim(p)
    <3>1. CASE Colons(u) = {}
      <4>1. /\ Len(c) > 1 /\ Colons(c) # {} /\ Separator(c) > 1
            /\ Username(c) = Trim(u) /\ Password(c) = p
        BY <2>4, <3>1 DEF CutInto
      <4>2. c \in Seq(Chars)
        <5>1. <<":">> \in Seq(Chars)
          BY <2>2
        <5> QED
          BY <2>1, <2>2, <5>1, ConcatProperties
      <4> QED
        BY <2>3, <3>1, <4>1, <4>2, Admits
    <3>2. CASE Colons(u) # {}
      <4>1. Password(c) # Trim(p)
        BY <2>4, <2>5, <3>2
      <4> QED
        BY <2>3, <3>2, <4>1 DEF Authenticates
    <3> QED
      BY <3>1, <3>2
  <2> QED
    BY <2>1, <2>7 DEF SameTextsAdmit
<1> QED
  BY <1>1, InputsHold, PTL

\* A part of a part.
LEMMA CutOfCut ==
    ASSUME NEW C, NEW o, NEW e, NEW s, NEW m \in Nat, NEW n \in Nat,
           NEW x \in Nat, NEW l \in Nat, x + l <= n,
           Cuts(C, e, s, m, n), Cuts(C, o, e, x, l)
    PROVE  Cuts(C, o, s, m + x, l)
<1>1. ASSUME NEW k \in 1..Len(o) PROVE s[(m + x) + k] = o[k]
  <2>1. Len(o) = l /\ e[x + k] = o[k]
    BY DEF Cuts, Part
  <2>2. x + k \in 1..Len(e)
    BY <2>1 DEF Cuts
  <2>3. s[m + (x + k)] = e[x + k]
    BY <2>2 DEF Cuts, Part
  <2>4. m + (x + k) = (m + x) + k
    BY <2>1
  <2> QED
    BY <2>1, <2>3, <2>4
<1> QED
  BY <1>1 DEF Cuts, Part

\* There is one text to cut from one place.
LEMMA OneCut ==
    ASSUME NEW C, NEW o, NEW e, NEW s, NEW m, NEW n,
           Cuts(C, e, s, m, n), Cuts(C, o, s, m, n)
    PROVE  o = e
<1>1. o \in Seq(C) /\ e \in Seq(C) /\ Len(o) = Len(e)
  BY DEF Cuts
<1>2. ASSUME NEW k \in 1..Len(o) PROVE o[k] = e[k]
  <2>1. s[m + k] = o[k] /\ s[m + k] = e[k]
    BY <1>1 DEF Cuts, Part
  <2> QED
    BY <2>1
<1> QED
  BY <1>1, <1>2, SeqEqual

\* A part is blank when its characters are.
LEMMA BlankPart ==
    ASSUME NEW C, NEW s \in Seq(C), NEW a \in Nat \ {0}, NEW b \in 0..Len(s)
    PROVE  IsBlank(SubSeq(s, a, b)) <=> \A k \in a..b : s[k] = Blank
<1>1. PICK t : t = SubSeq(s, a, b)
  OBVIOUS
<1>2. /\ Len(t) = IF a <= b THEN b - a + 1 ELSE 0
      /\ DOMAIN t = 1..Len(t) /\ \A i \in DOMAIN t : t[i] = s[a + i - 1]
      /\ Len(s) \in Nat
  BY <1>1, PartOf, LenProperties
<1>3. ASSUME IsBlank(t), NEW k \in a..b PROVE s[k] = Blank
  <2>1. k - a + 1 \in DOMAIN t /\ a + (k - a + 1) - 1 = k
    BY <1>2
  <2>2. t[k - a + 1] = s[k]
    BY <1>2, <2>1
  <2> QED
    BY <1>3, <2>1, <2>2 DEF IsBlank
<1>4. ASSUME \A k \in a..b : s[k] = Blank PROVE IsBlank(t)
  <2> SUFFICES ASSUME NEW i \in DOMAIN t PROVE t[i] = Blank
    BY DEF IsBlank
  <2>1. a + i - 1 \in a..b
    BY <1>2
  <2> QED
    BY <1>2, <1>4, <2>1
<1> QED
  BY <1>1, <1>3, <1>4

\* o is the n characters of s behind the first m, with blanks around them up to
\* the breaks p and q.
Stands(C, s, o, p, m, n, q) ==
    /\ p \in Breaks(s) /\ q \in Breaks(s) /\ p <= m /\ m + n < q
    /\ Cuts(C, o, s, m, n)
    /\ \A k \in 1..Len(s) : (p < k /\ k <= m) \/ (m + n < k /\ k < q) => s[k] = Blank

\* The places where entries of a list begin and end.
LEMMA BreaksAre ==
    ASSUME NEW C, NEW s \in Seq(C), NEW L \in Nat, L = Len(s), NEW p
    PROVE  p \in Breaks(s) <=> /\ p \in 0..(L + 1)
                               /\ p = 0 \/ p = L + 1 \/ (p \in 1..L /\ s[p] = ",")
<1>1. DOMAIN s = 1..L
  BY LenProperties
<1>2. p \in Breaks(s) <=> p = 0 \/ p = L + 1 \/ (p \in 1..L /\ s[p] = ",")
  BY <1>1, Zenon DEF Breaks
<1>3. ASSUME p = 0 \/ p = L + 1 \/ p \in 1..L PROVE p \in 0..(L + 1)
  BY <1>3
<1> QED
  BY <1>2, <1>3, Zenon

\* An entry that stands in a list is listed in it,
LEMMA StandingIsListed ==
    ASSUME NEW C, NEW s \in Seq(C), NEW o \in Seq(C), NEW p, NEW m \in Nat,
           NEW n \in Nat \ {0}, NEW q, Stands(C, s, o, p, m, n, q)
    PROVE  Lists(s, o)
<1>1. PICK L \in Nat : L = Len(s) /\ DOMAIN s = 1..L
  BY LenProperties
<1>2. p \in 0..(L + 1) /\ q \in 0..(L + 1) /\ p <= m /\ m + n < q
  BY <1>1, BreaksAre DEF Stands
<1>3. (p = 0 \/ s[p] = ",") /\ (q = L + 1 \/ s[q] = ",")
  <2>1. p # L + 1 /\ q # 0
    BY <1>2
  <2> QED
    BY <1>1, <2>1, BreaksAre DEF Stands
<1>4. PICK i \in 1..L, j \in 1..L :
         /\ i = m + 1 /\ j = m + n /\ i - 1 = m /\ j = i + n - 1 /\ m + n <= L
  <2>1. m + 1 \in 1..L /\ m + n \in 1..L /\ m + n = (m + 1) + n - 1
    BY <1>2
  <2> QED
    BY <2>1
<1>5. Len(o) = n
  BY DEF Stands, Cuts
<1>6. SubSeq(s, i, j) = o
  <2>1. Cuts(C, SubSeq(s, i, j), s, m, n)
    BY <1>1, <1>4, Cut
  <2>2. Cuts(C, o, s, m, n)
    BY DEF Stands
  <2> QED
    BY <2>1, <2>2, OneCut
<1>7. p \in 0..(i - 1) /\ IsBlank(SubSeq(s, p + 1, i - 1))
  <2>1. p + 1 \in Nat \ {0} /\ i - 1 \in 0..L /\ p \in 0..(i - 1)
    BY <1>2, <1>4
  <2>2. ASSUME NEW k \in (p + 1)..(i - 1) PROVE s[k] = Blank
    <3>1. k \in 1..L /\ p < k /\ k <= m
      BY <1>2, <1>4
    <3> QED
      BY <1>1, <3>1 DEF Stands
  <2> QED
    BY <1>1, <2>1, <2>2, BlankPart
<1>8. q \in (j + 1)..(L + 1) /\ IsBlank(SubSeq(s, j + 1, q - 1))
  <2>1. j + 1 \in Nat \ {0} /\ q - 1 \in 0..L /\ q \in (j + 1)..(L + 1)
    BY <1>2, <1>4
  <2>2. ASSUME NEW k \in (j + 1)..(q - 1) PROVE s[k] = Blank
    <3>1. k \in 1..L /\ m + n < k /\ k < q
      BY <1>2, <1>4
    <3> QED
      BY <1>1, <3>1 DEF Stands
  <2> QED
    BY <1>1, <2>1, <2>2, BlankPart
<1> QED
  BY <1>1, <1>3, <1>4, <1>5, <1>6, <1>7, <1>8 DEF Lists

\* and a listed one stands in it.
LEMMA ListedStands ==
    ASSUME NEW C, NEW s \in Seq(C), NEW o \in Seq(C), o # << >>, Lists(s, o)
    PROVE  \E p, q, m \in Nat : Stands(C, s, o, p, m, Len(o), q)
<1>1. PICK L \in Nat : L = Len(s) /\ DOMAIN s = 1..L
  BY LenProperties
<1>2. PICK n \in Nat \ {0} : n = Len(o)
  BY LenProperties, EmptySeq
<1>3. PICK i \in 1..L :
        LET j == i + n - 1
        IN  /\ j <= L /\ SubSeq(s, i, j) = o
            /\ \E a \in 0..(i - 1) : /\ a = 0 \/ s[a] = ","
                                     /\ IsBlank(SubSeq(s, a + 1, i - 1))
            /\ \E b \in (j + 1)..(L + 1) : /\ b = L + 1 \/ s[b] = ","
                                           /\ IsBlank(SubSeq(s, j + 1, b - 1))
  BY <1>1, <1>2 DEF Lists
<1>4. PICK j \in 1..L, m \in 0..L :
         j = i + n - 1 /\ m = i - 1 /\ i = m + 1 /\ j = m + n /\ m + n <= L
  <2>1. i + n - 1 <= L
    BY <1>3, Zenon
  <2>2. i + n - 1 \in 1..L /\ i - 1 \in 0..L
    BY <2>1
  <2> QED
    BY <2>2
<1>5. SubSeq(s, i, j) = o
  BY <1>3, <1>4
<1>6. PICK p \in 0..m :
         (p = 0 \/ s[p] = ",") /\ IsBlank(SubSeq(s, p + 1, m))
  BY <1>3, <1>4
<1>7. PICK q \in (j + 1)..(L + 1) :
         (q = L + 1 \/ s[q] = ",") /\ IsBlank(SubSeq(s, j + 1, q - 1))
  BY <1>3, <1>4
<1>8. Cuts(C, o, s, m, n)
  <2>1. m \in Nat /\ n \in Nat /\ m + n <= Len(s) /\ i = m + 1 /\ j = m + n
    BY <1>1, <1>4
  <2> QED
    BY <1>5, <2>1, Cut
<1>9. p \in Breaks(s) /\ q \in Breaks(s)
  <2>1. /\ p \in 0..(L + 1) /\ q \in 0..(L + 1)
        /\ p # 0 => p \in 1..L
        /\ q # L + 1 => q \in 1..L
    OBVIOUS
  <2> QED
    BY <1>1, <1>6, <1>7, <2>1, BreaksAre
<1>10. \A k \in (p + 1)..m : s[k] = Blank
  <2>1. p + 1 \in Nat \ {0} /\ m \in 0..Len(s)
    BY <1>1
  <2> QED
    BY <1>6, <2>1, BlankPart
<1>11. \A k \in (j + 1)..(q - 1) : s[k] = Blank
  <2>1. j + 1 \in Nat \ {0} /\ q - 1 \in 0..Len(s)
    BY <1>1
  <2> QED
    BY <1>7, <2>1, BlankPart
<1>12. ASSUME NEW k \in 1..L, (p < k /\ k <= m) \/ (m + n < k /\ k < q)
       PROVE  s[k] = Blank
  <2>1. k \in (p + 1)..m \/ k \in (j + 1)..(q - 1)
    BY <1>4, <1>12
  <2> QED
    BY <1>10, <1>11, <2>1
<1>13. p <= m /\ m + n < q /\ p \in Nat /\ q \in Nat /\ m \in Nat
  BY <1>4
<1>14. Stands(C, s, o, p, m, n, q)
  BY <1>1, <1>8, <1>9, <1>12, <1>13 DEF Stands
<1> QED
  BY <1>2, <1>13, <1>14

\* What Split finds stands between two neighbouring commas or ends.
LEMMA SplitStands ==
    ASSUME NEW C, NEW s \in Seq(C), NEW o, o \in Split(s)
    PROVE  /\ o \in Seq(C) /\ o = Trim(o) /\ o # << >> /\ Len(o) \in Nat \ {0}
           /\ \A k \in 1..Len(o) : o[k] # ","
           /\ \E p, q, m \in Nat : Stands(C, s, o, p, m, Len(o), q)
<1>1. PICK L \in Nat : L = Len(s) /\ DOMAIN s = 1..L
  BY LenProperties
<1>2. PICK p \in Breaks(s), q \in Breaks(s) :
         /\ p < q /\ \A k \in Breaks(s) : k <= p \/ q <= k
         /\ o = Trim(SubSeq(s, p + 1, q - 1))
  BY DEF Split, Gaps
<1>3. o # << >>
  BY DEF Split
<1>4. p \in 0..L /\ q \in 1..(L + 1)
  <2>1. p \in 0..(L + 1) /\ q \in 0..(L + 1) /\ p < q
    BY <1>1, <1>2, BreaksAre
  <2> QED
    BY <2>1
<1>5. PICK w \in Nat : w = q - 1 - p /\ p + w = q - 1
  <2>1. p < q
    BY <1>2
  <2>2. q - 1 - p \in Nat /\ p + (q - 1 - p) = q - 1
    BY <1>4, <2>1
  <2> QED
    BY <2>2
<1>17. PICK e : e = SubSeq(s, p + 1, q - 1)
  OBVIOUS
<1>6. Cuts(C, e, s, p, w)
  <2>1. p \in Nat /\ w \in Nat /\ p + w <= Len(s) /\ q - 1 = p + w
    BY <1>1, <1>4, <1>5
  <2> QED
    BY <1>1, <1>17, <2>1, Cut
<1>7. e \in Seq(C) /\ Len(e) = w /\ DOMAIN e = 1..w
  BY <1>6, LenProperties DEF Cuts
<1>8. o \in Seq(C) /\ o = Trim(o) /\ Len(o) \in Nat \ {0}
  BY <1>2, <1>3, <1>7, <1>17, Trimmed
<1>9. PICK x \in 1..w, y \in 1..w : Edges(e, x, y) /\ o = SubSeq(e, x, y)
  <2>1. Trim(e) # << >>
    BY <1>2, <1>3, <1>17
  <2>2. \E a, b \in 1..Len(e) : Edges(e, a, b) /\ Trim(e) = SubSeq(e, a, b)
    BY <1>7, <2>1, TrimmedFrom
  <2> QED
    BY <1>2, <1>7, <1>17, <2>2
<1>10. PICK n \in Nat, z \in Nat : n = y - x + 1 /\ z = x - 1 /\ z + n = y /\ z + 1 = x
  <2>1. x <= y
    BY <1>9 DEF Edges
  <2>2. y - x + 1 \in Nat /\ x - 1 \in Nat
    BY <2>1
  <2> QED
    BY <2>2
<1>11. Cuts(C, o, e, z, n) /\ Len(o) = n
  <2>1. z + n <= Len(e)
    BY <1>7, <1>10
  <2>2. Cuts(C, o, e, z, n)
    BY <1>7, <1>9, <1>10, <2>1, Cut
  <2> QED
    BY <2>2 DEF Cuts
<1>12. Cuts(C, o, s, p + z, n)
  <2>1. z + n <= w /\ p \in Nat
    BY <1>4, <1>10
  <2> QED
    BY <1>6, <1>11, <2>1, CutOfCut
<1>13. ASSUME NEW k \in 1..n PROVE o[k] # ","
  <2>1. s[p + z + k] = o[k]
    BY <1>11, <1>12 DEF Cuts, Part
  <2>2. /\ p + z + k \in 1..L /\ p < p + z + k /\ p + z + k < q
        /\ p + z + k \in 0..(L + 1)
    <3>1. p + z + k < q
      BY <1>4, <1>5, <1>10
    <3> QED
      BY <1>4, <3>1
  <2>3. p + z + k \notin Breaks(s)
    <3>1. ~(p + z + k <= p) /\ ~(q <= p + z + k)
      BY <1>4, <2>2
    <3> QED
      BY <1>2, <3>1
  <2> QED
    BY <1>1, <2>1, <2>2, <2>3, BreaksAre
<1>14. ASSUME NEW k \in 1..L, (p < k /\ k <= p + z) \/ (p + z + n < k /\ k < q)
       PROVE  s[k] = Blank
  <2>1. PICK h \in 1..w : p + h = k /\ (h < x \/ y < h)
    <3>1. k - p \in 1..w /\ p + (k - p) = k /\ (k - p < x \/ y < k - p)
      BY <1>4, <1>5, <1>10, <1>14
    <3> QED
      BY <3>1
  <2>2. s[p + h] = e[h]
    BY <1>6, <1>7 DEF Cuts, Part
  <2>3. e[h] = Blank
    BY <1>7, <1>9, <2>1 DEF Edges
  <2> QED
    BY <2>1, <2>2, <2>3
<1>15. p \in Nat /\ q \in Nat /\ p + z \in Nat /\ p <= p + z /\ p + z + n < q
  BY <1>4, <1>5, <1>10
<1>16. Stands(C, s, o, p, p + z, n, q)
  BY <1>1, <1>2, <1>12, <1>14, <1>15 DEF Stands
<1> QED
  BY <1>3, <1>8, <1>11, <1>13, <1>15, <1>16

\* Entries have no commas.
NoComma(o) == \A k \in 1..Len(o) : o[k] # ","

\* And what stands between breaks without a comma in it is found.
LEMMA StandingIsSplit ==
    ASSUME NEW C, NEW s \in Seq(C), NEW o \in Seq(C), o # << >>, o = Trim(o),
           NoComma(o), NEW p \in Nat, NEW q \in Nat, NEW m \in Nat,
           Stands(C, s, o, p, m, Len(o), q)
    PROVE  o \in Split(s)
<1>1. PICK L \in Nat : L = Len(s) /\ DOMAIN s = 1..L
  BY LenProperties
<1>2. PICK n \in Nat \ {0} : n = Len(o) /\ Edges(o, 1, n)
  BY KeptByTrim
<1>3. /\ p \in Breaks(s) /\ q \in Breaks(s) /\ p <= m /\ m + n < q
      /\ Cuts(C, o, s, m, n)
      /\ \A k \in 1..L : (p < k /\ k <= m) \/ (m + n < k /\ k < q) => s[k] = Blank
  BY <1>1, <1>2 DEF Stands
<1>15. p <= m /\ m + n < q
  BY <1>3
<1>4. p \in 0..L /\ q \in 1..(L + 1) /\ p < q
  <2>1. p \in 0..(L + 1) /\ q \in 0..(L + 1)
    BY <1>1, <1>3, BreaksAre
  <2> QED
    BY <1>15, <2>1
<1>5. ASSUME NEW k \in Breaks(s) PROVE k <= p \/ q <= k
  <2>1. PICK h \in 0..(L + 1) :
           h = k /\ (h = 0 \/ h = L + 1 \/ (h \in 1..L /\ s[h] = ","))
    BY <1>1, BreaksAre
  <2>2. ASSUME h \in 1..L, s[h] = ",", p < h, h < q PROVE FALSE
    <3>1. s[h] # Blank
      BY <2>2 DEF Blank
    <3>2. ~(p < h /\ h <= m) /\ ~(m + n < h /\ h < q)
      BY <1>3, <2>2, <3>1
    <3>3. PICK i \in 1..n : m + i = h
      <4>2. m < h /\ h <= m + n
        <5>1. p < h /\ h < q
          BY <2>2
        <5> QED
          BY <1>15, <3>2, <5>1
      <4>1. h - m \in 1..n /\ m + (h - m) = h
        BY <4>2
      <4> QED
        BY <4>1
    <3>4. s[h] = o[i]
      BY <1>2, <1>3, <3>3 DEF Cuts, Part
    <3> QED
      BY <1>2, <2>2, <3>4 DEF NoComma
  <2>3. h <= p \/ q <= h
    <3>1. CASE h = 0 \/ h = L + 1
      BY <1>4, <3>1
    <3>2. CASE h \in 1..L /\ s[h] = ","
      <4>1. ~(p < h /\ h < q)
        BY <2>2, <3>2
      <4> QED
        BY <4>1
    <3> QED
      BY <2>1, <3>1, <3>2
  <2> QED
    BY <2>1, <2>3
<1>6. <<p, q>> \in Gaps(s)
  BY <1>3, <1>4, <1>5 DEF Gaps
<1>14. PICK e : e = SubSeq(s, p + 1, q - 1)
  OBVIOUS
<1>7. PICK w \in Nat : w = q - 1 - p /\ p + w = q - 1
  <2>1. q - 1 - p \in Nat /\ p + (q - 1 - p) = q - 1
    BY <1>4
  <2> QED
    BY <2>1
<1>8. Cuts(C, e, s, p, w)
  <2>1. p \in Nat /\ w \in Nat /\ p + w <= Len(s) /\ q - 1 = p + w
    BY <1>1, <1>4, <1>7
  <2> QED
    BY <1>1, <1>14, <2>1, Cut
<1>9. e \in Seq(C) /\ Len(e) = w /\ DOMAIN e = 1..w
  BY <1>8, LenProperties DEF Cuts
<1>10. PICK x \in 1..w, y \in 1..w, z \in Nat :
          z = m - p /\ x = z + 1 /\ y = z + n /\ p + z = m /\ x <= y
  <2>1. m - p + 1 \in 1..w /\ m - p + n \in 1..w /\ m - p \in Nat
        /\ p + (m - p) = m /\ m - p + 1 <= m - p + n
    BY <1>4, <1>7, <1>15
  <2> QED
    BY <2>1
<1>11. o = SubSeq(e, x, y)
  <2>1. z + n <= w /\ p \in Nat /\ n \in Nat
    BY <1>4, <1>10
  <2>2. Cuts(C, SubSeq(e, x, y), e, z, n)
    BY <1>9, <1>10, <2>1, Cut
  <2>3. Cuts(C, SubSeq(e, x, y), s, p + z, n)
    BY <1>8, <2>1, <2>2, CutOfCut
  <2> QED
    BY <1>3, <1>10, <2>3, OneCut
<1>12. ASSUME NEW i \in 1..w, i < x \/ y < i PROVE e[i] = Blank
  <2>1. /\ p + i \in 1..L
        /\ (p < p + i /\ p + i <= m) \/ (m + n < p + i /\ p + i < q)
    BY <1>4, <1>7, <1>10, <1>12
  <2>2. s[p + i] = e[i]
    BY <1>8, <1>9 DEF Cuts, Part
  <2> QED
    BY <1>3, <2>1, <2>2
<1>13. Trim(e) = o
  <2>1. y \in x..w
    BY <1>10
  <2> QED
    BY <1>2, <1>9, <1>11, <1>12, <2>1, TrimOfPadded
<1>16. o \in {Trim(SubSeq(s, g[1] + 1, g[2] - 1)) : g \in Gaps(s)}
  <2>1. PICK g \in Gaps(s) : g = <<p, q>>
    BY <1>6
  <2>2. o = Trim(SubSeq(s, g[1] + 1, g[2] - 1))
    BY <1>13, <1>14, <2>1
  <2> QED
    BY <2>2
<1> QED
  BY <1>16 DEF Split

\* Split returns what the list lists, trimmed.
LEMMA SplitLists ==
    ASSUME NEW C, NEW s \in Seq(C), NEW o \in Seq(C), o # << >>
    PROVE  o \in Split(s)
             <=> o = Trim(o) /\ (\A i \in DOMAIN o : o[i] # ",") /\ Lists(s, o)
<1>1. DOMAIN o = 1..Len(o) /\ Len(o) \in Nat \ {0}
  BY LenProperties, EmptySeq
<1>2. ASSUME o \in Split(s)
      PROVE  o = Trim(o) /\ (\A i \in DOMAIN o : o[i] # ",") /\ Lists(s, o)
  <2>1. PICK p \in Nat, q \in Nat, m \in Nat : Stands(C, s, o, p, m, Len(o), q)
    BY <1>2, SplitStands
  <2>2. Lists(s, o)
    BY <1>1, <2>1, StandingIsListed
  <2> QED
    BY <1>1, <1>2, <2>2, SplitStands
<1>3. ASSUME o = Trim(o), \A i \in DOMAIN o : o[i] # ",", Lists(s, o)
      PROVE  o \in Split(s)
  <2>1. PICK p \in Nat, q \in Nat, m \in Nat : Stands(C, s, o, p, m, Len(o), q)
    BY <1>3, ListedStands
  <2> QED
    BY <1>1, <1>3, <2>1, StandingIsSplit DEF NoComma
<1> QED
  BY <1>2, <1>3

\* The origins that are let in are those listed between commas, wherever there
\* are blanks and empty entries.
THEOREM ListedOriginsAreLetIn == ConversionsSpec => []OriginsAreListed
<1>1. Inputs => OriginsAreListed
  <2> SUFFICES ASSUME Inputs, input.of = "origin" PROVE OriginsAreListed
    BY DEF OriginsAreListed
  <2>1. PICK o \in Seq(Chars) : o = input.origin
    BY DEF Inputs
  <2>2. PICK env \in Environments : env = input.env
    BY DEF Inputs
  <2>3. env.FRONTEND_URL \in Seq(Chars) /\ env.FRONTEND_URLS \in Seq(Chars)
    BY TextsAreSequences
  <2>4. ASSUME o # << >>, NEW s \in Seq(Chars)
        PROVE  o \in OriginsOf(s)
                 <=> /\ o = Trim(o) /\ \A i \in DOMAIN o : o[i] # ","
                     /\ s # Absent /\ Lists(s, o)
    BY <2>4, SplitLists DEF OriginsOf
  <2>5. ASSUME o # << >>
        PROVE  o \in AllowedOrigins(env)
                 <=> /\ o = Trim(o) /\ \A i \in DOMAIN o : o[i] # ","
                     /\ \E s \in {env.FRONTEND_URL, env.FRONTEND_URLS} :
                           s # Absent /\ Lists(s, o)
    <3>1. PICK x \in Seq(Chars), y \in Seq(Chars) :
             x = env.FRONTEND_URL /\ y = env.FRONTEND_URLS
      BY <2>3
    <3>2. o \in AllowedOrigins(env) <=> o \in OriginsOf(x) \/ o \in OriginsOf(y)
      BY <3>1 DEF AllowedOrigins
    <3>3. (\E s \in {env.FRONTEND_URL, env.FRONTEND_URLS} : s # Absent /\ Lists(s, o))
            <=> (x # Absent /\ Lists(x, o)) \/ (y # Absent /\ Lists(y, o))
      BY <3>1
    <3> QED
      BY <2>4, <2>5, <3>2, <3>3, Zenon
  <2> QED
    BY <2>1, <2>2, <2>5, Zenon DEF OriginsAreListed, OriginAllowed
<1> QED
  BY <1>1, InputsHold, PTL

-----------------------------------------------------------------------------
(* Years *)

\* What \div and % return.
LEMMA Quotients ==
    ASSUME NEW n \in Nat, NEW k \in Nat \ {0}
    PROVE  n \div k \in Nat /\ n % k \in 0..(k - 1) /\ n = k * (n \div k) + (n % k)
  OBVIOUS

\* One more year: one more leap day when it is a leap year.
LeapDay(y) == IF Leap(y) THEN 1 ELSE 0

\* The count of multiples of 4, 100 and 400 goes up at each of them.
LEMMA Multiples ==
    ASSUME NEW y \in Nat
    PROVE  /\ (y + 4) \div 4 - (y + 3) \div 4 = IF y % 4 = 0 THEN 1 ELSE 0
           /\ (y + 100) \div 100 - (y + 99) \div 100 = IF y % 100 = 0 THEN 1 ELSE 0
           /\ (y + 400) \div 400 - (y + 399) \div 400 = IF y % 400 = 0 THEN 1 ELSE 0
           /\ (y % 400 = 0 => y % 100 = 0) /\ (y % 100 = 0 => y % 4 = 0)
<1>1. (y + 4) \div 4 - (y + 3) \div 4 = IF y % 4 = 0 THEN 1 ELSE 0
  OBVIOUS
<1>2. (y + 100) \div 100 - (y + 99) \div 100 = IF y % 100 = 0 THEN 1 ELSE 0
  OBVIOUS
<1>3. (y + 400) \div 400 - (y + 399) \div 400 = IF y % 400 = 0 THEN 1 ELSE 0
  OBVIOUS
<1>4. (y % 400 = 0 => y % 100 = 0) /\ (y % 100 = 0 => y % 4 = 0)
  OBVIOUS
<1> QED
  BY <1>1, <1>2, <1>3, <1>4

\* A year has 365 days and its leap day.
LEMMA YearLasts ==
    ASSUME NEW y \in Nat
    PROVE  YearStart(y + 1) = YearStart(y) + 365 + LeapDay(y)
  BY Multiples DEF YearStart, LeapDay, Leap

\* The day on which a year starts is between these.
LEMMA YearWithin ==
    ASSUME NEW y \in Nat
    PROVE  YearStart(y) \in Nat /\ 365 * y <= YearStart(y) /\ YearStart(y) <= 366 * y
  BY DEF YearStart

\* Years do not overlap,
LEMMA YearsInOrder ==
    ASSUME NEW x \in Nat, NEW y \in Nat, x < y
    PROVE  YearStart(x + 1) <= YearStart(y)
<1>1. CASE x + 1 = y
  <2>1. YearStart(y) \in Nat
    BY YearWithin
  <2> QED
    BY <1>1, <2>1
<1>2. CASE x + 1 < y
  BY <1>2 DEF YearStart
<1> QED
  BY <1>1, <1>2

\* The year of a day.
LEMMA YearExists ==
    ASSUME NEW n \in Nat
    PROVE  \E y \in (n \div 366)..(n \div 365) : YearStart(y) <= n /\ n < YearStart(y + 1)
<1> DEFINE begun == {y \in 0..n : YearStart(y) <= n}
<1>1. 0 \in begun
  BY DEF YearStart
<1>2. PICK y \in begun : \A z \in begun : z <= y
  <2>1. begun \subseteq 0..n /\ begun # {}
    BY <1>1
  <2> HIDE DEF begun
  <2> QED
    BY <2>1, LargestOf
<1>3. PICK this \in Nat, next \in Nat :
         /\ this = YearStart(y) /\ next = YearStart(y + 1)
         /\ 365 * y <= this /\ 365 * (y + 1) <= next /\ next <= 366 * (y + 1)
  <2>1. y \in Nat /\ y + 1 \in Nat
    OBVIOUS
  <2> QED
    BY <2>1, YearWithin
<1>4. n < next
  <2>1. CASE y + 1 \in 0..n
    <3>1. y + 1 \notin begun
      <4>1. ~(y + 1 <= y)
        BY <2>1
      <4> QED
        BY <1>2, <4>1
    <3> QED
      BY <1>3, <2>1, <3>1
  <2>2. CASE y + 1 \notin 0..n
    BY <1>3, <2>2
  <2> QED
    BY <2>1, <2>2
<1>5. y \in Nat /\ this <= n
  BY <1>3
<1>6. y \in (n \div 366)..(n \div 365)
  BY <1>3, <1>4, <1>5
<1> QED
  BY <1>3, <1>4, <1>5, <1>6

\* so that a day is in one year only.
LEMMA OneYear ==
    ASSUME NEW n \in Nat, NEW y \in Nat, NEW z \in Nat,
           YearStart(y) <= n, n < YearStart(y + 1), YearStart(z) <= n, n < YearStart(z + 1)
    PROVE  y = z
<1>1. /\ YearStart(y) \in Nat /\ YearStart(z) \in Nat
      /\ YearStart(y + 1) \in Nat /\ YearStart(z + 1) \in Nat
  BY YearWithin
<1>2. ~(y < z)
  BY <1>1, YearsInOrder
<1>3. ~(z < y)
  BY <1>1, YearsInOrder
<1> QED
  BY <1>2, <1>3

-----------------------------------------------------------------------------
(* Months *)

\* The days before each month, leap years included.
LEMMA MonthStarts ==
    ASSUME NEW y \in Nat
    PROVE  /\ MonthStart(y, 1) = 0 /\ MonthStart(y, 2) = 31
           /\ MonthStart(y, 3) = 59 + LeapDay(y) /\ MonthStart(y, 4) = 90 + LeapDay(y)
           /\ MonthStart(y, 5) = 120 + LeapDay(y) /\ MonthStart(y, 6) = 151 + LeapDay(y)
           /\ MonthStart(y, 7) = 181 + LeapDay(y) /\ MonthStart(y, 8) = 212 + LeapDay(y)
           /\ MonthStart(y, 9) = 243 + LeapDay(y) /\ MonthStart(y, 10) = 273 + LeapDay(y)
           /\ MonthStart(y, 11) = 304 + LeapDay(y) /\ MonthStart(y, 12) = 334 + LeapDay(y)
           /\ MonthStart(y, 13) = 365 + LeapDay(y)
  BY DEF MonthStart, LeapDay

\* There is one leap day in a year, or none.
LEMMA LeapDays == ASSUME NEW y PROVE LeapDay(y) \in {0, 1}
  BY DEF LeapDay

\* Day d of month m of year y is on the calendar.
OnCalendar(y, m, d) ==
    /\ y \in Nat /\ m \in 1..12 /\ d \in Nat \ {0}
    /\ MonthStart(y, m) + d <= MonthStart(y, m + 1)

\* Every day of a year is in a month,
LEMMA MonthExists ==
    ASSUME NEW y \in Nat, NEW r \in Nat, r < 365 + LeapDay(y)
    PROVE  \E m \in 1..12 : MonthStart(y, m) <= r /\ r < MonthStart(y, m + 1)
<1>1. PICK l \in {0, 1} : l = LeapDay(y)
  BY LeapDays
<1>2. \/ 0 <= r /\ r < 31
      \/ 31 <= r /\ r < 59 + l
      \/ 59 + l <= r /\ r < 90 + l
      \/ 90 + l <= r /\ r < 120 + l
      \/ 120 + l <= r /\ r < 151 + l
      \/ 151 + l <= r /\ r < 181 + l
      \/ 181 + l <= r /\ r < 212 + l
      \/ 212 + l <= r /\ r < 243 + l
      \/ 243 + l <= r /\ r < 273 + l
      \/ 273 + l <= r /\ r < 304 + l
      \/ 304 + l <= r /\ r < 334 + l
      \/ 334 + l <= r /\ r < 365 + l
  BY <1>1
<1> QED
  BY <1>1, <1>2, MonthStarts

\* months do not overlap,
LEMMA MonthsInOrder ==
    ASSUME NEW y \in Nat, NEW m \in 1..12, NEW k \in 1..12, m < k
    PROVE  /\ MonthStart(y, m) \in Nat /\ MonthStart(y, m + 1) \in Nat
           /\ MonthStart(y, k) \in Nat /\ MonthStart(y, k + 1) \in Nat
           /\ MonthStart(y, m + 1) <= MonthStart(y, k)
  BY MonthStarts, LeapDays

\* they fill their year,
LEMMA MonthWithin ==
    ASSUME NEW y \in Nat, NEW m \in 1..12
    PROVE  /\ MonthStart(y, m) \in Nat /\ MonthStart(y, m + 1) \in Nat
           /\ MonthStart(y, m) < MonthStart(y, m + 1)
           /\ MonthStart(y, m + 1) <= 365 + LeapDay(y)
  BY MonthStarts, LeapDays

\* and a day is in one of them only.
LEMMA OneMonth ==
    ASSUME NEW y \in Nat, NEW r \in Nat, NEW m \in 1..12, NEW k \in 1..12,
           MonthStart(y, m) <= r, r < MonthStart(y, m + 1),
           MonthStart(y, k) <= r, r < MonthStart(y, k + 1)
    PROVE  m = k
<1>1. PICK M, N, K, L \in Nat :
         /\ M = MonthStart(y, m) /\ N = MonthStart(y, m + 1)
         /\ K = MonthStart(y, k) /\ L = MonthStart(y, k + 1)
  BY MonthWithin
<1>2. M <= r /\ r < N /\ K <= r /\ r < L
  BY <1>1
<1>3. m < k => N <= K
  BY <1>1, MonthsInOrder
<1>4. k < m => L <= M
  BY <1>1, MonthsInOrder
<1> QED
  BY <1>2, <1>3, <1>4

\* One year after another,
LEMMA NextYearStarts ==
    ASSUME NEW y \in Nat
    PROVE  /\ YearStart(y) \in Nat /\ YearStart(y + 1) \in Nat
           /\ YearStart(y + 1) = YearStart(y) + 365 + LeapDay(y)
           /\ LeapDay(y) \in {0, 1}
<1>1. y + 1 \in Nat
  OBVIOUS
<1>2. YearStart(y) \in Nat /\ YearStart(y + 1) \in Nat
  BY <1>1, YearWithin
<1> QED
  BY <1>2, YearLasts, LeapDays

\* and the same with numbers for the terms.
LEMMA YearNumbers ==
    ASSUME NEW y \in Nat
    PROVE  \E S \in Nat, l \in {0, 1} :
              S = YearStart(y) /\ l = LeapDay(y) /\ YearStart(y + 1) = S + 365 + l
<1>1. /\ YearStart(y) \in Nat /\ LeapDay(y) \in {0, 1}
      /\ YearStart(y + 1) = YearStart(y) + 365 + LeapDay(y)
  BY NextYearStarts
<1>2. PICK S \in Nat, l \in {0, 1} : S = YearStart(y) /\ l = LeapDay(y)
  BY <1>1
<1>3. YearStart(y + 1) = S + 365 + l
  BY <1>1, <1>2
<1> QED
  BY <1>2, <1>3

\* The parts of DateOf.
YearOf(n) == CHOOSE y \in (n \div 366)..(n \div 365) :
                YearStart(y) <= n /\ n < YearStart(y + 1)

\* The month of the day that has r days of year y before it.
MonthOf(y, r) == CHOOSE m \in 1..12 : MonthStart(y, m) <= r /\ r < MonthStart(y, m + 1)

\* DateOf is made of these.
LEMMA DateParts ==
    ASSUME NEW n, NEW y, y = YearOf(n), NEW r, r = n - YearStart(y),
           NEW m, m = MonthOf(y, r)
    PROVE  DateOf(n) = [year |-> y, month |-> m, day |-> r - MonthStart(y, m) + 1]
  BY Zenon DEF DateOf, YearOf, MonthOf

\* DateOf inverts MakeDay on the calendar.
LEMMA DateOfDay ==
    ASSUME NEW y \in Nat, NEW m \in 1..12, NEW d \in Nat \ {0}, OnCalendar(y, m, d)
    PROVE  /\ MakeDay(y, m, d) \in Nat
           /\ YearStart(y) <= MakeDay(y, m, d) /\ MakeDay(y, m, d) < YearStart(y + 1)
           /\ DateOf(MakeDay(y, m, d)) = [year |-> y, month |-> m, day |-> d]
<1>2. PICK S \in Nat, l \in {0, 1} :
         S = YearStart(y) /\ l = LeapDay(y) /\ YearStart(y + 1) = S + 365 + l
  BY YearNumbers
<1>3. PICK M \in Nat, N \in Nat :
         M = MonthStart(y, m) /\ N = MonthStart(y, m + 1) /\ M + d <= N /\ N <= 365 + l
  <2>1. MonthStart(y, m) \in Nat /\ MonthStart(y, m + 1) \in Nat
    BY MonthWithin
  <2>2. MonthStart(y, m + 1) <= 365 + l
    BY <1>2, MonthWithin
  <2>3. MonthStart(y, m) + d <= MonthStart(y, m + 1)
    BY DEF OnCalendar
  <2> QED
    BY <2>1, <2>2, <2>3
<1>4. PICK r \in Nat, n \in Nat :
         /\ r = M + d - 1 /\ n = S + r /\ n = MakeDay(y, m, d)
         /\ r < N /\ M <= r /\ S <= n /\ n < S + 365 + l /\ n - S = r /\ r - M + 1 = d
  <2>1. M + d - 1 \in Nat /\ S + (M + d - 1) \in Nat
    OBVIOUS
  <2>2. MakeDay(y, m, d) = S + (M + d - 1)
    BY <1>2, <1>3 DEF MakeDay
  <2> QED
    BY <1>3, <2>1, <2>2
<1>5. \A z \in (n \div 366)..(n \div 365) :
         (YearStart(z) <= n /\ n < YearStart(z + 1)) => z = y
  BY <1>2, <1>4, OneYear
<1>6. PICK z \in (n \div 366)..(n \div 365) : YearStart(z) <= n /\ n < YearStart(z + 1)
  BY YearExists
<1>7. YearOf(n) = y
  BY <1>5, <1>6 DEF YearOf
<1>8. MonthOf(y, r) = m
  <2>1. \A x \in 1..12 : (MonthStart(y, x) <= r /\ r < MonthStart(y, x + 1)) => x = m
    BY <1>3, <1>4, OneMonth
  <2> QED
    BY <1>3, <1>4, <2>1 DEF MonthOf
<1>9. DateOf(n) = [year |-> y, month |-> m, day |-> d]
  BY <1>2, <1>3, <1>4, <1>7, <1>8, DateParts
<1> QED
  BY <1>2, <1>4, <1>9

\* Every day is on the calendar.
LEMMA DayExists ==
    ASSUME NEW n \in Nat
    PROVE  \E y \in Nat, m \in 1..12, d \in Nat \ {0} :
              OnCalendar(y, m, d) /\ n = MakeDay(y, m, d)
<1>1. PICK y \in Nat : YearStart(y) <= n /\ n < YearStart(y + 1)
  BY YearExists
<1>2. PICK S \in Nat, l \in {0, 1} :
         S = YearStart(y) /\ l = LeapDay(y) /\ YearStart(y + 1) = S + 365 + l
  BY NextYearStarts
<1>3. PICK r \in Nat : r = n - S /\ S + r = n /\ r < 365 + l
  BY <1>1, <1>2
<1>4. PICK m \in 1..12 : MonthStart(y, m) <= r /\ r < MonthStart(y, m + 1)
  BY <1>2, <1>3, MonthExists
<1>5. PICK M \in Nat, N \in Nat : M = MonthStart(y, m) /\ N = MonthStart(y, m + 1)
  BY MonthWithin
<1>6. PICK d \in Nat \ {0} : d = r - M + 1 /\ M + d <= N /\ n = S + M + d - 1
  <2>1. r - M + 1 \in Nat \ {0}
    BY <1>4, <1>5
  <2> QED
    BY <1>3, <1>4, <1>5, <2>1
<1>7. OnCalendar(y, m, d)
  BY <1>5, <1>6 DEF OnCalendar
<1>8. n = MakeDay(y, m, d)
  BY <1>2, <1>5, <1>6 DEF MakeDay
<1> QED
  BY <1>7, <1>8

\* Leap years before y.
LeapsBefore(y) == (y + 3) \div 4 - (y + 99) \div 100 + (y + 399) \div 400

\* Years start after 365 days for each year before, and the leap days of those.
LEMMA LeapsAdd ==
    ASSUME NEW y \in Nat
    PROVE  /\ LeapsBefore(y) \in Nat
           /\ YearStart(y) = 365 * y + LeapsBefore(y)
           /\ LeapsBefore(y + 1) = LeapsBefore(y) + LeapDay(y)
<1>1. LeapsBefore(y) \in Int /\ YearStart(y) = 365 * y + LeapsBefore(y)
  BY DEF LeapsBefore, YearStart
<1>2. LeapsBefore(y) \in Nat
  <2>1. 365 * y <= YearStart(y) /\ YearStart(y) \in Nat
    BY YearWithin
  <2> QED
    BY <1>1, <2>1
<1>3. LeapsBefore(y + 1) = LeapsBefore(y) + LeapDay(y)
  BY Multiples DEF LeapsBefore, LeapDay, Leap
<1> QED
  BY <1>1, <1>2, <1>3

\* The number of leap years from one year up to another.
LEMMA LeapYearsCounted ==
    ASSUME NEW a \in Nat, NEW k \in Nat
    PROVE  /\ IsFiniteSet({y \in a..(a + k - 1) : Leap(y)})
           /\ LeapsBefore(a + k) = LeapsBefore(a) + Cardinality({y \in a..(a + k - 1) : Leap(y)})
<1> DEFINE Years(j) == {y \in a..(a + j - 1) : Leap(y)}
           Counted(j) == /\ IsFiniteSet(Years(j)) /\ Cardinality(Years(j)) \in Nat
                         /\ LeapsBefore(a + j) = LeapsBefore(a) + Cardinality(Years(j))
           wrong == {j \in Nat : ~Counted(j)}
<1>1. Counted(0)
  <2>1. Years(0) = {}
    OBVIOUS
  <2>2. a + 0 = a /\ LeapsBefore(a) \in Nat
    BY LeapsAdd
  <2> QED
    BY <2>1, <2>2, FS_EmptySet
<1>2. ASSUME NEW j \in Nat, Counted(j) PROVE Counted(j + 1)
  <2>1. Years(j + 1) = IF Leap(a + j) THEN Years(j) \cup {a + j} ELSE Years(j)
    OBVIOUS
  <2>2. a + j \notin Years(j)
    OBVIOUS
  <2>3. LeapsBefore(a + (j + 1)) = LeapsBefore(a + j) + LeapDay(a + j)
    <3>1. a + j \in Nat /\ a + (j + 1) = (a + j) + 1
      OBVIOUS
    <3> QED
      BY <3>1, LeapsAdd
  <2>4. PICK c \in Nat, A \in Nat : c = Cardinality(Years(j)) /\ A = LeapsBefore(a)
    BY <1>2, LeapsAdd
  <2>5. LeapsBefore(a + j) = A + c
    BY <1>2, <2>4
  <2>6. CASE Leap(a + j)
    <3>1. /\ IsFiniteSet(Years(j) \cup {a + j})
          /\ Cardinality(Years(j) \cup {a + j}) = c + 1
      <4> HIDE DEF Years
      <4> QED
        BY <1>2, <2>2, <2>4, FS_AddElement
    <3>2. Years(j + 1) = Years(j) \cup {a + j}
      BY <2>1, <2>6
    <3>3. IsFiniteSet(Years(j + 1)) /\ Cardinality(Years(j + 1)) = c + 1
      BY <3>1, <3>2, Zenon
    <3>4. LeapsBefore(a + (j + 1)) = A + (c + 1)
      BY <2>3, <2>5, <2>6 DEF LeapDay
    <3> HIDE DEF Years
    <3> QED
      BY <2>4, <3>3, <3>4
  <2>7. CASE ~Leap(a + j)
    <3>1. Years(j + 1) = Years(j)
      BY <2>1, <2>7
    <3>2. LeapsBefore(a + (j + 1)) = A + c
      BY <2>3, <2>5, <2>7 DEF LeapDay
    <3>3. IsFiniteSet(Years(j + 1)) /\ Cardinality(Years(j + 1)) = c
      BY <1>2, <2>4, <3>1, Zenon
    <3> HIDE DEF Years
    <3> QED
      BY <2>4, <3>2, <3>3
  <2> QED
    BY <2>6, <2>7
<1> HIDE DEF Counted
<1>3. wrong = {}
  <2> SUFFICES ASSUME wrong # {} PROVE FALSE
    OBVIOUS
  <2>1. PICK j \in wrong : \A i \in wrong : j <= i
    <3>1. wrong \in SUBSET Nat
      OBVIOUS
    <3> HIDE DEF wrong
    <3> QED
      BY <3>1, SmallestOf
  <2>2. j # 0
    BY <1>1
  <2>3. j - 1 \in Nat /\ (j - 1) + 1 = j /\ ~(j <= j - 1)
    BY <2>2
  <2>4. Counted(j - 1)
    BY <2>1, <2>3
  <2>5. Counted(j)
    BY <1>2, <2>3, <2>4
  <2> QED
    BY <2>5
<1>4. Counted(k)
  BY <1>3
<1> QED
  BY <1>4 DEF Counted

-----------------------------------------------------------------------------
(* The same day of another year *)

\* A date of one year is on the calendar of another, unless it is a leap day:
\* then it is the first of March.
LEMMA OtherYear ==
    ASSUME NEW y \in Nat, NEW x \in Nat, NEW m \in 1..12, NEW d \in Nat \ {0},
           OnCalendar(y, m, d)
    PROVE  \/ OnCalendar(x, m, d)
           \/ /\ m = 2 /\ d = 29 /\ LeapDay(y) = 1 /\ LeapDay(x) = 0
              /\ OnCalendar(x, 3, 1) /\ MakeDay(x, m, d) = MakeDay(x, 3, 1)
<1>1. PICK l \in {0, 1}, k \in {0, 1} : l = LeapDay(y) /\ k = LeapDay(x)
  BY LeapDays
<1>2. MonthStart(y, m) + d <= MonthStart(y, m + 1)
  BY DEF OnCalendar
<1>3. \/ MonthStart(x, m) + d <= MonthStart(x, m + 1)
      \/ m = 2 /\ d = 29 /\ l = 1 /\ k = 0
  BY <1>1, <1>2, MonthStarts
<1>4. ASSUME m = 2, d = 29, l = 1, k = 0
      PROVE  OnCalendar(x, 3, 1) /\ MakeDay(x, m, d) = MakeDay(x, 3, 1)
  <2>1. MonthStart(x, 2) = 31 /\ MonthStart(x, 3) = 59 /\ MonthStart(x, 3 + 1) = 90
    <3>1. LeapDay(x) = 0 /\ 3 + 1 = 4
      BY <1>1, <1>4
    <3>2. MonthStart(x, 2) = 31 /\ MonthStart(x, 3) = 59 /\ MonthStart(x, 4) = 90
      BY <3>1, MonthStarts
    <3> QED
      BY <3>1, <3>2
  <2>2. YearStart(x) \in Nat
    BY YearWithin
  <2> QED
    BY <1>4, <2>1, <2>2 DEF OnCalendar, MakeDay
<1> QED
  BY <1>1, <1>3, <1>4 DEF OnCalendar

\* A date is a day.
LEMMA DayIsNumber ==
    ASSUME NEW y \in Nat, NEW m \in 1..12, NEW d \in Nat \ {0}
    PROVE  MakeDay(y, m, d) \in Nat
<1>1. PICK S, M \in Nat : S = YearStart(y) /\ M = MonthStart(y, m)
  BY YearWithin, MonthWithin
<1>2. S + M + d - 1 \in Nat
  OBVIOUS
<1> QED
  BY <1>1, <1>2 DEF MakeDay

\* Days from a date to the same one some years on.  After February the leap
\* day of the first year is past, and that of the last is not.
Spring(y, m) == IF m > 2 THEN y + 1 ELSE y

\* From n to e it is k years, with the leap days of the years from z.
Lasts(k, z, n, e) == e + LeapsBefore(z) = n + 365 * k + LeapsBefore(z + k)

\* A date and the same date k years on are that far apart.
LEMMA DaysToAnniversary ==
    ASSUME NEW y \in Nat, NEW k \in Nat, NEW m \in 1..12, NEW d \in Nat \ {0},
           NEW z \in Nat, z = Spring(y, m), NEW n \in Nat, n = MakeDay(y, m, d),
           NEW e \in Nat, e = MakeDay(y + k, m, d)
    PROVE  Lasts(k, z, n, e)
<1>1. y + k \in Nat
  OBVIOUS
<1>2. PICK S, T, M, N \in Nat : /\ S = YearStart(y) /\ T = YearStart(y + k)
                                /\ M = MonthStart(y, m) /\ N = MonthStart(y + k, m)
  BY <1>1, YearWithin, MonthWithin
<1>3. PICK l, h \in {0, 1} : l = LeapDay(y) /\ h = LeapDay(y + k)
  BY LeapDays
<1>4. PICK G, H \in Nat :
         /\ G = LeapsBefore(y) /\ H = LeapsBefore(y + k)
         /\ S = 365 * y + G /\ T = 365 * (y + k) + H
         /\ LeapsBefore(y + 1) = G + l /\ LeapsBefore((y + k) + 1) = H + h
  BY <1>1, <1>2, <1>3, LeapsAdd
<1>5. N = IF m > 2 THEN M - l + h ELSE M
  BY <1>1, <1>2, <1>3, MonthStarts
<1>6. n = S + M + d - 1 /\ e = T + N + d - 1
  BY <1>2 DEF MakeDay
<1>7. PICK A, B \in Nat :
         /\ A = LeapsBefore(z) /\ B = LeapsBefore(z + k)
         /\ A = (IF m > 2 THEN G + l ELSE G) /\ B = (IF m > 2 THEN H + h ELSE H)
  <2>1. y + 1 \in Nat /\ (y + 1) + k = (y + k) + 1 /\ G + l \in Nat /\ H + h \in Nat
    OBVIOUS
  <2> QED
    BY <1>4, <2>1 DEF Spring
<1>8. e + A = n + 365 * k + B
  <2>1. S = 365 * y + G /\ T = 365 * y + 365 * k + H
    BY <1>4
  <2> QED
    BY <1>5, <1>6, <1>7, <2>1
<1> QED
  BY <1>7, <1>8 DEF Lasts

-----------------------------------------------------------------------------
(* Instants *)

\* Days are as many ticks as one has, times their number.
LEMMA TimesDay ==
    ASSUME NEW a \in Nat, NEW b \in Nat
    PROVE  /\ a * Day \in Nat /\ (a + b) * Day = a * Day + b * Day
           /\ (a + 1) * Day = a * Day + Day
           /\ a <= b => a * Day <= b * Day
<1>1. Day \in Nat
  BY DayAssumption
<1>2. a * Day \in Nat /\ b * Day \in Nat
  BY <1>1
<1>3. (a + b) * Day = a * Day + b * Day /\ (a + 1) * Day = a * Day + Day
  BY <1>1
<1>4. ASSUME a <= b PROVE a * Day <= b * Day
  <2>1. PICK c \in Nat : c = b - a /\ b = a + c
    BY <1>4
  <2>2. b * Day = a * Day + c * Day /\ c * Day \in Nat
    BY <1>1, <2>1
  <2> QED
    BY <1>2, <2>2
<1> QED
  BY <1>2, <1>3, <1>4

\* The day and the time of day of an instant.
LEMMA DayAndTime ==
    ASSUME NEW n \in Nat, NEW r \in Nat, r < Day, NEW t, t = n * Day + r
    PROVE  t \in Nat /\ t \div Day = n /\ t % Day = r
<1>1. Day \in Nat \ {0} /\ n * Day \in Nat
  BY DayAssumption, TimesDay
<1>2. t \in Nat
  BY <1>1
<1>3. PICK q \in Nat, s \in Nat :
         q = t \div Day /\ s = t % Day /\ s < Day /\ t = Day * q + s
  BY <1>1, <1>2, Quotients
<1>4. PICK N, Q \in Nat : N = n * Day /\ Q = q * Day /\ N + r = Q + s
  <2>1. q * Day \in Nat /\ q * Day = Day * q
    BY <1>1, TimesDay
  <2> QED
    BY <1>1, <1>3, <2>1
<1>5. ~(n < q)
  <2> SUFFICES ASSUME n < q PROVE FALSE
    OBVIOUS
  <2>2. n + 1 \in Nat /\ n + 1 <= q
    OBVIOUS
  <2>1. (n + 1) * Day <= q * Day /\ (n + 1) * Day = n * Day + Day
    BY <2>2, TimesDay
  <2> QED
    BY <1>1, <1>4, <2>1
<1>6. ~(q < n)
  <2> SUFFICES ASSUME q < n PROVE FALSE
    OBVIOUS
  <2>2. q + 1 \in Nat /\ q + 1 <= n
    OBVIOUS
  <2>1. (q + 1) * Day <= n * Day /\ (q + 1) * Day = q * Day + Day
    BY <2>2, TimesDay
  <2> QED
    BY <1>1, <1>3, <1>4, <2>1
<1>7. q = n
  BY <1>5, <1>6
<1> QED
  BY <1>2, <1>3, <1>4, <1>7

\* An instant is a day and ticks of that day.
LEMMA InstantIs ==
    ASSUME NEW t \in Nat
    PROVE  \E n \in Nat, r \in Nat :
              n = t \div Day /\ r = t % Day /\ r < Day /\ t = n * Day + r
<1>1. Day \in Nat \ {0}
  BY DayAssumption
<1>2. PICK n \in Nat, r \in Nat :
         n = t \div Day /\ r = t % Day /\ r < Day /\ t = Day * n + r
  <2>1. /\ t \div Day \in Nat /\ t % Day \in 0..(Day - 1)
        /\ t = Day * (t \div Day) + (t % Day)
    BY <1>1, Quotients
  <2>2. t % Day \in Nat /\ t % Day < Day
    BY <1>1, <2>1
  <2> QED
    BY <2>1, <2>2, Zenon
<1>3. Day * n = n * Day
  BY <1>1
<1> QED
  BY <1>2, <1>3

\* When a certificate ends.
Built(t, k, y, m, d, n, e, r) ==
    /\ OnCalendar(y, m, d) /\ n = MakeDay(y, m, d) /\ e = MakeDay(y + k, m, d)
    /\ Date(t) = [year |-> y, month |-> m, day |-> d]
    /\ n = t \div Day /\ r = t % Day /\ r < Day /\ t = n * Day + r
    /\ NotAfter(t, k) = e * Day + r
    /\ NotAfter(t, k) \div Day = e /\ NotAfter(t, k) % Day = r

\* Every instant is on a date, and a certificate built then ends on that of e.
LEMMA EndOf ==
    ASSUME NEW t \in Nat, NEW k \in Nat
    PROVE  \E y \in Nat, m \in 1..12, d \in Nat \ {0}, n, e, r \in Nat :
              Built(t, k, y, m, d, n, e, r)
<1>1. PICK n \in Nat, r \in Nat :
         n = t \div Day /\ r = t % Day /\ r < Day /\ t = n * Day + r
  BY InstantIs
<1>2. PICK y \in Nat, m \in 1..12, d \in Nat \ {0} :
         OnCalendar(y, m, d) /\ n = MakeDay(y, m, d)
  BY DayExists
<1>3. Date(t) = [year |-> y, month |-> m, day |-> d]
  BY <1>1, <1>2, DateOfDay DEF Date
<1>4. PICK e \in Nat : e = MakeDay(y + k, m, d)
  <2>1. y + k \in Nat
    OBVIOUS
  <2> QED
    BY <2>1, DayIsNumber
<1>5. NotAfter(t, k) = e * Day + r
  <2>1. Date(t).year = y /\ Date(t).month = m /\ Date(t).day = d
    BY <1>3
  <2> QED
    BY <1>1, <1>4, <2>1, Zenon DEF NotAfter, SetFullYear
<1>6. NotAfter(t, k) \div Day = e /\ NotAfter(t, k) % Day = r
  BY <1>1, <1>5, DayAndTime
<1> QED
  BY <1>1, <1>2, <1>3, <1>4, <1>5, <1>6 DEF Built

\* The leap days before a date and those after it.
LEMMA LeapDayPassed ==
    ASSUME NEW w \in Nat, NEW x \in Nat, Leap(x), NEW m \in 1..12, NEW d \in Nat \ {0},
           OnCalendar(w, m, d) \/ (m = 2 /\ d = 29)
    PROVE  MakeDay(w, m, d) <= MakeDay(x, 2, 29) <=> Spring(w, m) <= x
<1>1. PICK l \in {0, 1} : l = LeapDay(w)
  BY LeapDays
<1>10. PICK S, T, M \in Nat : S = YearStart(w) /\ T = YearStart(x) /\ M = MonthStart(w, m)
  BY YearWithin, MonthWithin
<1>11. PICK W, X \in Nat : W = YearStart(w + 1) /\ X = YearStart(x + 1)
  <2>1. w + 1 \in Nat /\ x + 1 \in Nat
    OBVIOUS
  <2> QED
    BY <2>1, YearWithin
<1>12. W = S + 365 + l /\ X = T + 365 + 1
  <2>1. LeapDay(x) = 1
    BY DEF LeapDay
  <2> QED
    BY <1>1, <1>10, <1>11, <2>1, YearLasts
<1>2. /\ S = YearStart(w) /\ T = YearStart(x) /\ M = MonthStart(w, m)
      /\ W = YearStart(w + 1) /\ X = YearStart(x + 1)
      /\ W = S + 365 + l /\ X = T + 366
  BY <1>10, <1>11, <1>12
<1>3. PICK e \in Nat, f \in Nat :
         e = MakeDay(w, m, d) /\ e = S + M + d - 1 /\ f = MakeDay(x, 2, 29) /\ f = T + 59
  <2>1. S + M + d - 1 \in Nat /\ T + 31 + 29 - 1 = T + 59
    OBVIOUS
  <2>2. MonthStart(x, 2) = 31
    BY MonthStarts
  <2> QED
    BY <1>2, <2>1, <2>2 DEF MakeDay
<1>4. IF m > 2 THEN 59 + l < M + d /\ M + d <= 365 + l ELSE M + d <= 60
  <2>1. CASE OnCalendar(w, m, d)
    <3>1. M + d <= MonthStart(w, m + 1)
      BY <1>2, <2>1 DEF OnCalendar
    <3> QED
      BY <1>1, <1>2, <3>1, MonthStarts
  <2>2. CASE m = 2 /\ d = 29
    BY <1>2, <2>2, MonthStarts
  <2> QED
    BY <2>1, <2>2
<1>5. w < x => W <= T
  BY <1>2, YearsInOrder
<1>6. x < w => X <= S
  BY <1>2, YearsInOrder
<1>7. w = x => S = T /\ l = 1
  BY <1>1, <1>2 DEF LeapDay
<1>8. Spring(w, m) = IF m > 2 THEN w + 1 ELSE w
  BY DEF Spring
<1>9. e <= f <=> IF m > 2 THEN w < x ELSE w <= x
  <2>1. CASE w < x
    BY <1>2, <1>3, <1>4, <1>5, <2>1
  <2>2. CASE w = x
    BY <1>2, <1>3, <1>4, <1>7, <2>2
  <2>3. CASE x < w
    BY <1>2, <1>3, <1>4, <1>6, <2>3
  <2> QED
    BY <2>1, <2>2, <2>3
<1> QED
  BY <1>3, <1>8, <1>9

\* The years from a to b with a leap day among the days from n to before e.
LeapYears(a, b, n, e) ==
    {x \in a..b : Leap(x) /\ MakeDay(x, 2, 29) \in n..(e - 1)}

\* The leap days from a date to the same one some years on.
LEMMA LeapDaysOnTheWay ==
    ASSUME NEW y \in Nat, NEW m \in 1..12, NEW d \in Nat \ {0}, NEW k \in Nat,
           OnCalendar(y, m, d),
           NEW n \in Nat, n = MakeDay(y, m, d), NEW e \in Nat, e = MakeDay(y + k, m, d),
           NEW leaps, leaps = LeapYears(y, y + k, n, e)
    PROVE  \E c \in Nat : c = Cardinality(leaps) /\ e = n + 365 * k + c
<1>1. PICK z \in Nat : z = Spring(y, m) /\ y <= z /\ z <= y + 1 /\ Spring(y + k, m) = z + k
  BY DEF Spring
<1>2. ASSUME NEW x \in Nat, Leap(x)
      PROVE  MakeDay(x, 2, 29) \in n..(e - 1) <=> z <= x /\ x <= z + k - 1
  <2>1. PICK f \in Nat : f = MakeDay(x, 2, 29)
    <3>1. 2 \in 1..12 /\ 29 \in Nat \ {0}
      OBVIOUS
    <3> QED
      BY <3>1, DayIsNumber
  <2>2. n <= f <=> z <= x
    BY <1>1, <1>2, <2>1, LeapDayPassed
  <2>3. e <= f <=> z + k <= x
    <3>1. y + k \in Nat
      OBVIOUS
    <3>2. OnCalendar(y + k, m, d) \/ (m = 2 /\ d = 29)
      BY <3>1, OtherYear
    <3> QED
      BY <1>1, <1>2, <2>1, <3>1, <3>2, LeapDayPassed
  <2> QED
    BY <2>1, <2>2, <2>3
<1>3. leaps = {x \in z..(z + k - 1) : Leap(x)}
  <2>1. ASSUME NEW x \in leaps PROVE x \in z..(z + k - 1) /\ Leap(x)
    BY <1>1, <1>2 DEF LeapYears
  <2>2. ASSUME NEW x \in z..(z + k - 1), Leap(x) PROVE x \in leaps
    BY <1>1, <1>2, <2>2 DEF LeapYears
  <2>3. \A x \in leaps : x \in {i \in z..(z + k - 1) : Leap(i)}
    BY <2>1
  <2>4. \A x \in {i \in z..(z + k - 1) : Leap(i)} : x \in leaps
    BY <2>2
  <2> QED
    BY <2>3, <2>4, Zenon
<1>4. PICK A, B \in Nat : A = LeapsBefore(z) /\ B = LeapsBefore(z + k)
  <2>1. z + k \in Nat
    OBVIOUS
  <2> QED
    BY <2>1, LeapsAdd
<1>5. PICK c \in Nat : c = Cardinality(leaps) /\ B = A + c
  <2>1. /\ IsFiniteSet({x \in z..(z + k - 1) : Leap(x)})
        /\ B = A + Cardinality({x \in z..(z + k - 1) : Leap(x)})
    BY <1>4, LeapYearsCounted
  <2>2. Cardinality({x \in z..(z + k - 1) : Leap(x)}) \in Nat
    BY <2>1, FS_CardinalityType
  <2> QED
    BY <1>3, <2>1, <2>2, Zenon
<1>6. e + A = n + 365 * k + B
  <2>1. z = Spring(y, m)
    BY <1>1
  <2>2. Lasts(k, z, n, e)
    BY <2>1, DaysToAnniversary
  <2> QED
    BY <1>4, <2>2, Zenon DEF Lasts
<1>7. e = n + 365 * k + c
  BY <1>5, <1>6
<1> QED
  BY <1>5, <1>7

\* The record of a date.
Written(y, m, d) == [year |-> y, month |-> m, day |-> d]

\* The date at which a certificate ends.
EndsAt(e, w, same, other) ==
    DateOf(e).year = w /\ DateOf(e) = IF IsDate(same) THEN same ELSE other

\* The date k years on is on the calendar, or it is 29 February and 1 March
\* stands for it.
LEMMA DateOfEnd ==
    ASSUME NEW y \in Nat, NEW m \in 1..12, NEW d \in Nat \ {0}, NEW w \in Nat,
           OnCalendar(y, m, d), NEW e, e = MakeDay(w, m, d),
           NEW same, same = Written(w, m, d), NEW other, other = Written(w, 3, 1)
    PROVE  EndsAt(e, w, same, other)
<1>1. CASE OnCalendar(w, m, d)
  <2>1. DateOf(e) = same
    BY <1>1, DateOfDay DEF Written
  <2>2. same.year = w /\ same.month = m /\ same.day = d
    BY DEF Written
  <2>3. IsDate(same)
    BY <2>1, <2>2 DEF IsDate
  <2> QED
    BY <2>1, <2>2, <2>3 DEF EndsAt
<1>2. CASE ~OnCalendar(w, m, d)
  <2>1. /\ m = 2 /\ d = 29 /\ OnCalendar(w, 3, 1) /\ e = MakeDay(w, 3, 1)
    BY <1>2, OtherYear
  <2>2. 3 \in 1..12 /\ 1 \in Nat \ {0}
    OBVIOUS
  <2>3. DateOf(e) = other
    BY <2>1, <2>2, DateOfDay DEF Written
  <2>4. same.year = w /\ same.month = m /\ same.day = d /\ other.year = w /\ other # same
    BY <2>1 DEF Written
  <2>5. ~IsDate(same)
    BY <2>3, <2>4 DEF IsDate
  <2> QED
    BY <2>3, <2>4, <2>5 DEF EndsAt
<1> QED
  BY <1>1, <1>2

\* The three clauses of EndsOnItsAnniversary.
EndsRightly(t, k, end, same, other, leaps) ==
    /\ end % Day = t % Day
    /\ Date(end) = IF IsDate(same) THEN same ELSE other
    /\ end = t + (365 * k + Cardinality(leaps)) * Day

\* The certificate of an instant and its end fulfil them.
LEMMA EndsOnDate ==
    ASSUME NEW t \in Nat, NEW k \in Nat, NEW issue, issue = Date(t),
           NEW end, end = NotAfter(t, k),
           NEW same, same = [issue EXCEPT !.year = @ + k],
           NEW other, other = [same EXCEPT !.month = 3, !.day = 1],
           NEW leaps, leaps = LeapYears(issue.year, Date(end).year, t \div Day, end \div Day)
    PROVE  EndsRightly(t, k, end, same, other, leaps)
<1>1. PICK y \in Nat, m \in 1..12, d \in Nat \ {0}, n, e, r \in Nat :
         Built(t, k, y, m, d, n, e, r)
  BY EndOf
<1>2. OnCalendar(y, m, d) /\ n = MakeDay(y, m, d) /\ e = MakeDay(y + k, m, d)
  BY <1>1 DEF Built
<1>3. issue = [year |-> y, month |-> m, day |-> d] /\ issue.year = y
  BY <1>1 DEF Built
<1>4. /\ t \div Day = n /\ t % Day = r /\ t = n * Day + r
      /\ end \div Day = e /\ end % Day = r /\ end = e * Day + r
  BY <1>1, Zenon DEF Built
<1>5. PICK w \in Nat : w = y + k
  OBVIOUS
<1>6. same = [year |-> w, month |-> m, day |-> d]
  BY <1>3, <1>5
<1>7. other = [year |-> w, month |-> 3, day |-> 1]
  <2>1. other = [[year |-> w, month |-> m, day |-> d] EXCEPT !.month = 3, !.day = 1]
    BY <1>6, Zenon
  <2> QED
    BY <2>1
<1>8. Date(end).year = w /\ Date(end) = IF IsDate(same) THEN same ELSE other
  <2>1. Date(end) = DateOf(e) /\ e = MakeDay(w, m, d)
    BY <1>2, <1>4, <1>5 DEF Date
  <2> QED
    <3>2. OnCalendar(y, m, d)
      BY <1>2
    <3>3. e = MakeDay(w, m, d)
      BY <2>1
    <3>4. same = Written(w, m, d) /\ other = Written(w, 3, 1)
      BY <1>6, <1>7 DEF Written
    <3>1. EndsAt(e, w, same, other)
      BY <3>2, <3>3, <3>4, DateOfEnd
    <3> QED
      BY <2>1, <3>1, Zenon DEF EndsAt
<1>9. leaps = LeapYears(y, y + k, n, e)
  BY <1>3, <1>4, <1>5, <1>8, Zenon
<1>10. PICK c \in Nat : c = Cardinality(leaps) /\ e = n + 365 * k + c
  BY <1>2, <1>9, LeapDaysOnTheWay
<1>11. end = t + (365 * k + c) * Day
  <2>1. PICK h \in Nat : h = 365 * k + c /\ e = n + h
    BY <1>10
  <2>2. PICK N, H \in Nat : N = n * Day /\ H = h * Day
    BY TimesDay
  <2>3. e * Day = N + H
    BY <2>1, <2>2, TimesDay
  <2>4. end = t + H
    BY <1>4, <2>2, <2>3
  <2> QED
    BY <2>1, <2>2, <2>4
<1> QED
  BY <1>4, <1>8, <1>10, <1>11, Zenon DEF EndsRightly

\* Certificates end on the date at which they were built, so many years on, and
\* last 365 days a year and one for every leap day on the way.
THEOREM CertificatesEndOnTheirDate == ConversionsSpec => []EndsOnItsAnniversary
<1>1. Inputs => EndsOnItsAnniversary
  <2> SUFFICES ASSUME Inputs, input.of = "certificate" PROVE EndsOnItsAnniversary
    BY DEF EndsOnItsAnniversary
  <2> DEFINE t     == input.clock
             k     == input.years
             issue == Date(t)
             end   == NotAfter(t, k)
             same  == [issue EXCEPT !.year = @ + k]
             other == [same EXCEPT !.month = 3, !.day = 1]
             leaps == LeapYears(issue.year, Date(end).year, t \div Day, end \div Day)
  <2>1. t \in Nat /\ k \in Nat
    BY DEF Inputs
  <2>2. EndsRightly(t, k, end, same, other, leaps)
    <3>1. /\ issue = Date(t) /\ end = NotAfter(t, k)
          /\ same = [issue EXCEPT !.year = @ + k]
          /\ other = [same EXCEPT !.month = 3, !.day = 1]
          /\ leaps = LeapYears(issue.year, Date(end).year, t \div Day, end \div Day)
      OBVIOUS
    <3> HIDE DEF t, k, issue, end, same, other, leaps
    <3> QED
      BY <2>1, <3>1, EndsOnDate
  <2> QED
    BY <2>2, Zenon DEF EndsOnItsAnniversary, LeapYears, EndsRightly
<1> QED
  BY <1>1, InputsHold, PTL

-----------------------------------------------------------------------------
(* Renewal *)

\* The day on which a certificate ends is in the year for which it is made.
LEMMA EndInYear ==
    ASSUME NEW y \in Nat, NEW w \in Nat, NEW m \in 1..12, NEW d \in Nat \ {0},
           OnCalendar(y, m, d), NEW e, e = MakeDay(w, m, d)
    PROVE  YearStart(w) <= e /\ e < YearStart(w + 1)
<1>1. CASE OnCalendar(w, m, d)
  BY <1>1, DateOfDay
<1>2. CASE ~OnCalendar(w, m, d)
  <2>1. 3 \in 1..12 /\ 1 \in Nat \ {0}
    OBVIOUS
  <2>2. OnCalendar(w, 3, 1) /\ e = MakeDay(w, 3, 1)
    BY <1>2, OtherYear
  <2> QED
    BY <2>1, <2>2, DateOfDay
<1> QED
  BY <1>1, <1>2

\* Dates follow one another as days do.
Earlier(y, m, d, v, p, q) == y < v \/ (y = v /\ (m < p \/ (m = p /\ d < q)))

\* A later day has a later date,
LEMMA DatesInOrder ==
    ASSUME NEW y \in Nat, NEW m \in 1..12, NEW d \in Nat \ {0}, OnCalendar(y, m, d),
           NEW v \in Nat, NEW p \in 1..12, NEW q \in Nat \ {0}, OnCalendar(v, p, q),
           MakeDay(y, m, d) < MakeDay(v, p, q)
    PROVE  Earlier(y, m, d, v, p, q)
<1>1. PICK a, b \in Nat : a = MakeDay(y, m, d) /\ b = MakeDay(v, p, q)
  BY DayIsNumber
<1>2. a < b
  BY <1>1
<1>3. ~(v < y)
  <2> SUFFICES ASSUME v < y PROVE FALSE
    OBVIOUS
  <2>1. PICK S, T \in Nat : S = YearStart(v + 1) /\ T = YearStart(y) /\ S <= T
    <3>1. v + 1 \in Nat
      OBVIOUS
    <3>2. YearStart(v + 1) \in Nat
      BY <3>1, YearWithin
    <3>3. YearStart(y) \in Nat
      BY YearWithin
    <3>4. YearStart(v + 1) <= YearStart(y)
      BY YearsInOrder
    <3> QED
      BY <3>2, <3>3, <3>4
  <2>2. b < S /\ T <= a
    BY <1>1, <2>1, DateOfDay
  <2> QED
    BY <1>2, <2>1, <2>2
<1>4. ASSUME y = v PROVE m < p \/ (m = p /\ d < q)
  <2>1. PICK S, M, P \in Nat : S = YearStart(y) /\ M = MonthStart(y, m) /\ P = MonthStart(y, p)
    BY YearWithin, MonthWithin
  <2>2. a = S + M + d - 1 /\ b = S + P + q - 1
    BY <1>1, <1>4, <2>1 DEF MakeDay
  <2>3. M + d < P + q
    BY <1>2, <2>2
  <2>4. m = p => M = P
    BY <2>1
  <2>5. ~(p < m)
    <3> SUFFICES ASSUME p < m PROVE FALSE
      OBVIOUS
    <3>1. PICK N \in Nat : N = MonthStart(y, p + 1) /\ N <= M
      BY <2>1, MonthsInOrder
    <3>2. P + q <= N
      BY <1>4, <2>1, <3>1 DEF OnCalendar
    <3> QED
      BY <2>3, <3>1, <3>2
  <2> QED
    BY <2>3, <2>4, <2>5
<1> QED
  BY <1>3, <1>4 DEF Earlier

\* The ends of two certificates for as many years do, but for one that is built
\* on a leap day.
EndsAfter(e, f, m, d) == e < f \/ (e = f /\ m = 2 /\ d = 29 /\ DateOf(e).day = 1)

\* and a certificate of a later date ends later, or both end on the same 1
\* March.
LEMMA EndsInOrder ==
    ASSUME NEW y \in Nat, NEW m \in 1..12, NEW d \in Nat \ {0}, OnCalendar(y, m, d),
           NEW v \in Nat, NEW p \in 1..12, NEW q \in Nat \ {0}, OnCalendar(v, p, q),
           Earlier(y, m, d, v, p, q), NEW k \in Nat,
           NEW e \in Nat, e = MakeDay(y + k, m, d),
           NEW f \in Nat, f = MakeDay(v + k, p, q)
    PROVE  EndsAfter(e, f, m, d)
<1>1. PICK w, x \in Nat : w = y + k /\ x = v + k
  OBVIOUS
<1>2. e = MakeDay(w, m, d) /\ f = MakeDay(x, p, q)
  BY <1>1
<1>3. CASE y < v
  <2>1. w < x /\ w + 1 \in Nat
    BY <1>1, <1>3
  <2>2. PICK S, T \in Nat : S = YearStart(w + 1) /\ T = YearStart(x) /\ S <= T
    BY <2>1, YearWithin, YearsInOrder
  <2>3. e < S
    BY <1>2, <2>2, EndInYear
  <2>4. T <= f
    BY <1>2, <2>2, EndInYear
  <2>5. e < f
    BY <2>2, <2>3, <2>4
  <2> QED
    BY <2>5 DEF EndsAfter
<1>4. CASE y = v
  <2>1. w = x
    BY <1>1, <1>4
  <2>2. PICK S, M, P \in Nat : S = YearStart(w) /\ M = MonthStart(w, m) /\ P = MonthStart(w, p)
    BY YearWithin, MonthWithin
  <2>3. e = S + M + d - 1 /\ f = S + P + q - 1
    BY <1>2, <2>1, <2>2 DEF MakeDay
  <2>4. CASE m < p
    <3>1. PICK N \in Nat : N = MonthStart(w, m + 1) /\ N <= P
      BY <2>2, <2>4, MonthsInOrder
    <3>2. CASE OnCalendar(w, m, d)
      <4>1. M + d <= N
        BY <2>2, <3>1, <3>2 DEF OnCalendar
      <4>2. e < f
        BY <2>3, <3>1, <4>1
      <4> QED
        BY <4>2 DEF EndsAfter
    <3>3. CASE ~OnCalendar(w, m, d)
      <4>1. m = 2 /\ d = 29 /\ OnCalendar(w, 3, 1) /\ e = MakeDay(w, 3, 1)
        BY <1>2, <3>3, OtherYear
      <4>2. 3 \in 1..12 /\ 1 \in Nat \ {0}
        OBVIOUS
      <4>3. DateOf(e) = [year |-> w, month |-> 3, day |-> 1]
        BY <4>1, <4>2, DateOfDay
      <4>4. DateOf(e).day = 1
        BY <4>3
      <4>5. e <= f
        <5>1. N = MonthStart(w, 3)
          BY <3>1, <4>1
        <5>2. e = S + N + 1 - 1
          BY <2>2, <4>1, <5>1 DEF MakeDay
        <5> QED
          BY <2>3, <3>1, <5>2
      <4> QED
        BY <4>1, <4>4, <4>5 DEF EndsAfter
    <3> QED
      BY <3>2, <3>3
  <2>5. CASE m = p /\ d < q
    <3>1. M = P
      BY <2>2, <2>5
    <3>2. e < f
      BY <2>3, <2>5, <3>1
    <3> QED
      BY <3>2 DEF EndsAfter
  <2> QED
    BY <1>4, <2>4, <2>5 DEF Earlier
<1> QED
  BY <1>3, <1>4 DEF Earlier

\* The first of March, which comes after the leap day.
March(y) == YearStart(y) + 59 + LeapDay(y)

\* From one 1 March to the next it is a year at least,
LEMMA MarchYears ==
    ASSUME NEW y \in Nat
    PROVE  March(y) \in Nat /\ March(y) + 365 <= March(y + 1)
<1>1. PICK S, T \in Nat, l \in {0, 1}, h \in {0, 1} :
         /\ S = YearStart(y) /\ T = YearStart(y + 1)
         /\ l = LeapDay(y) /\ h = LeapDay(y + 1)
  <2>1. y + 1 \in Nat
    OBVIOUS
  <2> QED
    BY <2>1, YearWithin, LeapDays
<1>2. T = S + 365 + l
  BY <1>1, YearLasts
<1>3. S + 59 + l \in Nat /\ (S + 59 + l) + 365 <= T + 59 + h
  BY <1>2
<1> QED
  BY <1>1, <1>3 DEF March

\* so that the first days of March are in order.
LEMMA MarchesInOrder ==
    ASSUME NEW x \in Nat, NEW y \in Nat, x <= y
    PROVE  March(x) <= March(y)
<1>1. CASE x = y
  BY <1>1, MarchYears
<1>2. CASE x < y
  <2>1. x + 1 \in Nat
    OBVIOUS
  <2>2. PICK S, T, W \in Nat :
           S = YearStart(x) /\ T = YearStart(y) /\ W = YearStart(x + 1)
    BY <2>1, YearWithin
  <2>5. W <= T
    BY <1>2, <2>2, YearsInOrder
  <2>3. PICK l, h \in {0, 1} : l = LeapDay(x) /\ h = LeapDay(y) /\ W = S + 365 + l
    BY <2>2, LeapDays, YearLasts
  <2>4. S + 59 + l <= T + 59 + h
    BY <2>3, <2>5
  <2> QED
    BY <2>2, <2>3, <2>4 DEF March
<1> QED
  BY <1>1, <1>2

\* A date is in one of the years that start with March.
LEMMA BetweenMarches ==
    ASSUME NEW y \in Nat, NEW m \in 1..12, NEW d \in Nat \ {0}, OnCalendar(y, m, d),
           NEW n \in Nat, n = MakeDay(y, m, d), NEW z \in Nat, z = Spring(y, m)
    PROVE  n < March(z) /\ (z # 0 => March(z - 1) <= n)
<1>1. PICK S, M \in Nat, l \in {0, 1} :
         S = YearStart(y) /\ M = MonthStart(y, m) /\ l = LeapDay(y)
  BY YearWithin, MonthWithin, LeapDays
<1>2. n = S + M + d - 1 /\ March(y) = S + 59 + l
  BY <1>1 DEF MakeDay, March
<1>3. IF m > 2 THEN 59 + l < M + d /\ M + d <= 365 + l ELSE M + d <= 59 + l
  <2>1. M + d <= MonthStart(y, m + 1)
    BY <1>1 DEF OnCalendar
  <2> QED
    BY <1>1, <2>1, MonthStarts
<1>4. CASE m > 2
  <2>1. z = y + 1 /\ z - 1 = y
    BY <1>4 DEF Spring
  <2>2. March(y) <= n
    BY <1>2, <1>3, <1>4
  <2>3. March(y) + 365 <= March(y + 1) /\ March(y) \in Nat /\ March(y + 1) \in Nat
    <3>1. y + 1 \in Nat
      OBVIOUS
    <3> QED
      BY <3>1, MarchYears
  <2>4. n < March(y + 1)
    <3>1. n < S + 59 + l + 365
      BY <1>2, <1>3, <1>4
    <3> QED
      BY <1>2, <2>3, <3>1
  <2> QED
    BY <2>1, <2>2, <2>4
<1>5. CASE ~(m > 2)
  <2>1. z = y
    BY <1>5 DEF Spring
  <2>2. n < March(y)
    BY <1>2, <1>3, <1>5
  <2>3. ASSUME y # 0 PROVE March(y - 1) <= n
    <3>1. y - 1 \in Nat /\ (y - 1) + 1 = y
      BY <2>3
    <3>2. PICK T \in Nat, h \in {0, 1} : T = YearStart(y - 1) /\ h = LeapDay(y - 1)
      BY <3>1, YearWithin, LeapDays
    <3>3. S = T + 365 + h
      BY <1>1, <3>1, <3>2, YearLasts
    <3>4. March(y - 1) = T + 59 + h
      BY <3>2 DEF March
    <3> QED
      BY <1>2, <3>3, <3>4
  <2> QED
    BY <2>1, <2>2, <2>3
<1> QED
  BY <1>4, <1>5

\* Four years have that many days at least.
LEMMA FourYears ==
    ASSUME NEW z \in Nat
    PROVE  March(z) + 1460 <= March(z + 4)
<1>1. /\ z + 1 \in Nat /\ z + 2 \in Nat /\ z + 3 \in Nat /\ z + 4 \in Nat
      /\ z + 2 = (z + 1) + 1 /\ z + 3 = (z + 2) + 1 /\ z + 4 = (z + 3) + 1
  OBVIOUS
<1>2. PICK A, B, C, D, E \in Nat :
         /\ A = March(z) /\ B = March(z + 1) /\ C = March(z + 2)
         /\ D = March(z + 3) /\ E = March(z + 4)
  BY <1>1, MarchYears
<1>3. A + 365 <= B
  BY <1>2, MarchYears
<1>4. B + 365 <= C
  BY <1>1, <1>2, MarchYears
<1>5. C + 365 <= D
  BY <1>1, <1>2, MarchYears
<1>6. D + 365 <= E
  BY <1>1, <1>2, MarchYears
<1> QED
  BY <1>2, <1>3, <1>4, <1>5, <1>6

\* Within four years there are at most four firsts of March,
LEMMA SpringsFollow ==
    ASSUME NEW n \in Nat, NEW o \in Nat, n <= o, o <= n + 1460,
           NEW z \in Nat, n < March(z), z # 0 => March(z - 1) <= n,
           NEW u \in Nat, o < March(u), u # 0 => March(u - 1) <= o
    PROVE  u \in z..(z + 4)
<1>1. ~(u < z)
  <2> SUFFICES ASSUME u < z PROVE FALSE
    OBVIOUS
  <2>1. z - 1 \in Nat /\ u <= z - 1 /\ z # 0
    OBVIOUS
  <2>2. PICK A, B \in Nat : A = March(u) /\ B = March(z - 1) /\ A <= B
    BY <2>1, MarchYears, MarchesInOrder
  <2> QED
    BY <2>1, <2>2
<1>2. ~(z + 4 < u)
  <2> SUFFICES ASSUME z + 4 < u PROVE FALSE
    OBVIOUS
  <2>1. u - 1 \in Nat /\ z + 4 <= u - 1 /\ u # 0 /\ z + 4 \in Nat
    OBVIOUS
  <2>2. PICK A, B, D \in Nat : A = March(z) /\ B = March(z + 4) /\ D = March(u - 1)
    <3>1. March(z) \in Nat
      BY MarchYears
    <3>2. March(z + 4) \in Nat
      BY <2>1, MarchYears
    <3>3. March(u - 1) \in Nat
      BY <2>1, MarchYears
    <3> QED
      BY <3>1, <3>2, <3>3
  <2>3. A + 1460 <= B
    BY <2>2, FourYears
  <2>4. B <= D
    BY <2>1, <2>2, MarchesInOrder
  <2> QED
    BY <2>1, <2>2, <2>3, <2>4
<1> QED
  BY <1>1, <1>2

\* Leap years are multiples of 4,
LEMMA FourthYear ==
    ASSUME NEW y \in Nat
    PROVE  \E q \in Nat : LeapDay(y) = 1 => y = 4 * q
<1>1. y \div 4 \in Nat /\ y = 4 * (y \div 4) + (y % 4)
  BY Quotients
<1>2. LeapDay(y) = 1 => y % 4 = 0
  BY DEF LeapDay, Leap
<1> QED
  BY <1>1, <1>2

\* so that there is at most one among four.
LEMMA OneLeapYear ==
    ASSUME NEW z \in Nat, NEW j \in 0..4
    PROVE  LeapsBefore(z + j) - LeapsBefore(z) \in {0, 1}
<1>1. PICK a, b, c, d \in {0, 1} :
         a = LeapDay(z) /\ b = LeapDay(z + 1) /\ c = LeapDay(z + 2) /\ d = LeapDay(z + 3)
  BY LeapDays
<1>2. a + b + c + d <= 1
  <2>1. PICK i \in Nat : a = 1 => z = 4 * i
    BY <1>1, FourthYear
  <2>2. PICK g \in Nat : b = 1 => z + 1 = 4 * g
    <3>1. z + 1 \in Nat
      OBVIOUS
    <3>2. PICK q \in Nat : LeapDay(z + 1) = 1 => z + 1 = 4 * q
      BY <3>1, FourthYear
    <3> QED
      BY <1>1, <3>2
  <2>3. PICK h \in Nat : c = 1 => z + 2 = 4 * h
    <3>1. z + 2 \in Nat
      OBVIOUS
    <3>2. PICK q \in Nat : LeapDay(z + 2) = 1 => z + 2 = 4 * q
      BY <3>1, FourthYear
    <3> QED
      BY <1>1, <3>2
  <2>4. PICK l \in Nat : d = 1 => z + 3 = 4 * l
    <3>1. z + 3 \in Nat
      OBVIOUS
    <3>2. PICK q \in Nat : LeapDay(z + 3) = 1 => z + 3 = 4 * q
      BY <3>1, FourthYear
    <3> QED
      BY <1>1, <3>2
  <2> QED
    BY <2>1, <2>2, <2>3, <2>4
<1>3. PICK A, B, C, D, E \in Nat :
         /\ A = LeapsBefore(z) /\ B = LeapsBefore(z + 1) /\ C = LeapsBefore(z + 2)
         /\ D = LeapsBefore(z + 3) /\ E = LeapsBefore(z + 4)
  <2>1. /\ z + 1 \in Nat /\ z + 2 \in Nat
        /\ z + 3 \in Nat /\ z + 4 \in Nat
    OBVIOUS
  <2>2. LeapsBefore(z) \in Nat /\ LeapsBefore(z + 1) \in Nat
    BY <2>1, LeapsAdd
  <2>3. LeapsBefore(z + 2) \in Nat /\ LeapsBefore(z + 3) \in Nat
    BY <2>1, LeapsAdd
  <2>4. LeapsBefore(z + 4) \in Nat
    BY <2>1, LeapsAdd
  <2> QED
    BY <2>2, <2>3, <2>4
<1>4. B = A + a /\ C = B + b /\ D = C + c /\ E = D + d
  <2>1. /\ z + 1 \in Nat /\ z + 2 \in Nat /\ z + 3 \in Nat
        /\ z + 2 = (z + 1) + 1 /\ z + 3 = (z + 2) + 1 /\ z + 4 = (z + 3) + 1
    OBVIOUS
  <2>2. B = A + a
    BY <1>1, <1>3, LeapsAdd
  <2>3. C = B + b
    BY <1>1, <1>3, <2>1, LeapsAdd
  <2>4. D = C + c
    BY <1>1, <1>3, <2>1, LeapsAdd
  <2>5. E = D + d
    BY <1>1, <1>3, <2>1, LeapsAdd
  <2> QED
    BY <2>2, <2>3, <2>4, <2>5
<1>5. LeapsBefore(z + j) \in {A, B, C, D, E}
  <2>1. j = 0 \/ j = 1 \/ j = 2 \/ j = 3 \/ j = 4
    OBVIOUS
  <2>2. z + 0 = z
    OBVIOUS
  <2> QED
    BY <1>3, <2>1, <2>2
<1> QED
  BY <1>2, <1>3, <1>4, <1>5

\* Two certificates for as many years that are built within four years last as
\* long, give or take a day.
LEMMA LastsAsLong ==
    ASSUME NEW n \in Nat, NEW o \in Nat, NEW e \in Nat, NEW f \in Nat, NEW k \in Nat,
           NEW z \in Nat, NEW u \in z..(z + 4),
           Lasts(k, z, n, e), Lasts(k, u, o, f)
    PROVE  f + n <= e + o + 1 /\ e + o <= f + n + 1
<1>1. PICK j \in 0..4 : u = z + j /\ u + k = (z + k) + j
  <2>1. u - z \in 0..4 /\ u = z + (u - z) /\ u + k = (z + k) + (u - z)
    OBVIOUS
  <2> QED
    BY <2>1
<1>2. PICK A, B, C, D \in Nat :
         /\ A = LeapsBefore(z) /\ B = LeapsBefore(z + k)
         /\ C = LeapsBefore(u) /\ D = LeapsBefore(u + k)
  <2>1. z + k \in Nat /\ u + k \in Nat /\ u \in Nat
    OBVIOUS
  <2> QED
    BY <2>1, LeapsAdd
<1>3. PICK K \in Nat : K = 365 * k
  OBVIOUS
<1>4. e + A = n + K + B /\ f + C = o + K + D
  BY <1>2, <1>3 DEF Lasts
<1>5. C - A \in {0, 1}
  BY <1>1, <1>2, OneLeapYear
<1>6. D - B \in {0, 1}
  <2>1. z + k \in Nat
    OBVIOUS
  <2> QED
    BY <1>1, <1>2, <2>1, OneLeapYear
<1> QED
  BY <1>4, <1>5, <1>6

\* Of two instants, the days and the times of day are in order.
LEMMA DaysInOrder ==
    ASSUME NEW n \in Nat, NEW r \in Nat, NEW t \in Nat, r < Day, t = n * Day + r,
           NEW o \in Nat, NEW s \in Nat, NEW u \in Nat, s < Day, u = o * Day + s,
           t <= u
    PROVE  /\ n <= o /\ (n = o => r <= s)
           /\ u <= t + 1460 * Day => o <= n + 1460
<1>1. PICK D, N, O \in Nat : D = Day /\ N = n * Day /\ O = o * Day
  BY DayAssumption, TimesDay
<1>2. t = N + r /\ u = O + s /\ r < D /\ s < D
  BY <1>1
<1>3. ~(o < n)
  <2> SUFFICES ASSUME o < n PROVE FALSE
    OBVIOUS
  <2>1. o + 1 \in Nat /\ o + 1 <= n
    OBVIOUS
  <2>2. O + D <= N
    BY <1>1, <2>1, TimesDay
  <2> QED
    BY <1>2, <2>2
<1>4. n = o => r <= s
  BY <1>1, <1>2
<1>5. ASSUME u <= t + 1460 * Day PROVE ~(n + 1460 < o)
  <2> SUFFICES ASSUME n + 1460 < o PROVE FALSE
    OBVIOUS
  <2>1. PICK Y \in Nat : Y = 1460 * Day /\ u <= t + Y
    BY <1>1, <1>5
  <2>2. n + 1461 \in Nat /\ n + 1461 <= o /\ 1461 \in Nat
    OBVIOUS
  <2>3. PICK Z \in Nat : Z = 1461 * Day /\ Z = Y + D
    BY <1>1, <2>1
  <2>4. (n + 1461) * Day <= O
    BY <1>1, <2>2, TimesDay
  <2>5. (n + 1461) * Day = N + Z
    BY <1>1, <2>2, <2>3, TimesDay
  <2> QED
    BY <1>2, <2>1, <2>3, <2>4, <2>5
<1> QED
  BY <1>3, <1>4, <1>5

\* Two certificates built one after the other.
Renews(n, o, e, f, m, d, r, s) ==
    \/ n = o /\ e = f /\ r <= s
    \/ n < o /\ EndsAfter(e, f, m, d)

\* Within four years, the end moves as far as the date, give or take a day.
AsLong(t, u, n, o, e, f) ==
    u <= t + 1460 * Day => f + n <= e + o + 1 /\ e + o <= f + n + 1

\* Certificates of two instants, one after the other, compared by days,
LEMMA RenewedInDays ==
    ASSUME NEW k \in Nat, NEW t \in Nat, NEW u \in Nat, t <= u,
           NEW y \in Nat, NEW m \in 1..12, NEW d \in Nat \ {0},
           NEW n \in Nat, NEW e \in Nat, NEW r \in Nat, Built(t, k, y, m, d, n, e, r),
           NEW v \in Nat, NEW p \in 1..12, NEW q \in Nat \ {0},
           NEW o \in Nat, NEW f \in Nat, NEW s \in Nat, Built(u, k, v, p, q, o, f, s)
    PROVE  Renews(n, o, e, f, m, d, r, s) /\ AsLong(t, u, n, o, e, f)
<1>1. /\ OnCalendar(y, m, d) /\ n = MakeDay(y, m, d) /\ e = MakeDay(y + k, m, d)
      /\ r < Day /\ t = n * Day + r
  BY DEF Built
<1>2. /\ OnCalendar(v, p, q) /\ o = MakeDay(v, p, q) /\ f = MakeDay(v + k, p, q)
      /\ s < Day /\ u = o * Day + s
  BY DEF Built
<1>3. /\ n <= o /\ (n = o => r <= s)
      /\ u <= t + 1460 * Day => o <= n + 1460
  BY <1>1, <1>2, DaysInOrder
<1>4. ASSUME n = o PROVE e = f
  <2>1. DateOf(n) = [year |-> y, month |-> m, day |-> d]
    BY <1>1, DateOfDay
  <2>2. DateOf(o) = [year |-> v, month |-> p, day |-> q]
    BY <1>2, DateOfDay
  <2>3. y = v /\ m = p /\ d = q
    BY <1>4, <2>1, <2>2
  <2> QED
    BY <1>1, <1>2, <2>3
<1>5. ASSUME n < o PROVE EndsAfter(e, f, m, d)
  <2>1. Earlier(y, m, d, v, p, q)
    BY <1>1, <1>2, <1>5, DatesInOrder
  <2> QED
    BY <1>1, <1>2, <2>1, EndsInOrder
<1>6. ASSUME u <= t + 1460 * Day PROVE f + n <= e + o + 1 /\ e + o <= f + n + 1
  <2>1. PICK z, x \in Nat : z = Spring(y, m) /\ x = Spring(v, p)
    BY DEF Spring
  <2>2. n < March(z) /\ (z # 0 => March(z - 1) <= n)
    BY <1>1, <2>1, BetweenMarches
  <2>3. o < March(x) /\ (x # 0 => March(x - 1) <= o)
    BY <1>2, <2>1, BetweenMarches
  <2>4. n <= o /\ o <= n + 1460
    BY <1>3, <1>6
  <2>5. x \in z..(z + 4)
    BY <2>2, <2>3, <2>4, SpringsFollow
  <2>6. Lasts(k, z, n, e)
    BY <1>1, <2>1, DaysToAnniversary
  <2>7. Lasts(k, x, o, f)
    BY <1>2, <2>1, DaysToAnniversary
  <2> QED
    BY <2>5, <2>6, <2>7, LastsAsLong
<1> QED
  BY <1>3, <1>4, <1>5, <1>6 DEF Renews, AsLong

\* What follows for the instants at which they end.
RenewedLater(t, first, renewed) ==
    \/ first <= renewed
    \/ /\ Date(t).month = 2 /\ Date(t).day = 29
       /\ Date(renewed) = Date(first) /\ Date(first).day = 1

\* The two clauses of RenewalExtends.
RenewedRightly(t, later, first, renewed) ==
    /\ RenewedLater(t, first, renewed)
    /\ later <= 1460 * Day =>
         /\ renewed + Day >= first + later
         /\ renewed <= first + later + Day

\* and by ticks.
LEMMA RenewalLengthens ==
    ASSUME NEW t \in Nat, NEW later \in Nat, NEW k \in Nat,
           NEW first, first = NotAfter(t, k),
           NEW renewed, renewed = NotAfter(t + later, k)
    PROVE  RenewedRightly(t, later, first, renewed)
<1>1. PICK u \in Nat : u = t + later
  OBVIOUS
<1>2. PICK y \in Nat, m \in 1..12, d \in Nat \ {0}, n, e, r \in Nat :
         Built(t, k, y, m, d, n, e, r)
  BY EndOf
<1>3. PICK v \in Nat, p \in 1..12, q \in Nat \ {0}, o, f, s \in Nat :
         Built(u, k, v, p, q, o, f, s)
  BY EndOf
<1>4. t <= u
  BY <1>1
<1>5. Renews(n, o, e, f, m, d, r, s) /\ AsLong(t, u, n, o, e, f)
  BY <1>2, <1>3, <1>4, RenewedInDays
<1>6. /\ first = e * Day + r /\ first \div Day = e /\ r < Day /\ t = n * Day + r
      /\ Date(t) = [year |-> y, month |-> m, day |-> d]
  BY <1>2, Zenon DEF Built
<1>7. /\ renewed = f * Day + s /\ renewed \div Day = f /\ s < Day /\ u = o * Day + s
  BY <1>1, <1>3, Zenon DEF Built
<1>8. PICK D, E, F, N, O \in Nat :
         D = Day /\ E = e * Day /\ F = f * Day /\ N = n * Day /\ O = o * Day
  BY DayAssumption, TimesDay
<1>9. /\ first = E + r /\ renewed = F + s /\ t = N + r /\ u = O + s
      /\ first \in Nat /\ renewed \in Nat /\ r < D /\ s < D
  BY <1>6, <1>7, <1>8
<1>10. RenewedLater(t, first, renewed)
  <2>1. CASE n = o /\ e = f /\ r <= s
    <3>1. E = F
      BY <1>8, <2>1
    <3>2. first <= renewed
      BY <1>9, <2>1, <3>1
    <3> QED
      BY <3>2 DEF RenewedLater
  <2>2. CASE e < f
    <3>1. e + 1 \in Nat /\ e + 1 <= f
      BY <2>2
    <3>2. E + D <= F
      BY <1>8, <3>1, TimesDay
    <3>3. first <= renewed
      BY <1>9, <3>2
    <3> QED
      BY <3>3 DEF RenewedLater
  <2>3. CASE e = f /\ m = 2 /\ d = 29 /\ DateOf(e).day = 1
    <3>1. Date(first) = DateOf(e) /\ Date(renewed) = DateOf(e)
      BY <1>6, <1>7, <2>3 DEF Date
    <3>2. Date(t).month = m /\ Date(t).day = d
      BY <1>6
    <3> QED
      BY <2>3, <3>1, <3>2 DEF RenewedLater
  <2> QED
    BY <1>5, <2>1, <2>2, <2>3 DEF Renews, EndsAfter
<1>11. ASSUME later <= 1460 * Day
       PROVE  renewed + Day >= first + later /\ renewed <= first + later + Day
  <2>1. u <= t + 1460 * Day
    <3>1. PICK Y \in Nat : Y = 1460 * Day /\ later <= Y
      BY <1>8, <1>11
    <3> QED
      BY <1>1, <3>1
  <2>2. f + n <= e + o + 1 /\ e + o <= f + n + 1
    BY <1>5, <2>1 DEF AsLong
  <2>3. PICK a, b \in Nat : a = f + n /\ b = e + o
    OBVIOUS
  <2>4. a <= b + 1 /\ b <= a + 1 /\ a + 1 \in Nat /\ b + 1 \in Nat
    BY <2>2, <2>3
  <2>5. PICK A, B \in Nat : A = a * Day /\ B = b * Day
    BY TimesDay
  <2>6. A = F + N /\ B = E + O
    BY <1>8, <2>3, <2>5, TimesDay
  <2>7. A <= B + D /\ B <= A + D
    BY <1>8, <2>4, <2>5, TimesDay
  <2>8. /\ F + N <= E + O + D /\ E + O <= F + N + D
    BY <2>6, <2>7
  <2>9. N + r + later = O + s
    BY <1>1, <1>9
  <2>10. F + s + D >= E + r + later /\ F + s <= E + r + later + D
    BY <2>8, <2>9
  <2> QED
    BY <1>8, <1>9, <2>10
<1> QED
  BY <1>10, <1>11 DEF RenewedRightly

\* To renew a certificate never shortens it, but on the day after a leap day;
\* within four years it lengthens it by the time that has passed, give or take a
\* day.
THEOREM RenewalsExtend == ConversionsSpec => []RenewalExtends
<1>1. Inputs => RenewalExtends
  <2> SUFFICES ASSUME Inputs, input.of = "certificate" PROVE RenewalExtends
    BY DEF RenewalExtends
  <2>1. PICK t \in Nat, later \in Nat, k \in Nat :
           t = input.clock /\ later = input.later /\ k = input.years
    BY DEF Inputs
  <2>2. PICK first, renewed : first = NotAfter(t, k) /\ renewed = NotAfter(t + later, k)
    OBVIOUS
  <2>3. RenewedRightly(t, later, first, renewed)
    BY <2>2, RenewalLengthens
  <2>4. RenewedRightly(input.clock, input.later, NotAfter(input.clock, input.years),
                       NotAfter(input.clock + input.later, input.years))
    BY <2>1, <2>2, <2>3, Zenon
  <2> QED
    BY <2>4, Zenon DEF RenewalExtends, RenewedRightly, RenewedLater
<1> QED
  BY <1>1, InputsHold, PTL

-----------------------------------------------------------------------------
(* Days left *)

\* Whole days are as many as fit.
LEMMA WholeDaysFit ==
    ASSUME NEW span \in Nat
    PROVE  /\ span \div Day \in Nat
           /\ (span \div Day) * Day <= span
           /\ span < (span \div Day + 1) * Day
  BY DayAssumption

\* What the status shows of an instant is what signing keeps to.
LEMMA ShownDaysAreLeft ==
    ASSUME NEW notAfter \in Nat, NEW now \in Nat, ~IsExpired(notAfter, now)
    PROVE  LET days == DaysRemaining(notAfter, now)
           IN  /\ MaySign(notAfter, now + days * Day)
               /\ ~MaySign(notAfter, now + (days + 1) * Day)
<1> DEFINE span == notAfter - now
           days == span \div Day
<1>1. span \in Nat /\ notAfter = now + span
  BY DEF IsExpired
<1>2. /\ days \in Nat /\ days * Day <= span /\ span < (days + 1) * Day
  BY <1>1, WholeDaysFit
<1>3. days * Day \in Nat /\ (days + 1) * Day \in Nat
  BY <1>2, DayAssumption
<1>4. DaysRemaining(notAfter, now) = days
  BY DEF DaysRemaining, WholeDays
<1> HIDE DEF days, span
<1> QED
  BY <1>1, <1>2, <1>3, <1>4 DEF MaySign

\* The days shown are those that signing has left, down to the last tick.
THEOREM DaysShownAreLeft == ConversionsSpec => []DaysRemainingAreLeft
<1>1. Inputs => DaysRemainingAreLeft
  <2> SUFFICES ASSUME Inputs, input.of = "status" PROVE DaysRemainingAreLeft
    BY DEF DaysRemainingAreLeft
  <2>1. CASE IsExpired(input.notAfter, input.now)
    BY <2>1 DEF DaysRemainingAreLeft, DaysRemaining, MaySign, IsExpired
  <2>2. CASE ~IsExpired(input.notAfter, input.now)
    BY <2>2, ShownDaysAreLeft DEF DaysRemainingAreLeft, Inputs
  <2> QED
    BY <2>1, <2>2
<1> QED
  BY <1>1, InputsHold, PTL
=============================================================================
