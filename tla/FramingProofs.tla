--------------------------- MODULE FramingProofs ---------------------------
(***************************************************************************)
(* Proofs about Framing, for streams of any length: its types, and that    *)
(* every command is cut where its text first can end (CutsAtFirstEnd): the *)
(* three locals of parse are what the definitions of Escaped, InString and *)
(* Count say of the bytes read so far.                                     *)
(***************************************************************************)
EXTENDS Framing, FiniteSetTheorems, SequenceTheorems, TLAPS

-----------------------------------------------------------------------------
\* Two streams that agree are cut alike.

Agree(s, t, n) == \A j \in 1 .. n : s[j] = t[j]

LEMMA SameEscapes ==
  ASSUME NEW s, NEW t, NEW n \in Nat, Agree(s, t, n),
         NEW a \in Nat \ {0}, NEW i \in 1 .. n + 1
  PROVE  Escaped(s, a, i) <=> Escaped(t, a, i)
<1>1. ASSUME NEW k \in a .. i - 1
      PROVE  /\ \A j \in k .. i - 1 : s[j] = t[j]
             /\ k > a => s[k - 1] = t[k - 1]
  BY DEF Agree
<1> QED  BY <1>1 DEF Escaped

LEMMA SameStrings ==
  ASSUME NEW s, NEW t, NEW n \in Nat, Agree(s, t, n),
         NEW a \in Nat \ {0}, NEW i \in 1 .. n + 1
  PROVE  InString(s, a, i) <=> InString(t, a, i)
<1>1. ASSUME NEW j \in a .. i - 1
      PROVE  (s[j] = "quote" /\ ~ Escaped(s, a, j)) <=> (t[j] = "quote" /\ ~ Escaped(t, a, j))
  <2>1. j \in 1 .. n /\ j \in 1 .. n + 1
    OBVIOUS
  <2> QED  BY <2>1, SameEscapes DEF Agree
<1>2. {j \in a .. i - 1 : s[j] = "quote" /\ ~ Escaped(s, a, j)}
        = {j \in a .. i - 1 : t[j] = "quote" /\ ~ Escaped(t, a, j)}
  BY <1>1
<1> QED  BY <1>2 DEF InString, Quantify

LEMMA SameCounts ==
  ASSUME NEW s, NEW t, NEW n \in Nat, Agree(s, t, n),
         NEW a \in Nat \ {0}, NEW i \in 0 .. n, NEW brace
  PROVE  Count(s, a, i, brace) = Count(t, a, i, brace)
<1>1. ASSUME NEW j \in a .. i
      PROVE  (s[j] = brace /\ ~ InString(s, a, j)) <=> (t[j] = brace /\ ~ InString(t, a, j))
  <2>1. j \in 1 .. n /\ j \in 1 .. n + 1
    OBVIOUS
  <2> QED  BY <2>1, SameStrings DEF Agree
<1>2. {j \in a .. i : s[j] = brace /\ ~ InString(s, a, j)}
        = {j \in a .. i : t[j] = brace /\ ~ InString(t, a, j)}
  BY <1>1
<1> QED  BY <1>2 DEF Count, Quantify

LEMMA SameEnds ==
  ASSUME NEW s, NEW t, NEW n \in Nat, Agree(s, t, n),
         NEW a \in Nat \ {0}, NEW i \in 1 .. n
  PROVE  Ends(s, a, i) <=> Ends(t, a, i)
<1>1. s[i] = t[i] /\ i \in 1 .. n + 1 /\ i \in 0 .. n
  BY DEF Agree
<1> QED  BY <1>1, SameStrings, SameCounts DEF Ends
LEMMA SameCut ==
  ASSUME NEW s, NEW t, NEW n \in Nat, Agree(s, t, n), NEW r,
         r.first \in Nat \ {0}, r.last \in r.first .. n
  PROVE  RightCut(s, r) <=> RightCut(t, r)
<1>1. Ends(s, r.first, r.last) <=> Ends(t, r.first, r.last)
  BY SameEnds
<1>2. \A i \in r.first .. r.last - 1 : Ends(s, r.first, i) <=> Ends(t, r.first, i)
  BY SameEnds
<1>3. \A brace : Count(s, r.first, r.last, brace) = Count(t, r.first, r.last, brace)
  BY SameCounts
<1> QED  BY <1>1, <1>2, <1>3 DEF RightCut

-----------------------------------------------------------------------------
\* What one more byte does to each definition.

\* From byte k to the byte before i there are only backslashes, and none before.
Run(s, a, k, i) ==
  /\ k \in a .. i
  /\ \A j \in k .. i - 1 : s[j] = "backslash"
  /\ k > a => s[k - 1] # "backslash"

LEMMA RunDecides ==
  ASSUME NEW s, NEW a \in Nat \ {0}, NEW i \in Nat, NEW k, Run(s, a, k, i)
  PROVE  Escaped(s, a, i) <=> (i - k) % 2 = 1
<1>1. k \in a .. i
  BY DEF Run
<1>2. ASSUME (i - k) % 2 = 1 PROVE Escaped(s, a, i)
  <2>1. k \in a .. i - 1
    BY <1>1, <1>2
  <2> QED  BY <1>2, <2>1 DEF Run, Escaped
<1>3. ASSUME Escaped(s, a, i) PROVE (i - k) % 2 = 1
  <2>1. PICK m \in a .. i - 1 :
          /\ (i - m) % 2 = 1
          /\ \A j \in m .. i - 1 : s[j] = "backslash"
          /\ m > a => s[m - 1] # "backslash"
    BY <1>3 DEF Escaped
  <2>2. ~ (m < k)
    <3>1. ASSUME m < k PROVE FALSE
      <4>1. k > a /\ k - 1 \in m .. i - 1
        BY <1>1, <3>1
      <4> QED  BY <2>1, <4>1 DEF Run
    <3> QED  BY <3>1
  <2>3. ~ (k < m)
    <3>1. ASSUME k < m PROVE FALSE
      <4>1. m > a /\ m - 1 \in k .. i - 1
        BY <1>1, <3>1
      <4> QED  BY <2>1, <4>1 DEF Run
    <3> QED  BY <3>1
  <2>4. m = k
    BY <1>1, <2>2, <2>3
  <2> QED  BY <2>1, <2>4
<1> QED  BY <1>2, <1>3

LEMMA OneMore ==
  ASSUME NEW S, IsFiniteSet(S), NEW x, x \notin S
  PROVE  IsFiniteSet(S \cup {x}) /\ Cardinality(S \cup {x}) = Cardinality(S) + 1
  BY FS_AddElement

\* The bytes of a text that are counted.
Quotes(s, a, i) == {j \in a .. i - 1 : s[j] = "quote" /\ ~ Escaped(s, a, j)}
Braces(s, a, i, brace) == {j \in a .. i : s[j] = brace /\ ~ InString(s, a, j)}

LEMMA CountedSets ==
  ASSUME NEW s, NEW a \in Nat, NEW i \in Nat, NEW brace
  PROVE  /\ IsFiniteSet(Quotes(s, a, i)) /\ Cardinality(Quotes(s, a, i)) \in Nat
         /\ IsFiniteSet(Braces(s, a, i, brace)) /\ Cardinality(Braces(s, a, i, brace)) \in Nat
         /\ InString(s, a, i) <=> Cardinality(Quotes(s, a, i)) % 2 = 1
         /\ Count(s, a, i, brace) = Cardinality(Braces(s, a, i, brace))
<1>1. IsFiniteSet(a .. i - 1) /\ IsFiniteSet(a .. i)
  BY FS_Interval
<1>2. IsFiniteSet(Quotes(s, a, i)) /\ IsFiniteSet(Braces(s, a, i, brace))
  BY <1>1, FS_Subset DEF Quotes, Braces
<1>3. Cardinality(Quotes(s, a, i)) \in Nat /\ Cardinality(Braces(s, a, i, brace)) \in Nat
  BY <1>2, FS_CardinalityType
<1>4. InString(s, a, i) <=> Cardinality(Quotes(s, a, i)) % 2 = 1
  BY DEF InString, Quantify, Quotes
<1>5. Count(s, a, i, brace) = Cardinality(Braces(s, a, i, brace))
  BY DEF Count, Quantify, Braces
<1> QED  BY <1>2, <1>3, <1>4, <1>5

LEMMA Parity ==
  ASSUME NEW n \in Nat
  PROVE  (n + 1) % 2 = 1 <=> ~ (n % 2 = 1)
  OBVIOUS

LEMMA NextInString ==
  ASSUME NEW s, NEW a \in Nat \ {0}, NEW i \in Nat, a <= i
  PROVE  InString(s, a, i + 1) <=>
           (InString(s, a, i) <=> ~ (s[i] = "quote" /\ ~ Escaped(s, a, i)))
<1>0. /\ InString(s, a, i) <=> Cardinality(Quotes(s, a, i)) % 2 = 1
      /\ InString(s, a, i + 1) <=> Cardinality(Quotes(s, a, i + 1)) % 2 = 1
  BY DEF InString, Quantify, Quotes
<1>1. CASE s[i] = "quote" /\ ~ Escaped(s, a, i)
  <2>1. Quotes(s, a, i + 1) = Quotes(s, a, i) \cup {i} /\ i \notin Quotes(s, a, i)
    BY <1>1 DEF Quotes
  <2>2. Cardinality(Quotes(s, a, i + 1)) = Cardinality(Quotes(s, a, i)) + 1
    BY <2>1, CountedSets, OneMore
  <2>3. Cardinality(Quotes(s, a, i)) \in Nat
    BY CountedSets
  <2>4. (Cardinality(Quotes(s, a, i)) + 1) % 2 = 1 <=> ~ (Cardinality(Quotes(s, a, i)) % 2 = 1)
    BY <2>3, Parity
  <2> QED  BY <1>0, <1>1, <2>2, <2>4
<1>2. CASE ~ (s[i] = "quote" /\ ~ Escaped(s, a, i))
  <2>1. Quotes(s, a, i + 1) = Quotes(s, a, i)
    BY <1>2 DEF Quotes
  <2> QED  BY <1>0, <1>2, <2>1
<1> QED  BY <1>1, <1>2

LEMMA NextCount ==
  ASSUME NEW s, NEW a \in Nat \ {0}, NEW i \in Nat, a <= i + 1, NEW brace
  PROVE  /\ Count(s, a, i, brace) \in Nat
         /\ Count(s, a, i + 1, brace) =
              IF s[i + 1] = brace /\ ~ InString(s, a, i + 1)
              THEN Count(s, a, i, brace) + 1 ELSE Count(s, a, i, brace)
<1>1. CASE s[i + 1] = brace /\ ~ InString(s, a, i + 1)
  <2>1. Braces(s, a, i + 1, brace) = Braces(s, a, i, brace) \cup {i + 1}
        /\ i + 1 \notin Braces(s, a, i, brace)
    BY <1>1 DEF Braces
  <2>2. Cardinality(Braces(s, a, i + 1, brace)) = Cardinality(Braces(s, a, i, brace)) + 1
    BY <2>1, CountedSets, OneMore
  <2> QED  BY <1>1, <2>2, CountedSets
<1>2. CASE ~ (s[i + 1] = brace /\ ~ InString(s, a, i + 1))
  <2>1. Braces(s, a, i + 1, brace) = Braces(s, a, i, brace)
    BY <1>2 DEF Braces
  <2> QED  BY <1>2, <2>1, CountedSets
<1> QED  BY <1>1, <1>2

LEMMA NothingYet ==
  ASSUME NEW s, NEW a \in Nat \ {0}
  PROVE  /\ Run(s, a, a, a) /\ ~ InString(s, a, a)
         /\ \A brace : Count(s, a, a - 1, brace) = 0
<1>1. Run(s, a, a, a)
  BY DEF Run
<1>2. Quotes(s, a, a) = {} /\ \A brace : Braces(s, a, a - 1, brace) = {}
  BY DEF Quotes, Braces
<1>3. Cardinality({}) = 0
  BY FS_EmptySet
<1>4. ~ InString(s, a, a)
  BY <1>2, <1>3 DEF InString, Quantify, Quotes
<1>5. \A brace : Count(s, a, a - 1, brace) = 0
  BY <1>2, <1>3 DEF Count, Quantify, Braces
<1> QED  BY <1>1, <1>4, <1>5

-----------------------------------------------------------------------------
\* The locals of parse, by the bytes the call has read.

LocalsInv ==
  LET next == Len(input) + 1
  IN  /\ start \in 1 .. next
      /\ \E k \in start .. next : Run(input, start, k, next) /\ (escaped <=> (next - k) % 2 = 1)
      /\ in_string <=> InString(input, start, next)
      /\ depth \in 0 .. next - start
      /\ Count(input, start, next - 1, "open")
           = Count(input, start, next - 1, "close") + depth

\* The results, by the bytes read.
ResultsInv ==
  /\ results \in Seq(Result)
  /\ \A k \in DOMAIN results : /\ results[k].first <= results[k].last
                               /\ results[k].last <= Len(input)

FramingInv ==
  /\ input \in Seq(Byte) /\ Len(input) <= MaxBytes
  /\ escaped \in BOOLEAN /\ in_string \in BOOLEAN
  /\ errors \in 0 .. MaxErrors
  /\ LocalsInv
  /\ ResultsInv
  /\ CutsAtFirstEnd

\* A call that starts has read nothing.
LEMMA NewCallInv ==
  ASSUME input' \in Seq(Byte), NewCall(Len(input') + 1)
  PROVE  /\ LocalsInv' /\ escaped' \in BOOLEAN /\ in_string' \in BOOLEAN
         /\ start' .. Len(input') = {}
<1> DEFINE a == Len(input') + 1
<1>0. a \in Nat \ {0}
  <2>1. Len(input') \in Nat
    OBVIOUS
  <2> QED  BY <2>1
<1>1. /\ start' = a /\ depth' = 0 /\ escaped' = FALSE /\ in_string' = FALSE
      /\ escaped' \in BOOLEAN /\ in_string' \in BOOLEAN
  BY DEF NewCall
<1>2. /\ Run(input', a, a, a) /\ ~ InString(input', a, a)
      /\ \A brace : Count(input', a, a - 1, brace) = 0
  BY <1>0, NothingYet
<1>3. a \in a .. a /\ (a - a) % 2 = 0 /\ 0 \in 0 .. a - a /\ a - 1 = Len(input')
  BY <1>0
<1>4. LocalsInv'
  BY <1>0, <1>1, <1>2, <1>3 DEF LocalsInv
<1>5. a .. Len(input') = {}
  BY <1>0
<1> QED  BY <1>1, <1>4, <1>5

\* What is known of the bytes read stays known when one more is read.
Known(s) ==
  LET next == Len(input) + 1
  IN  /\ \E k \in start .. next : Run(s, start, k, next) /\ (escaped <=> (next - k) % 2 = 1)
      /\ in_string <=> InString(s, start, next)
      /\ Count(s, start, next - 1, "open") = Count(s, start, next - 1, "close") + depth
      /\ \A i \in start .. Len(input) : ~ Ends(s, start, i)
      /\ \A k \in DOMAIN results : RightCut(s, results[k])

LEMMA AppendByte ==
  ASSUME NEW s \in Seq(Byte), NEW c \in Byte
  PROVE  /\ Append(s, c) \in Seq(Byte) /\ Len(Append(s, c)) = Len(s) + 1
         /\ Agree(s, Append(s, c), Len(s)) /\ Append(s, c)[Len(s) + 1] = c
  BY DEF Agree

LEMMA StaysKnown ==
  ASSUME FramingInv, NEW t, Agree(input, t, Len(input))
  PROVE  Known(t)
<1> DEFINE n == Len(input)
           next == Len(input) + 1
<1>1. n \in Nat /\ start \in 1 .. next /\ start \in Nat \ {0} /\ next \in 1 .. n + 1
      /\ next - 1 \in 0 .. n /\ next \in Nat
  BY DEF FramingInv, LocalsInv
<1>2. PICK k \in start .. next : Run(input, start, k, next) /\ (escaped <=> (next - k) % 2 = 1)
  BY DEF FramingInv, LocalsInv
<1>0. \A j \in 1 .. n : t[j] = input[j]
  BY DEF Agree
<1>3. Run(t, start, k, next)
  <2>1. ASSUME NEW j \in k .. next - 1 PROVE t[j] = "backslash"
    <3>1. j \in 1 .. n
      BY <1>1, <1>2, <2>1
    <3>2. input[j] = "backslash"
      BY <1>2 DEF Run
    <3> QED  BY <1>0, <3>1, <3>2
  <2>2. k > start => t[k - 1] # "backslash"
    <3>1. k > start => k - 1 \in 1 .. n
      BY <1>1, <1>2
    <3>2. k > start => input[k - 1] # "backslash"
      BY <1>2 DEF Run
    <3> QED  BY <1>0, <3>1, <3>2
  <2> QED  BY <1>2, <2>1, <2>2 DEF Run
<1>4. InString(t, start, next) <=> InString(input, start, next)
  BY <1>1, SameStrings
<1>5. \A brace : Count(t, start, next - 1, brace) = Count(input, start, next - 1, brace)
  BY <1>1, SameCounts
<1>6. ASSUME NEW i \in start .. n PROVE ~ Ends(t, start, i)
  <2>1. i \in 1 .. n
    BY <1>1, <1>6
  <2> QED  BY <1>1, <2>1, SameEnds DEF FramingInv, CutsAtFirstEnd
<1>7. ASSUME NEW m \in DOMAIN results PROVE RightCut(t, results[m])
  <2>1. /\ results[m].first \in Nat \ {0} /\ results[m].last \in Nat
        /\ results[m].first <= results[m].last /\ results[m].last <= n
    <3>1. results[m] \in Result
      BY ElementOfSeq DEF FramingInv, ResultsInv
    <3> QED  BY <3>1 DEF FramingInv, ResultsInv, Result
  <2>2. results[m].last \in results[m].first .. n
    BY <1>1, <2>1
  <2>3. RightCut(input, results[m])
    BY DEF FramingInv, CutsAtFirstEnd
  <2> QED  BY <1>1, <2>1, <2>2, <2>3, SameCut
<1>8. \E m \in start .. next : Run(t, start, m, next) /\ (escaped <=> (next - m) % 2 = 1)
  BY <1>2, <1>3
<1>9. /\ in_string <=> InString(t, start, next)
      /\ Count(t, start, next - 1, "open") = Count(t, start, next - 1, "close") + depth
  BY <1>4, <1>5 DEF FramingInv, LocalsInv
<1> QED  BY <1>6, <1>7, <1>8, <1>9 DEF Known

\* Where the byte that was read ends a text, in terms of the locals.
LEMMA EndsHere ==
  ASSUME FramingInv, NEW t, Agree(input, t, Len(input))
  PROVE  LET next == Len(input) + 1
         IN  /\ Ends(t, start, next) <=> t[next] = "close" /\ ~ in_string /\ depth <= 1
             /\ t[next] = "close" /\ ~ in_string =>
                  Count(t, start, next, "open") + 1 = Count(t, start, next, "close") + depth
<1> DEFINE n == Len(input)
           next == Len(input) + 1
<1>1. /\ n \in Nat /\ start \in Nat \ {0} /\ start <= n + 1 /\ depth \in Nat
  BY DEF FramingInv, LocalsInv
<1>2. /\ in_string <=> InString(t, start, next)
      /\ Count(t, start, n, "open") = Count(t, start, n, "close") + depth
  <2>1. Known(t)
    BY StaysKnown
  <2>2. next - 1 = n
    BY <1>1
  <2> QED  BY <2>1, <2>2 DEF Known
<1>3. ASSUME t[next] = "close", ~ in_string
      PROVE  /\ Count(t, start, next, "open") = Count(t, start, n, "open")
             /\ Count(t, start, next, "close") = Count(t, start, n, "close") + 1
  BY <1>1, <1>2, <1>3, NextCount
<1>4. Count(t, start, n, "open") \in Nat /\ Count(t, start, n, "close") \in Nat
  BY <1>1, NextCount
<1>5. ASSUME t[next] = "close", ~ in_string
      PROVE  /\ Count(t, start, next, "open") + 1 = Count(t, start, next, "close") + depth
             /\ Count(t, start, next, "close") >= Count(t, start, next, "open") <=> depth <= 1
  BY <1>1, <1>2, <1>3, <1>4, <1>5
<1> QED  BY <1>2, <1>5 DEF Ends

LEMMA ReadFacts ==
  ASSUME FramingInv, NEW c \in Byte, Read(c)
  PROVE  /\ input' \in Seq(Byte) /\ Len(input') = Len(input) + 1 /\ Len(input') <= MaxBytes
         /\ Agree(input, input', Len(input)) /\ input'[Len(input) + 1] = c
         /\ errors' \in 0 .. MaxErrors
         /\ start \in 1 .. Len(input) + 1 /\ Len(input) \in Nat /\ depth \in Nat
<1>1. input \in Seq(Byte) /\ MaxBytes \in Nat /\ Len(input) < MaxBytes
  BY BoundsAssumption DEF FramingInv, Read
<1>2. input' = Append(input, c) /\ errors' = errors
  BY DEF Read
<1>3. Len(input) \in Nat
  BY <1>1
<1> QED  BY <1>1, <1>2, <1>3, AppendByte DEF FramingInv, LocalsInv

\* A byte that ends a text: the result is cut where it should be.
LEMMA ReturnsInv ==
  ASSUME FramingInv, Read("close"), ~ in_string, NEW kind \in {"object", "malformed"},
         Returns(kind), depth <= 1, kind = "object" <=> depth = 1
  PROVE  FramingInv'
<1> DEFINE next == Len(input) + 1
           r == [first |-> start, last |-> next, kind |-> kind]
<1>1. /\ input' \in Seq(Byte) /\ Len(input') = next /\ Len(input') <= MaxBytes
      /\ Agree(input, input', Len(input)) /\ input'[next] = "close"
      /\ errors' \in 0 .. MaxErrors
      /\ start \in 1 .. next /\ Len(input) \in Nat /\ depth \in Nat
  BY ReadFacts DEF Byte
<1>2. results' = Append(results, r) /\ NewCall(Len(input') + 1)
  <2>1. Len(input) + 2 = Len(input') + 1
    BY <1>1
  <2> QED  BY <2>1 DEF Returns
<1>3. /\ LocalsInv' /\ escaped' \in BOOLEAN /\ in_string' \in BOOLEAN
      /\ start' .. Len(input') = {}
  BY <1>1, <1>2, NewCallInv
<1>4. Known(input')
  BY <1>1, StaysKnown
<1>5. RightCut(input', r)
  <2>1. Ends(input', start, next)
    BY <1>1, EndsHere
  <2>2. Count(input', start, next, "open") + 1 = Count(input', start, next, "close") + depth
    BY <1>1, EndsHere
  <2>3. Count(input', start, next, "open") \in Nat /\ Count(input', start, next, "close") \in Nat
    BY <1>1, NextCount
  <2>4. kind = "object" <=>
          Count(input', start, next, "close") = Count(input', start, next, "open")
    BY <1>1, <2>2, <2>3
  <2>5. \A i \in start .. next - 1 : ~ Ends(input', start, i)
    BY <1>1, <1>4 DEF Known
  <2> QED  BY <2>1, <2>4, <2>5 DEF RightCut
<1>6. results \in Seq(Result) /\ r \in Result
  <2>1. start \in 1 .. MaxBytes /\ next \in 1 .. MaxBytes
    BY <1>1, BoundsAssumption
  <2> QED  BY <2>1 DEF FramingInv, ResultsInv, Result
<1>7. ASSUME NEW k \in DOMAIN results'
      PROVE  /\ results'[k].first <= results'[k].last /\ results'[k].last <= Len(input')
             /\ RightCut(input', results'[k])
  <2>1. CASE k = Len(results) + 1
    <3>1. results'[k] = r
      BY <1>2, <1>6, <2>1
    <3> QED  BY <1>1, <1>5, <3>1
  <2>2. CASE k # Len(results) + 1
    <3>1. k \in DOMAIN results /\ results'[k] = results[k]
      BY <1>2, <1>6, <1>7, <2>2
    <3>2. /\ results[k].first <= results[k].last /\ results[k].last <= Len(input)
          /\ results[k].last \in Nat
      <4>1. results[k] \in Result
        BY <1>6, <3>1, ElementOfSeq
      <4> QED  BY <3>1, <4>1 DEF FramingInv, ResultsInv, Result
    <3>3. results[k].last <= Len(input')
      BY <1>1, <3>2
    <3> QED  BY <1>4, <3>1, <3>2, <3>3 DEF Known
  <2> QED  BY <2>1, <2>2
<1>8. results' \in Seq(Result)
  BY <1>2, <1>6
<1>9. ResultsInv' /\ CutsAtFirstEnd'
  BY <1>3, <1>7, <1>8 DEF ResultsInv, CutsAtFirstEnd
<1> QED  BY <1>1, <1>3, <1>9 DEF FramingInv

\* A byte that ends no text: the locals follow the definitions.
LEMMA ReadOnInv ==
  ASSUME FramingInv, NEW c \in Byte, ReadOn(c)
  PROVE  FramingInv'
<1> DEFINE next == Len(input) + 1
<1>1. /\ input' \in Seq(Byte) /\ Len(input') = next /\ Len(input') <= MaxBytes
      /\ Agree(input, input', Len(input)) /\ input'[next] = c
      /\ errors' \in 0 .. MaxErrors
      /\ start \in 1 .. next /\ Len(input) \in Nat /\ depth \in Nat
  BY ReadFacts DEF ReadOn
<1>2. /\ ~ (c = "close" /\ ~ in_string /\ depth <= 1)
      /\ depth' = DepthAfter(c)
      /\ in_string' = (IF c = "quote" /\ ~ escaped THEN ~ in_string ELSE in_string)
      /\ escaped' = (c = "backslash" /\ ~ escaped)
      /\ start' = start /\ results' = results
  BY <1>1 DEF ReadOn, Structural
<1>3. escaped \in BOOLEAN /\ in_string \in BOOLEAN /\ depth \in 0 .. next - start
  BY DEF FramingInv, LocalsInv
<1>4. Known(input')
  BY <1>1, StaysKnown
<1>5. PICK k \in start .. next : Run(input', start, k, next) /\ (escaped <=> (next - k) % 2 = 1)
  BY <1>4 DEF Known
<1>6. /\ InString(input', start, next) <=> in_string
      /\ Escaped(input', start, next) <=> escaped
      /\ Count(input', start, Len(input), "open")
           = Count(input', start, Len(input), "close") + depth
  <2>1. next - 1 = Len(input) /\ next \in Nat /\ start \in Nat \ {0}
    BY <1>1
  <2> QED  BY <1>4, <1>5, <2>1, RunDecides DEF Known
<1>7. \E m \in start .. next + 1 :
        Run(input', start, m, next + 1) /\ (escaped' <=> (next + 1 - m) % 2 = 1)
  <2>1. CASE c = "backslash"
    <3>1. Run(input', start, k, next + 1)
      <4>1. ASSUME NEW j \in k .. (next + 1) - 1 PROVE input'[j] = "backslash"
        <5>1. j = next \/ j \in k .. next - 1
          BY <1>1, <1>5
        <5> QED  BY <1>1, <1>5, <2>1, <5>1 DEF Run
      <4>2. k \in start .. next + 1 /\ (k > start => input'[k - 1] # "backslash")
        BY <1>1, <1>5 DEF Run
      <4> QED  BY <4>1, <4>2 DEF Run
    <3>2. escaped' <=> (next + 1 - k) % 2 = 1
      <4>1. next - k \in Nat /\ next + 1 - k = (next - k) + 1
        BY <1>1
      <4>2. (next + 1 - k) % 2 = 1 <=> ~ ((next - k) % 2 = 1)
        BY <4>1, Parity
      <4> QED  BY <1>2, <1>5, <2>1, <4>2
    <3>3. k \in start .. next + 1
      BY <1>1
    <3> QED  BY <3>1, <3>2, <3>3
  <2>2. CASE c # "backslash"
    <3>1. next + 1 \in start .. next + 1 /\ (next + 1) - 1 = next /\ next + 1 - (next + 1) = 0
      BY <1>1
    <3>2. Run(input', start, next + 1, next + 1)
      BY <1>1, <2>2, <3>1 DEF Run
    <3>3. ~ escaped' /\ ~ ((next + 1 - (next + 1)) % 2 = 1)
      <4>1. 0 % 2 = 0
        OBVIOUS
      <4>2. ~ escaped'
        BY <1>2, <2>2
      <4> QED  BY <3>1, <4>1, <4>2
    <3> QED  BY <3>1, <3>2, <3>3
  <2> QED  BY <2>1, <2>2
<1>8. in_string' <=> InString(input', start, next + 1)
  <2>1. InString(input', start, next + 1) <=>
          (InString(input', start, next) <=>
             ~ (input'[next] = "quote" /\ ~ Escaped(input', start, next)))
    <3>1. start \in Nat \ {0} /\ next \in Nat /\ start <= next
      BY <1>1
    <3> HIDE DEF next
    <3> QED  BY <3>1, NextInString
  <2> QED  BY <1>1, <1>2, <1>3, <1>6, <2>1
<1>9. Count(input', start, next, "open") = Count(input', start, next, "close") + depth'
  <2>0. start \in Nat \ {0} /\ Len(input) \in Nat /\ start <= Len(input) + 1
    BY <1>1
  <2>1. ASSUME NEW brace \in {"open", "close"}
        PROVE  /\ Count(input', start, Len(input), brace) \in Nat
               /\ Count(input', start, next, brace) =
                    IF c = brace /\ ~ in_string
                    THEN Count(input', start, Len(input), brace) + 1
                    ELSE Count(input', start, Len(input), brace)
    <3>1. /\ Count(input', start, Len(input), brace) \in Nat
          /\ Count(input', start, Len(input) + 1, brace) =
               IF input'[Len(input) + 1] = brace /\ ~ InString(input', start, Len(input) + 1)
               THEN Count(input', start, Len(input), brace) + 1
               ELSE Count(input', start, Len(input), brace)
      BY <2>0, NextCount
    <3> QED  BY <1>1, <1>6, <3>1
  <2>2. depth' = IF in_string THEN depth
                 ELSE IF c = "open" THEN depth + 1
                 ELSE IF c = "close" THEN depth - 1
                 ELSE depth
    BY <1>2 DEF DepthAfter, Structural
  <2> QED  BY <1>1, <1>6, <2>1, <2>2
<1>10. depth' \in 0 .. next + 1 - start
  <2>1. c = "close" /\ ~ in_string => depth > 1
    BY <1>1, <1>2
  <2> QED  BY <1>1, <1>2, <1>3, <2>1 DEF DepthAfter, Structural
<1>11. LocalsInv'
  <2>1. /\ start' = start /\ Len(input') + 1 = next + 1 /\ (next + 1) - 1 = next
        /\ start \in 1 .. next + 1
    BY <1>1, <1>2
  <2> QED  BY <1>7, <1>8, <1>9, <1>10, <2>1 DEF LocalsInv
<1>12. ResultsInv' /\ CutsAtFirstEnd'
  <2>1. ASSUME NEW m \in DOMAIN results
        PROVE  results[m].first <= results[m].last /\ results[m].last <= Len(input')
    <3>1. results[m] \in Result
      BY ElementOfSeq DEF FramingInv, ResultsInv
    <3>2. results[m].first <= results[m].last /\ results[m].last <= Len(input)
          /\ results[m].last \in Nat
      BY <3>1 DEF FramingInv, ResultsInv, Result
    <3> QED  BY <1>1, <3>2
  <2>2. ~ Ends(input', start, next)
    BY <1>1, <1>2, EndsHere
  <2>3. ASSUME NEW j \in start .. Len(input') PROVE ~ Ends(input', start, j)
    <3>1. j = next \/ j \in start .. Len(input)
      BY <1>1
    <3> QED  BY <1>4, <2>2, <3>1 DEF Known
  <2>4. ResultsInv'
    BY <1>2, <2>1 DEF ResultsInv, FramingInv
  <2>5. CutsAtFirstEnd'
    BY <1>2, <1>4, <2>3 DEF Known, CutsAtFirstEnd
  <2> QED  BY <2>4, <2>5
<1>13. escaped' \in BOOLEAN /\ in_string' \in BOOLEAN
  BY <1>2, <1>3
<1> QED  BY <1>1, <1>11, <1>12, <1>13 DEF FramingInv

LEMMA FramingInvInit == Init => FramingInv
<1> SUFFICES ASSUME Init PROVE FramingInv
  OBVIOUS
<1>1. input = <<>> /\ Len(input) = 0 /\ input \in Seq(Byte) /\ results = <<>>
      /\ results \in Seq(Result)
  BY DEF Init
<1>2. LocalsInv
  <2>1. /\ Run(input, 1, 1, 1) /\ ~ InString(input, 1, 1)
        /\ \A brace : Count(input, 1, 0, brace) = 0
    BY NothingYet
  <2> QED  BY <1>1, <2>1 DEF Init, LocalsInv
<1>3. ResultsInv /\ CutsAtFirstEnd
  <2>1. start .. Len(input) = {} /\ DOMAIN results = {}
    BY <1>1 DEF Init
  <2> QED  BY <1>1, <2>1 DEF ResultsInv, CutsAtFirstEnd
<1>4. /\ Len(input) <= MaxBytes /\ errors \in 0 .. MaxErrors
      /\ escaped \in BOOLEAN /\ in_string \in BOOLEAN
  <2>1. errors = 0 /\ escaped = FALSE /\ in_string = FALSE
    BY DEF Init
  <2>2. 0 <= MaxBytes /\ 0 \in 0 .. MaxErrors
    BY BoundsAssumption
  <2> QED  BY <1>1, <2>1, <2>2
<1> QED  BY <1>1, <1>2, <1>3, <1>4 DEF FramingInv

LEMMA FramingInvStep == FramingInv /\ [Next]_vars => FramingInv'
<1> SUFFICES ASSUME FramingInv, [Next]_vars PROVE FramingInv'
  OBVIOUS
<1>1. CASE UNCHANGED vars
  BY <1>1 DEF vars, FramingInv, LocalsInv, ResultsInv, CutsAtFirstEnd
<1>2. CASE StrayClose
  BY <1>2, ReturnsInv DEF StrayClose, Structural
<1>3. CASE LastClose
  BY <1>3, ReturnsInv DEF LastClose, Structural
<1>4. CASE ReadError
  <2>1. /\ errors' = errors + 1 /\ errors < MaxErrors /\ input' = input /\ results' = results
        /\ NewCall(Len(input') + 1) /\ input \in Seq(Byte)
    BY <1>4 DEF ReadError, FramingInv
  <2>2. /\ LocalsInv' /\ escaped' \in BOOLEAN /\ in_string' \in BOOLEAN
        /\ start' .. Len(input') = {}
    BY <2>1, NewCallInv
  <2>3. ResultsInv' /\ CutsAtFirstEnd'
    BY <2>1, <2>2 DEF FramingInv, ResultsInv, CutsAtFirstEnd
  <2> QED  BY <2>1, <2>2, <2>3, BoundsAssumption DEF FramingInv
<1>5. ASSUME NEW c \in Byte, ReadOn(c) PROVE FramingInv'
  BY <1>5, ReadOnInv
<1> QED  BY <1>1, <1>2, <1>3, <1>4, <1>5 DEF Next

LEMMA FramingInvSuffices == FramingInv => TypeOK /\ CutsAtFirstEnd
<1> SUFFICES ASSUME FramingInv PROVE TypeOK
  BY DEF FramingInv
<1>1. Len(input) \in Nat /\ Len(input) <= MaxBytes /\ start \in 1 .. Len(input) + 1
      /\ depth \in 0 .. Len(input) + 1 - start
  BY DEF FramingInv, LocalsInv
<1>2. start \in 1 .. MaxBytes + 1 /\ depth \in 0 .. MaxBytes
  BY <1>1, BoundsAssumption
<1> QED  BY <1>2 DEF FramingInv, ResultsInv, TypeOK

\* Every variable has its type: the depth does not underflow, also when a message
\* starts with a closing brace (parse: depth, in_string, escaped).
THEOREM TypesHold == Spec => []TypeOK
  BY FramingInvInit, FramingInvStep, FramingInvSuffices, PTL DEF Spec

\* Every result is cut at the first byte at which the text it starts with can
\* end, and no end was passed over in the bytes still buffered: braces in
\* strings, escaped quotes and escaped backslashes do not confuse parse.
THEOREM CommandsAreCutRight == Spec => []CutsAtFirstEnd
  BY FramingInvInit, FramingInvStep, FramingInvSuffices, PTL DEF Spec

=============================================================================
