---------------------------- MODULE Texts_proofs ----------------------------
(***************************************************************************)
(* Proofs about the two texts that the service reads by itself: about      *)
(* EnvSubstitution, for files, names and values of any length, and about   *)
(* LlmResponse, for answers of any content.                                *)
(***************************************************************************)
EXTENDS EnvSubstitution, LlmResponse, SequenceTheorems, WellFoundedInduction, TLAPS

Inv == TypeOK /\ RestIsUntouched

LEMMA InitInv == Init => Inv
<1> SUFFICES ASSUME Init PROVE Inv
  OBVIOUS
<1>1. content \in Seq(Characters)
  BY TextScope DEF Init
<1>2. Len(content) \in Nat
  BY <1>1, LenProperties
<1>3. TypeOK
  <2>1. result \in Seq(Characters) /\ start \in 1 .. Len(result) + 1
    BY <1>1, <1>2 DEF Init
  <2>2. done \in BOOLEAN /\ env \in Environments
    BY DEF Init
  <2> QED
    BY <1>1, <2>1, <2>2 DEF TypeOK
<1>4. result = content /\ start = 1 /\ Unsearched = Len(content)
  BY <1>2 DEF Init, Unsearched
<1>5. RestIsUntouched
  <2>1. \A k \in 1 .. Len(content) : start - 1 + k = k /\ Len(content) - Len(content) + k = k
    BY <1>2, <1>4
  <2> QED
    BY <1>2, <1>4, <2>1 DEF RestIsUntouched
<1> QED
  BY <1>3, <1>5 DEF Inv

\* Where a placeholder is, and what takes its place.
LEMMA Placeholder ==
  ASSUME Inv, NEW begin \in First(Opens(result, start)), NEW end \in First(Closes(result, begin))
  PROVE  /\ begin \in Nat /\ end \in Nat /\ start <= begin
         /\ begin + 2 <= end /\ end <= Len(result) /\ start \in Nat \ {0}
         /\ result \in Seq(Characters) /\ Len(result) \in Nat
         /\ Replacement(begin, end) \in Seq(Characters)
         /\ Len(Replacement(begin, end)) \in Nat
<1>1. result \in Seq(Characters) /\ start \in 1 .. Len(result) + 1
  BY DEF Inv, TypeOK
<1>2. Len(result) \in Nat
  BY <1>1, LenProperties
<1>3. /\ begin \in start .. Len(result) - 1
      /\ result[begin] = "dollar" /\ result[begin + 1] = "left"
  BY DEF First, Opens
<1>4. end \in begin .. Len(result) /\ result[end] = "right"
  BY DEF First, Closes
<1>5. begin # end /\ begin + 1 # end
  BY <1>3, <1>4
<1>6. Replacement(begin, end) \in Seq(Characters)
  <2>1. <<>> \in Seq(Characters)
    OBVIOUS
  <2> QED
    BY <2>1, TextScope DEF Replacement, Value, Inv, TypeOK
<1>7. Len(Replacement(begin, end)) \in Nat
  BY <1>6, LenProperties
<1>8. start \in Nat \ {0}
  BY <1>1, <1>2
<1>9. begin \in Nat /\ start <= begin
  BY <1>2, <1>3, <1>8
<1>10. end \in Nat /\ begin <= end /\ end <= Len(result)
  BY <1>2, <1>4, <1>9
<1>11. begin + 2 <= end
  BY <1>5, <1>9, <1>10
<1> QED
  BY <1>1, <1>2, <1>6, <1>7, <1>8, <1>9, <1>10, <1>11

\* What comes second in a concatenation is moved by the length of what comes first.
LEMMA SecondPart ==
  ASSUME NEW s \in Seq(Characters), NEW t \in Seq(Characters), NEW k \in 1 .. Len(t)
  PROVE  (s \o t)[Len(s) + k] = t[k]
<1>1. Len(s) \in Nat /\ Len(t) \in Nat
  BY LenProperties
<1>2. /\ Len(s) + k \in 1 .. Len(s) + Len(t)
      /\ ~(Len(s) + k <= Len(s)) /\ Len(s) + k - Len(s) = k
  BY <1>1
<1> QED
  BY <1>2, ConcatProperties

LEMMA Joined ==
  ASSUME NEW s \in Seq(Characters), NEW t \in Seq(Characters)
  PROVE  s \o t \in Seq(Characters) /\ Len(s \o t) = Len(s) + Len(t)
BY ConcatProperties

LEMMA FirstPart ==
  ASSUME NEW s \in Seq(Characters), NEW t \in Seq(Characters)
  PROVE  SubSeq(s \o t, 1, Len(s)) = s
<1>1. Len(s) \in Nat /\ Len(t) \in Nat
  BY LenProperties
<1>2. \A k \in 1 .. Len(s) : (s \o t)[k] = s[k] /\ s[k] \in Characters
  BY <1>1, ConcatProperties, ElementOfSeq
<1>3. /\ SubSeq(s \o t, 1, Len(s)) \in Seq(Characters)
      /\ Len(SubSeq(s \o t, 1, Len(s))) = IF 1 <= Len(s) THEN Len(s) - 1 + 1 ELSE 0
      /\ \A k \in 1 .. Len(s) - 1 + 1 : SubSeq(s \o t, 1, Len(s))[k] = (s \o t)[1 + k - 1]
  BY <1>1, <1>2, SubSeqProperties
<1>4. Len(SubSeq(s \o t, 1, Len(s))) = Len(s)
  BY <1>1, <1>3
<1>5. \A k \in 1 .. Len(s) : SubSeq(s \o t, 1, Len(s))[k] = s[k]
  BY <1>1, <1>2, <1>3
<1> QED
  BY <1>3, <1>4, <1>5, SeqEqual

\* The text after a replacement: what was before, the value, what was behind.
LEMMA Edited ==
  ASSUME Inv, NEW begin \in First(Opens(result, start)), NEW end \in First(Closes(result, begin))
  PROVE  LET v == Replacement(begin, end)
             rest == Len(result) - end
         IN  /\ Replaced(begin, end) \in Seq(Characters)
             /\ Len(Replaced(begin, end)) = begin - 1 + Len(v) + rest
             /\ \A k \in 1 .. rest : Replaced(begin, end)[begin - 1 + Len(v) + k] = result[end + k]
             /\ SubSeq(Replaced(begin, end), 1, begin - 1 + Len(v)) = SubSeq(result, 1, begin - 1) \o v
<1> DEFINE v == Replacement(begin, end)
           rest == Len(result) - end
           head == SubSeq(result, 1, begin - 1)
           tail == SubSeq(result, end + 1, Len(result))
           both == head \o v
<1>1. /\ begin \in Nat /\ end \in Nat /\ start <= begin
      /\ begin + 2 <= end /\ end <= Len(result) /\ start \in Nat \ {0}
      /\ result \in Seq(Characters) /\ Len(result) \in Nat
      /\ v \in Seq(Characters) /\ Len(v) \in Nat
  BY Placeholder
<1>2. Replaced(begin, end) = both \o tail
  BY DEF Replaced
<1>3. head \in Seq(Characters) /\ Len(head) = begin - 1
  BY <1>1, SubSeqProperties
<1>4. /\ tail \in Seq(Characters) /\ Len(tail) = rest
      /\ \A k \in 1 .. rest : tail[k] = result[end + k]
  BY <1>1, SubSeqProperties
<1> HIDE DEF v, head, tail
<1>5. both \in Seq(Characters) /\ Len(both) = begin - 1 + Len(v)
  BY <1>1, <1>3, Joined
<1> HIDE DEF both
<1>6. both \o tail \in Seq(Characters) /\ Len(both \o tail) = Len(both) + Len(tail)
  BY <1>4, <1>5, Joined
<1>7. ASSUME NEW k \in 1 .. rest
      PROVE  (both \o tail)[Len(both) + k] = tail[k]
  BY <1>4, <1>5, SecondPart
<1>8. SubSeq(both \o tail, 1, Len(both)) = both
  BY <1>4, <1>5, FirstPart
<1> QED
  BY <1>2, <1>4, <1>5, <1>6, <1>7, <1>8 DEF v, head, both

\* A replacement takes the placeholder, three characters at least, and what is before it
\* away from the text to be searched.
LEMMA ReplaceStep ==
  ASSUME Inv, Replace
  PROVE  /\ TypeOK' /\ RestIsUntouched'
         /\ Unsearched' + 3 <= Unsearched
<1> PICK begin \in First(Opens(result, start)) :
        \E end \in First(Closes(result, begin)) :
            /\ result' = Replaced(begin, end)
            /\ start' = begin + Len(Replacement(begin, end))
            /\ UNCHANGED <<env, content, done>>
  BY DEF Replace
<1>1. PICK end \in First(Closes(result, begin)) :
        /\ result' = Replaced(begin, end)
        /\ start' = begin + Len(Replacement(begin, end))
        /\ UNCHANGED <<env, content, done>>
  OBVIOUS
<1> DEFINE v == Replacement(begin, end)
           rest == Len(result) - end
<1>2. /\ begin \in Nat /\ end \in Nat /\ start <= begin
      /\ begin + 2 <= end /\ end <= Len(result) /\ start \in Nat \ {0}
      /\ result \in Seq(Characters) /\ Len(result) \in Nat
      /\ v \in Seq(Characters) /\ Len(v) \in Nat
  BY Placeholder
<1>3. /\ result' \in Seq(Characters)
      /\ Len(result') = begin - 1 + Len(v) + rest
      /\ \A k \in 1 .. rest : result'[begin - 1 + Len(v) + k] = result[end + k]
  BY <1>1, Edited
<1>4. start' = begin + Len(v)
  BY <1>1
<1> HIDE DEF v
<1>5. Unsearched' = rest /\ rest \in Nat /\ Unsearched \in Nat /\ rest + 3 <= Unsearched
  <2>1. Len(result') = begin - 1 + Len(v) + rest
    BY <1>3
  <2>2. Unsearched' = Len(result') - start' + 1 /\ Unsearched = Len(result) - start + 1
    BY DEF Unsearched
  <2> QED
    BY <1>2, <1>4, <2>1, <2>2
<1>6. TypeOK'
  BY <1>1, <1>2, <1>3, <1>4 DEF Inv, TypeOK
<1>7. RestIsUntouched'
  <2>1. content \in Seq(Characters) /\ Len(content) \in Nat
    BY LenProperties DEF Inv, TypeOK
  <2>2. Unsearched <= Len(content)
    BY <1>5, <2>1 DEF Inv, RestIsUntouched
  <2>3. ASSUME NEW k \in 1 .. rest
        PROVE  result'[begin - 1 + Len(v) + k] = content[Len(content) - rest + k]
    <3> DEFINE j == Unsearched - rest + k
    <3>1. /\ j \in 1 .. Unsearched
          /\ start - 1 + j = end + k
          /\ Len(content) - Unsearched + j = Len(content) - rest + k
      BY <1>2, <1>5, <2>1 DEF Unsearched
    <3> HIDE DEF j
    <3>2. result[start - 1 + j] = content[Len(content) - Unsearched + j]
      BY <3>1 DEF Inv, RestIsUntouched
    <3> QED
      BY <1>3, <3>1, <3>2
  <2>4. start' - 1 = begin - 1 + Len(v)
    BY <1>2, <1>4
  <2> QED
    BY <1>1, <1>5, <2>1, <2>2, <2>3, <2>4 DEF RestIsUntouched
<1> QED
  BY <1>5, <1>6, <1>7

LEMMA StepInv == Inv /\ [Next]_vars => Inv'
<1> SUFFICES ASSUME Inv, [Next]_vars PROVE Inv'
  OBVIOUS
<1>1. CASE Replace
  BY <1>1, ReplaceStep DEF Inv
<1>2. CASE Stop
  BY <1>2 DEF Stop, Inv, TypeOK, RestIsUntouched, Unsearched
<1>3. CASE UNCHANGED vars
  BY <1>3 DEF vars, Inv, TypeOK, RestIsUntouched, Unsearched
<1> QED
  BY <1>1, <1>2, <1>3 DEF Next

LEMMA Invariance == Spec => []Inv
  BY InitInv, StepInv, PTL DEF Spec

\* The text stays one, and the search within it.
THEOREM TypeCorrect == Spec => []TypeOK
<1>1. Inv => TypeOK
  BY DEF Inv
<1> QED
  BY <1>1, Invariance, PTL

\* No value is ever searched for placeholders.
THEOREM ValuesAreNotSearched == Spec => []RestIsUntouched
<1>1. Inv => RestIsUntouched
  BY DEF Inv
<1> QED
  BY <1>1, Invariance, PTL

\* What is left to search shrinks with every pass: the loop ends.
THEOREM SearchEnds == Spec => SearchAdvances
<1>1. Inv /\ [Next]_vars => [done' \/ Unsearched' + 3 <= Unsearched]_vars
  BY ReplaceStep DEF Next, Stop
<1> QED
  BY <1>1, Invariance, PTL DEF Spec, SearchAdvances

-----------------------------------------------------------------------------
\* The expansion of a text.  It is a recursive function: that it exists, and what it is, is
\* proved by least counterexamples, from the well-foundedness of < on the naturals.

Below == {ss \in Nat \X Nat : ss[1] < ss[2]}

LEMMA LeastElement ==
  ASSUME NEW T \in SUBSET Nat, T # {}
  PROVE  \E x \in T : \A y \in T : x <= y
<1>1. IsWellFoundedOn(Below, Nat)
  BY NatLessThanWellFounded DEF OpToRel, Below
<1>2. PICK x \in T : \A y \in T : ~ (<<y, x>> \in Below)
  BY <1>1, WFMin
<1>3. \A y \in T : ~ (y < x)
  BY <1>2 DEF Below
<1> QED
  BY <1>3

\* The parts of Expansion, with the environment as a parameter.
ValueIn(e, name) == IF name \in DOMAIN e THEN e[name] ELSE <<>>
IsPlaceholder(text, i) == i \in Opens(text, i) /\ Closes(text, i) # {}
EndOf(text, i) == CHOOSE k \in Closes(text, i) : k \in First(Closes(text, i))
ExpandedAt(e, text, g, i) ==
    IF i > Len(text) THEN <<>>
    ELSE IF IsPlaceholder(text, i)
    THEN ValueIn(e, SubSeq(text, i + 2, EndOf(text, i) - 1)) \o g[EndOf(text, i) + 1]
    ELSE <<text[i]>> \o g[i + 1]
From(e, text) == CHOOSE g : g = [i \in 1 .. Len(text) + 1 |-> ExpandedAt(e, text, g, i)]

LEMMA ExpansionIsFrom == ASSUME NEW text PROVE Expansion(text) = From(env, text)[1]
BY DEF Expansion, From, ExpandedAt, IsPlaceholder, EndOf, ValueIn, Value

LEMMA FirstIsOne ==
  ASSUME NEW P \in SUBSET Nat, P # {}
  PROVE  \E k \in P : First(P) = {k}
<1>1. PICK k \in P : \A j \in P : k <= j
  BY LeastElement
<1>2. \A j \in First(P) : j = k
  BY <1>1 DEF First
<1> QED
  BY <1>1, <1>2 DEF First

LEMMA EndIsFirst ==
  ASSUME NEW text \in Seq(Characters), NEW i \in 1 .. Len(text), IsPlaceholder(text, i)
  PROVE  /\ First(Closes(text, i)) = {EndOf(text, i)}
         /\ EndOf(text, i) \in Closes(text, i)
         /\ EndOf(text, i) \in i + 2 .. Len(text)
<1>1. Len(text) \in Nat
  BY LenProperties
<1>2. Closes(text, i) \subseteq Nat /\ Closes(text, i) # {}
  BY <1>1 DEF Closes, IsPlaceholder
<1>3. PICK k \in Closes(text, i) : First(Closes(text, i)) = {k}
  BY <1>2, FirstIsOne
<1>4. EndOf(text, i) = k
  BY <1>3 DEF EndOf
<1>5. text[i] = "dollar" /\ text[i + 1] = "left"
  BY DEF IsPlaceholder, Opens
<1>6. k \in i .. Len(text) /\ text[k] = "right"
  BY DEF Closes
<1>7. k # i /\ k # i + 1
  BY <1>5, <1>6
<1>8. k \in i + 2 .. Len(text)
  BY <1>1, <1>6, <1>7
<1> QED
  BY <1>3, <1>4, <1>8

LEMMA ValueIsText ==
  ASSUME NEW e \in Environments, NEW name
  PROVE  ValueIn(e, name) \in Seq(Characters)
<1>1. <<>> \in Seq(Characters)
  BY EmptySeq
<1> QED
  BY <1>1, TextScope DEF ValueIn

\* A character is followed by what stands behind it, a placeholder by what stands behind its end.
LEMMA ExpandedType ==
  ASSUME NEW e \in Environments, NEW text \in Seq(Characters), NEW g,
         NEW i \in 1 .. Len(text) + 1,
         \A j \in i + 1 .. Len(text) + 1 : g[j] \in Seq(Characters)
  PROVE  ExpandedAt(e, text, g, i) \in Seq(Characters)
<1>1. Len(text) \in Nat
  BY LenProperties
<1>2. CASE i > Len(text)
  BY <1>2, EmptySeq DEF ExpandedAt
<1>3. CASE ~(i > Len(text)) /\ IsPlaceholder(text, i)
  <2>1. i \in 1 .. Len(text)
    BY <1>1, <1>3
  <2>2. EndOf(text, i) + 1 \in i + 1 .. Len(text) + 1
    BY <1>1, <1>3, <2>1, EndIsFirst
  <2> DEFINE v == ValueIn(e, SubSeq(text, i + 2, EndOf(text, i) - 1))
  <2>3. v \in Seq(Characters) /\ g[EndOf(text, i) + 1] \in Seq(Characters)
    BY <2>2, ValueIsText
  <2>4. ExpandedAt(e, text, g, i) = v \o g[EndOf(text, i) + 1]
    BY <1>3 DEF ExpandedAt
  <2> HIDE DEF v
  <2> QED
    BY <2>3, <2>4, ConcatProperties
<1>4. CASE ~(i > Len(text)) /\ ~ IsPlaceholder(text, i)
  <2>1. i \in 1 .. Len(text) /\ i + 1 \in i + 1 .. Len(text) + 1
    BY <1>1, <1>4
  <2>2. <<text[i]>> \in Seq(Characters)
    BY <2>1, ElementOfSeq
  <2>3. ExpandedAt(e, text, g, i) = <<text[i]>> \o g[i + 1]
    BY <1>4 DEF ExpandedAt
  <2> QED
    BY <2>1, <2>2, <2>3, ConcatProperties
<1> QED
  BY <1>2, <1>3, <1>4

LEMMA ExpandedLater ==
  ASSUME NEW text \in Seq(Characters), NEW e, NEW g, NEW h, NEW i \in 1 .. Len(text) + 1,
         \A j \in i + 1 .. Len(text) + 1 : g[j] = h[j]
  PROVE  ExpandedAt(e, text, g, i) = ExpandedAt(e, text, h, i)
<1>1. Len(text) \in Nat
  BY LenProperties
<1>2. CASE i > Len(text)
  BY <1>2 DEF ExpandedAt
<1>3. CASE ~(i > Len(text)) /\ IsPlaceholder(text, i)
  <2>1. i \in 1 .. Len(text)
    BY <1>1, <1>3
  <2>2. EndOf(text, i) + 1 \in i + 1 .. Len(text) + 1
    BY <1>1, <1>3, <2>1, EndIsFirst
  <2> QED
    BY <1>3, <2>2 DEF ExpandedAt
<1>4. CASE ~(i > Len(text)) /\ ~ IsPlaceholder(text, i)
  <2>1. i + 1 \in i + 1 .. Len(text) + 1
    BY <1>1, <1>4
  <2> QED
    BY <1>4, <2>1 DEF ExpandedAt
<1> QED
  BY <1>2, <1>3, <1>4

LEMMA FromExists ==
  ASSUME NEW e \in Environments, NEW text \in Seq(Characters)
  PROVE  From(e, text) = [i \in 1 .. Len(text) + 1 |-> ExpandedAt(e, text, From(e, text), i)]
<1> DEFINE n == Len(text)
           Texts == [1 .. n + 1 -> Seq(Characters)]
           Solves(g, m) == \A i \in 1 .. n + 1 : i + m > n + 1 => g[i] = ExpandedAt(e, text, g, i)
           bad == {m \in 0 .. n + 1 : ~ \E g \in Texts : Solves(g, m)}
<1>1. n \in Nat
  BY LenProperties
<1> HIDE DEF n
<1>2. bad = {}
  <2> SUFFICES ASSUME bad # {} PROVE FALSE
    OBVIOUS
  <2>1. bad \in SUBSET Nat
    BY <1>1
  <2>2. PICK m \in bad : \A k \in bad : m <= k
    BY <2>1, LeastElement
  <2>3. m \in 0 .. n + 1 /\ ~ \E g \in Texts : Solves(g, m)
    OBVIOUS
  <2>4. CASE m = 0
    <3> DEFINE g == [i \in 1 .. n + 1 |-> <<>>]
    <3>1. g \in Texts
      BY EmptySeq
    <3>2. Solves(g, m)
      BY <1>1, <2>4
    <3> QED
      BY <2>3, <3>1, <3>2
  <2>5. CASE m # 0
    <3>1. m - 1 \in 0 .. n + 1 /\ ~(m <= m - 1)
      BY <1>1, <2>3, <2>5
    <3>2. m - 1 \notin bad
      BY <2>2, <3>1
    <3>3. PICK g \in Texts : Solves(g, m - 1)
      BY <3>1, <3>2
    <3> DEFINE p == n + 2 - m
               x == ExpandedAt(e, text, g, p)
               h == [g EXCEPT ![p] = x]
    <3>4. p \in 1 .. n + 1 /\ \A i \in 1 .. n + 1 : i + m > n + 1 => i = p \/ i + (m - 1) > n + 1
      BY <1>1, <2>3, <2>5
    <3>5. x \in Seq(Characters)
      <4>1. \A j \in p + 1 .. n + 1 : g[j] \in Seq(Characters)
        BY <1>1, <3>4
      <4> QED
        BY <3>4, <4>1, ExpandedType DEF n
    <3>6. \A i \in 1 .. n + 1 : h[i] = IF i = p THEN x ELSE g[i]
      OBVIOUS
    <3>7. h \in Texts
      BY <3>5
    <3> HIDE DEF h
    <3>8. ASSUME NEW i \in 1 .. n + 1, i + m > n + 1 PROVE h[i] = ExpandedAt(e, text, h, i)
      <4>1. i >= p
        BY <1>1, <2>3, <3>8
      <4>2. \A j \in i + 1 .. n + 1 : g[j] = h[j]
        BY <1>1, <3>4, <3>6, <4>1
      <4>3. ExpandedAt(e, text, g, i) = ExpandedAt(e, text, h, i)
        BY <4>2, ExpandedLater DEF n
      <4>4. CASE i = p
        BY <3>6, <4>3, <4>4
      <4>5. CASE i # p
        BY <3>3, <3>4, <3>6, <3>8, <4>3, <4>5
      <4> QED
        BY <4>4, <4>5
    <3> QED
      BY <2>3, <3>7, <3>8
  <2> QED
    BY <2>4, <2>5
<1>3. n + 1 \in 0 .. n + 1
  BY <1>1
<1>4. PICK g \in Texts : Solves(g, n + 1)
  BY <1>2, <1>3
<1>5. \A i \in 1 .. n + 1 : i + (n + 1) > n + 1
  BY <1>1
<1>6. g = [i \in 1 .. n + 1 |-> ExpandedAt(e, text, g, i)]
  BY <1>4, <1>5
<1> QED
  BY <1>6 DEF From, n

LEMMA FromType ==
  ASSUME NEW e \in Environments, NEW text \in Seq(Characters)
  PROVE  From(e, text) \in [1 .. Len(text) + 1 -> Seq(Characters)]
<1> DEFINE n == Len(text)
           f == From(e, text)
           bad == {d \in 0 .. n : f[n + 1 - d] \notin Seq(Characters)}
<1>1. n \in Nat
  BY LenProperties
<1>2. f = [i \in 1 .. n + 1 |-> ExpandedAt(e, text, f, i)]
  BY FromExists
<1> HIDE DEF f, n
<1>3. bad = {}
  <2> SUFFICES ASSUME bad # {} PROVE FALSE
    OBVIOUS
  <2>1. bad \in SUBSET Nat
    BY <1>1
  <2>2. PICK d \in bad : \A k \in bad : d <= k
    BY <2>1, LeastElement
  <2> DEFINE i == n + 1 - d
  <2>3. i \in 1 .. n + 1 /\ f[i] \notin Seq(Characters)
    BY <1>1
  <2>4. ASSUME NEW j \in i + 1 .. n + 1 PROVE f[j] \in Seq(Characters)
    <3>1. n + 1 - j \in 0 .. n /\ ~(d <= n + 1 - j) /\ n + 1 - (n + 1 - j) = j
      BY <1>1, <2>3
    <3>2. n + 1 - j \notin bad
      BY <2>2, <3>1
    <3> QED
      BY <3>1, <3>2
  <2>5. ExpandedAt(e, text, f, i) \in Seq(Characters)
    BY <2>3, <2>4, ExpandedType DEF n
  <2> QED
    BY <1>2, <2>3, <2>5
<1>4. \A i \in 1 .. n + 1 : n + 1 - i \in 0 .. n /\ n + 1 - (n + 1 - i) = i
  BY <1>1
<1>5. \A i \in 1 .. n + 1 : f[i] \in Seq(Characters)
  BY <1>3, <1>4
<1> QED
  BY <1>2, <1>5 DEF f, n

LEMMA Assoc ==
  ASSUME NEW s \in Seq(Characters), NEW t \in Seq(Characters), NEW u \in Seq(Characters)
  PROVE  (s \o t) \o u = s \o (t \o u)
<1> DEFINE a == (s \o t) \o u
           b == s \o (t \o u)
<1>1. /\ s \o t \in Seq(Characters) /\ t \o u \in Seq(Characters)
      /\ Len(s) \in Nat /\ Len(t) \in Nat /\ Len(u) \in Nat
      /\ Len(s \o t) = Len(s) + Len(t) /\ Len(t \o u) = Len(t) + Len(u)
  BY ConcatProperties, LenProperties
<1>2. /\ a \in Seq(Characters) /\ b \in Seq(Characters)
      /\ Len(a) = Len(s) + Len(t) + Len(u) /\ Len(b) = Len(s) + (Len(t) + Len(u))
  BY <1>1, ConcatProperties
<1>3. ASSUME NEW i \in 1 .. Len(a) PROVE a[i] = b[i]
  BY <1>1, <1>2, ConcatProperties
<1> QED
  BY <1>1, <1>2, <1>3, SeqEqual

\* Text without a placeholder is copied.
LEMMA Copied ==
  ASSUME NEW e \in Environments, NEW text \in Seq(Characters),
         NEW p \in 1 .. Len(text) + 1, NEW q \in p .. Len(text) + 1,
         \A i \in p .. q - 1 : ~ IsPlaceholder(text, i)
  PROVE  From(e, text)[p] = SubSeq(text, p, q - 1) \o From(e, text)[q]
<1> DEFINE n == Len(text)
           f == From(e, text)
           bad == {d \in 0 .. q - p : f[q - d] # SubSeq(text, q - d, q - 1) \o f[q]}
<1>1. n \in Nat /\ p \in 1 .. n + 1 /\ q \in p .. n + 1
  BY LenProperties
<1>2. /\ f = [i \in 1 .. n + 1 |-> ExpandedAt(e, text, f, i)]
      /\ f \in [1 .. n + 1 -> Seq(Characters)]
  BY FromExists, FromType
<1>3. text \in Seq(Characters) /\ \A i \in 1 .. n : text[i] \in Characters
  BY ElementOfSeq
<1> HIDE DEF f, n
<1>4. bad = {}
  <2> SUFFICES ASSUME bad # {} PROVE FALSE
    OBVIOUS
  <2>1. bad \in SUBSET Nat
    BY <1>1
  <2>2. PICK d \in bad : \A k \in bad : d <= k
    BY <2>1, LeastElement
  <2>3. q \in 1 .. n + 1 /\ f[q] \in Seq(Characters)
    BY <1>1, <1>2
  <2>4. CASE d = 0
    <3>1. SubSeq(text, q, q - 1) = <<>>
      BY <1>1, SubSeqEmpty
    <3>2. <<>> \o f[q] = f[q]
      BY <2>3, ConcatEmptySeq
    <3>3. q - 0 = q
      BY <1>1
    <3> QED
      BY <2>2, <2>4, <3>1, <3>2, <3>3
  <2>5. CASE d # 0
    <3> DEFINE i == q - d
               rest == SubSeq(text, i + 1, q - 1)
    <3>1. /\ i \in p .. q - 1 /\ i \in 1 .. n /\ i \in 1 .. n + 1 /\ ~(i > n)
          /\ d - 1 \in 0 .. q - p /\ ~(d <= d - 1) /\ q - (d - 1) = i + 1
          /\ q - 1 \in i .. n
      BY <1>1, <2>5
    <3>2. f[i + 1] = rest \o f[q]
      BY <2>2, <3>1
    <3>3. f[i] = <<text[i]>> \o f[i + 1]
      <4>1. ~ IsPlaceholder(text, i)
        BY <3>1
      <4>2. ExpandedAt(e, text, f, i) = <<text[i]>> \o f[i + 1]
        BY <3>1, <4>1 DEF ExpandedAt, n
      <4> QED
        BY <1>2, <3>1, <4>2
    <3>4. <<text[i]>> \in Seq(Characters) /\ rest \in Seq(Characters)
      <4>1. \A k \in i + 1 .. q - 1 : text[k] \in Characters
        BY <1>1, <1>3, <3>1
      <4>2. i + 1 \in Int /\ q - 1 \in Int
        BY <1>1, <3>1
      <4>3. rest \in Seq(Characters)
        BY <4>1, <4>2, SubSeqProperties
      <4> QED
        BY <1>3, <3>1, <4>3
    <3>5. SubSeq(text, i, q - 1) = <<text[i]>> \o rest
      BY <1>3, <3>1, SubSeqRecursiveFirst DEF n
    <3> DEFINE head == <<text[i]>>
    <3> HIDE DEF rest, i, head
    <3>6. (head \o rest) \o f[q] = head \o (rest \o f[q])
      BY <2>3, <3>4, Assoc DEF head
    <3>7. f[i] = SubSeq(text, i, q - 1) \o f[q]
      BY <3>2, <3>3, <3>5, <3>6 DEF head
    <3> QED
      BY <2>2, <3>7 DEF i
  <2> QED
    BY <2>4, <2>5
<1>5. q - p \in 0 .. q - p /\ q - (q - p) = p
  BY <1>1
<1> QED
  BY <1>4, <1>5 DEF f, n

LEMMA FromEnd ==
  ASSUME NEW e \in Environments, NEW text \in Seq(Characters)
  PROVE  From(e, text)[Len(text) + 1] = <<>>
<1>1. Len(text) \in Nat
  BY LenProperties
<1>2. Len(text) + 1 \in 1 .. Len(text) + 1 /\ Len(text) + 1 > Len(text)
  BY <1>1
<1>3. From(e, text)[Len(text) + 1] = ExpandedAt(e, text, From(e, text), Len(text) + 1)
  BY <1>2, FromExists
<1> QED
  BY <1>2, <1>3 DEF ExpandedAt

\* Between the place where a search begins and the placeholder it finds there is none.
LEMMA NoneBefore ==
  ASSUME NEW text \in Seq(Characters), NEW p \in Nat, NEW q \in Nat,
         \A k \in p .. q - 1 : k \notin Opens(text, p)
  PROVE  \A k \in p .. q - 1 : ~ IsPlaceholder(text, k)
<1>1. Len(text) \in Nat
  BY LenProperties
<1> QED
  BY <1>1 DEF Opens, IsPlaceholder

-----------------------------------------------------------------------------
\* The loop keeps: what it has written, and the expansion of what it has not searched.

Rest == Len(content) - Unsearched + 1
Searched == SubSeq(result, 1, start - 1)

ExpandedSoFar == Searched \o From(env, content)[Rest] = From(env, content)[1]
DoneIsExpansion == done => result = From(env, content)[1]
ExpansionInv == (~done => ExpandedSoFar) /\ DoneIsExpansion

\* The parts of the text at the point where the search stands.
LEMMA Parts ==
  ASSUME Inv
  PROVE  /\ env \in Environments
         /\ content \in Seq(Characters) /\ Len(content) \in Nat
         /\ result \in Seq(Characters) /\ Len(result) \in Nat
         /\ start \in 1 .. Len(result) + 1 /\ Rest \in 1 .. Len(content) + 1
         /\ Len(result) - start = Len(content) - Rest
         /\ \A k \in Nat : start <= k /\ k <= Len(result) => result[k] = content[k - start + Rest]
<1>1. /\ env \in Environments /\ content \in Seq(Characters) /\ result \in Seq(Characters)
      /\ start \in 1 .. Len(result) + 1
  BY DEF Inv, TypeOK
<1>2. Len(content) \in Nat /\ Len(result) \in Nat
  BY <1>1, LenProperties
<1>3. Unsearched \in 0 .. Len(content)
  BY DEF Inv, RestIsUntouched
<1>4. Rest \in 1 .. Len(content) + 1 /\ Len(result) - start = Len(content) - Rest
  BY <1>1, <1>2, <1>3 DEF Rest, Unsearched
<1>5. ASSUME NEW k \in Nat, start <= k, k <= Len(result)
      PROVE  result[k] = content[k - start + Rest]
  <2> DEFINE j == k - start + 1
  <2>1. /\ j \in 1 .. Unsearched /\ start - 1 + j = k
        /\ Len(content) - Unsearched + j = k - start + Rest
    BY <1>1, <1>2, <1>3, <1>5 DEF Rest, Unsearched
  <2> HIDE DEF j
  <2>2. result[start - 1 + j] = content[Len(content) - Unsearched + j]
    BY <2>1 DEF Inv, RestIsUntouched
  <2> QED
    BY <2>1, <2>2
<1> QED
  BY <1>1, <1>2, <1>4, <1>5

LEMMA InitExpansion == Init => ExpansionInv
<1> SUFFICES ASSUME Init PROVE ExpansionInv
  OBVIOUS
<1>1. Inv
  BY InitInv
<1>2. Rest = 1 /\ start = 1 /\ ~done
  BY <1>1, Parts DEF Init, Rest, Unsearched
<1>3. Searched = <<>>
  BY <1>2, SubSeqEmpty DEF Searched
<1>4. From(env, content)[1] \in Seq(Characters)
  <2>1. 1 \in 1 .. Len(content) + 1
    BY <1>1, Parts
  <2>2. From(env, content) \in [1 .. Len(content) + 1 -> Seq(Characters)]
    BY <1>1, Parts, FromType
  <2> QED
    BY <2>1, <2>2
<1> QED
  BY <1>2, <1>3, <1>4, ConcatEmptySeq DEF ExpansionInv, ExpandedSoFar, DoneIsExpansion

\* A piece of the text that has not been searched is the same piece of the file.
LEMMA SamePiece ==
  ASSUME Inv, NEW a \in Nat, NEW b \in Int, start <= a, b <= Len(result)
  PROVE  /\ SubSeq(result, a, b) \in Seq(Characters)
         /\ SubSeq(result, a, b) = SubSeq(content, a - start + Rest, b - start + Rest)
<1> DEFINE a1 == a - start + Rest
           b1 == b - start + Rest
           s == SubSeq(result, a, b)
           t == SubSeq(content, a1, b1)
<1>1. /\ start \in Nat \ {0} /\ Rest \in Nat \ {0} /\ Len(content) \in Nat /\ Len(result) \in Nat
      /\ result \in Seq(Characters) /\ content \in Seq(Characters)
      /\ Len(result) - start = Len(content) - Rest
  BY Parts
<1>2. /\ a1 \in Nat /\ 1 <= a1 /\ b1 \in Int /\ b1 <= Len(content)
      /\ b1 - a1 = b - a /\ (a <= b <=> a1 <= b1)
  BY <1>1
<1>3. \A k \in a .. b : k \in 1 .. Len(result) /\ result[k] \in Characters
  BY <1>1, ElementOfSeq
<1>4. \A k \in a1 .. b1 : k \in 1 .. Len(content) /\ content[k] \in Characters
  BY <1>1, <1>2, ElementOfSeq
<1>5. /\ s \in Seq(Characters) /\ Len(s) = IF a <= b THEN b - a + 1 ELSE 0
      /\ \A k \in 1 .. b - a + 1 : s[k] = result[a + k - 1]
  BY <1>3, SubSeqProperties
<1>6. /\ t \in Seq(Characters) /\ Len(t) = IF a1 <= b1 THEN b1 - a1 + 1 ELSE 0
      /\ \A k \in 1 .. b1 - a1 + 1 : t[k] = content[a1 + k - 1]
  BY <1>2, <1>4, SubSeqProperties
<1>7. Len(s) = Len(t)
  BY <1>2, <1>5, <1>6
<1>8. ASSUME NEW k \in 1 .. Len(s) PROVE s[k] = t[k]
  <2>1. /\ a <= b /\ k \in 1 .. b - a + 1 /\ k \in 1 .. b1 - a1 + 1
        /\ a + k - 1 \in Nat /\ start <= a + k - 1 /\ a + k - 1 <= Len(result)
        /\ (a + k - 1) - start + Rest = a1 + k - 1
    BY <1>1, <1>2, <1>5
  <2>2. result[a + k - 1] = content[(a + k - 1) - start + Rest]
    BY <2>1, Parts
  <2> QED
    BY <1>5, <1>6, <2>1, <2>2
<1> HIDE DEF s, t
<1>9. s = t
  BY <1>5, <1>6, <1>7, <1>8, SeqEqual
<1> QED
  BY <1>5, <1>9 DEF s, t

\* The search in the text finds what a search in the file would find.
LEMMA SamePlaces ==
  ASSUME Inv, NEW k \in Nat, start <= k, k <= Len(result)
  PROVE  /\ k - start + Rest \in Rest .. Len(content)
         /\ k \in Opens(result, start) <=> k - start + Rest \in Opens(content, Rest)
         /\ \A j \in Nat : j \in Closes(result, k) <=>
              j - start + Rest \in Closes(content, k - start + Rest)
<1> DEFINE moved(j) == j - start + Rest
<1>1. /\ start \in Nat \ {0} /\ Rest \in Nat \ {0} /\ Len(content) \in Nat /\ Len(result) \in Nat
      /\ Len(result) - start = Len(content) - Rest
      /\ \A j \in Nat : start <= j /\ j <= Len(result) => result[j] = content[moved(j)]
  BY Parts
<1>2. moved(k) \in Rest .. Len(content)
  BY <1>1
<1>3. k \in Opens(result, start) <=> moved(k) \in Opens(content, Rest)
  <2>1. result[k] = content[moved(k)]
    BY <1>1
  <2>2. k <= Len(result) - 1 => result[k + 1] = content[moved(k) + 1]
    <3>1. k + 1 \in Nat /\ start <= k + 1 /\ moved(k + 1) = moved(k) + 1
      BY <1>1
    <3>2. k <= Len(result) - 1 => k + 1 <= Len(result)
      BY <1>1
    <3> QED
      BY <1>1, <3>1, <3>2
  <2>3. /\ k \in start .. Len(result) - 1 <=> moved(k) \in Rest .. Len(content) - 1
        /\ k \in start .. Len(result) - 1 => k <= Len(result) - 1
    BY <1>1
  <2> HIDE DEF moved
  <2> QED
    BY <2>1, <2>2, <2>3 DEF Opens
<1>4. ASSUME NEW j \in Nat
      PROVE  j \in Closes(result, k) <=> moved(j) \in Closes(content, moved(k))
  <2>1. j \in k .. Len(result) <=> moved(j) \in moved(k) .. Len(content)
    BY <1>1
  <2>2. j \in k .. Len(result) => result[j] = content[moved(j)]
    BY <1>1
  <2> HIDE DEF moved
  <2> QED
    BY <2>1, <2>2 DEF Closes
<1> QED
  BY <1>2, <1>3, <1>4

\* The placeholder that is replaced is the next one of the file.
LEMMA NextPlaceholder ==
  ASSUME Inv, NEW begin \in First(Opens(result, start)), NEW end \in First(Closes(result, begin))
  PROVE  LET q == begin - start + Rest
         IN  /\ q \in Rest .. Len(content) /\ q \in 1 .. Len(content)
             /\ \A k \in Rest .. q - 1 : ~ IsPlaceholder(content, k)
             /\ IsPlaceholder(content, q)
             /\ EndOf(content, q) = end - start + Rest
<1> DEFINE q == begin - start + Rest
           last == end - start + Rest
<1>1. /\ start \in Nat \ {0} /\ Rest \in Nat \ {0} /\ Len(content) \in Nat /\ Len(result) \in Nat
      /\ Len(result) - start = Len(content) - Rest /\ content \in Seq(Characters)
  BY Parts
<1>2. /\ begin \in Nat /\ end \in Nat /\ start <= begin /\ begin + 2 <= end /\ end <= Len(result)
  BY Placeholder
<1>3. q \in Rest .. Len(content) /\ q \in 1 .. Len(content) /\ q \in Nat
  BY <1>1, <1>2
<1>4. q \in Opens(content, q) /\ last \in Closes(content, q)
  <2>1. begin \in Opens(result, start) /\ end \in Closes(result, begin)
    BY DEF First
  <2>2. begin <= Len(result)
    BY <1>1, <1>2
  <2>3. q \in Opens(content, Rest) /\ last \in Closes(content, q)
    BY <1>2, <2>1, <2>2, SamePlaces
  <2> QED
    BY <1>1, <1>3, <2>3 DEF Opens
<1>5. IsPlaceholder(content, q)
  BY <1>4 DEF IsPlaceholder
<1>6. EndOf(content, q) = last
  <2>1. First(Closes(content, q)) = {EndOf(content, q)}
    BY <1>1, <1>3, <1>5, EndIsFirst
  <2>2. ASSUME NEW j \in Closes(content, q) PROVE last <= j
    <3> DEFINE k == j - Rest + start
    <3>1. j \in q .. Len(content)
      BY DEF Closes
    <3>2. k \in Nat /\ k - start + Rest = j /\ begin <= Len(result)
      BY <1>1, <1>2, <3>1
    <3>3. k \in Closes(result, begin)
      BY <1>2, <3>2, SamePlaces
    <3>4. end <= k
      BY <3>3 DEF First
    <3> QED
      BY <1>1, <1>2, <3>1, <3>4
  <2>3. last \in First(Closes(content, q))
    BY <1>4, <2>2 DEF First
  <2> QED
    BY <2>1, <2>3
<1>7. \A k \in Rest .. q - 1 : ~ IsPlaceholder(content, k)
  <2>1. ASSUME NEW k \in Rest .. q - 1, k \in Opens(content, Rest) PROVE FALSE
    <3> DEFINE j == k - Rest + start
    <3>1. j \in Nat /\ start <= j /\ j <= Len(result) /\ j - start + Rest = k /\ ~(begin <= j)
      BY <1>1, <1>2
    <3>2. j \in Opens(result, start)
      BY <2>1, <3>1, SamePlaces
    <3> QED
      BY <3>1, <3>2 DEF First
  <2> QED
    BY <1>1, <1>3, <2>1, NoneBefore
<1> QED
  BY <1>3, <1>5, <1>6, <1>7

LEMMA FourParts ==
  ASSUME NEW s \in Seq(Characters), NEW t \in Seq(Characters), NEW u \in Seq(Characters),
         NEW w \in Seq(Characters)
  PROVE  ((s \o t) \o u) \o w = s \o (t \o (u \o w))
<1>1. ASSUME NEW st, st \in Seq(Characters)
      PROVE  (st \o u) \o w = st \o (u \o w)
  BY <1>1, Assoc
<1>2. ASSUME NEW uw, uw \in Seq(Characters)
      PROVE  (s \o t) \o uw = s \o (t \o uw)
  BY <1>2, Assoc
<1>3. s \o t \in Seq(Characters)
  BY ConcatProperties
<1>4. u \o w \in Seq(Characters)
  BY ConcatProperties
<1>5. ((s \o t) \o u) \o w = (s \o t) \o (u \o w)
  BY <1>1, <1>3, Zenon
<1>6. (s \o t) \o (u \o w) = s \o (t \o (u \o w))
  BY <1>2, <1>4, Zenon
<1> QED
  BY <1>5, <1>6, Zenon

\* A replacement moves the search past the placeholder and writes its value.
LEMMA ReplaceExpansion ==
  ASSUME Inv, ExpandedSoFar, Replace
  PROVE  ExpandedSoFar'
<1>0. PICK begin \in First(Opens(result, start)) :
        \E end \in First(Closes(result, begin)) :
            /\ result' = Replaced(begin, end)
            /\ start' = begin + Len(Replacement(begin, end))
            /\ UNCHANGED <<env, content, done>>
  BY DEF Replace
<1>1. PICK end \in First(Closes(result, begin)) :
        /\ result' = Replaced(begin, end)
        /\ start' = begin + Len(Replacement(begin, end))
        /\ UNCHANGED <<env, content, done>>
  BY <1>0
<1> DEFINE f == From(env, content)
           q == begin - start + Rest
           last == end - start + Rest
           v == Replacement(begin, end)
           piece == SubSeq(content, Rest, q - 1)
<1>2. /\ begin \in Nat /\ end \in Nat /\ start <= begin /\ begin + 2 <= end /\ end <= Len(result)
      /\ v \in Seq(Characters) /\ Len(v) \in Nat
  BY Placeholder
<1>3. /\ start \in Nat \ {0} /\ Rest \in 1 .. Len(content) + 1 /\ Len(content) \in Nat
      /\ Len(result) \in Nat /\ result \in Seq(Characters) /\ content \in Seq(Characters)
      /\ Len(result) - start = Len(content) - Rest /\ env \in Environments
  BY Parts
<1>4. /\ q \in Rest .. Len(content) /\ q \in 1 .. Len(content)
      /\ \A k \in Rest .. q - 1 : ~ IsPlaceholder(content, k)
      /\ IsPlaceholder(content, q)
      /\ EndOf(content, q) = last
  BY NextPlaceholder
<1>5. f \in [1 .. Len(content) + 1 -> Seq(Characters)]
  BY <1>3, FromType
<1>6. f[q] = v \o f[last + 1] /\ f[last + 1] \in Seq(Characters)
  <2>1. q \in 1 .. Len(content) + 1 /\ ~(q > Len(content))
    BY <1>3, <1>4
  <2>2. f[q] = ExpandedAt(env, content, f, q)
    BY <1>3, <2>1, FromExists
  <2>3. f[q] = ValueIn(env, SubSeq(content, q + 2, last - 1)) \o f[last + 1]
    BY <1>4, <2>1, <2>2 DEF ExpandedAt
  <2>4. SubSeq(result, begin + 2, end - 1)
          = SubSeq(content, (begin + 2) - start + Rest, (end - 1) - start + Rest)
    <3>1. begin + 2 \in Nat /\ end - 1 \in Int /\ start <= begin + 2 /\ end - 1 <= Len(result)
      BY <1>2, <1>3
    <3> QED
      BY <3>1, SamePiece
  <2>5. (begin + 2) - start + Rest = q + 2 /\ (end - 1) - start + Rest = last - 1
    BY <1>2, <1>3
  <2>6. v = ValueIn(env, SubSeq(content, q + 2, last - 1))
    BY <2>4, <2>5 DEF Replacement, Value, ValueIn
  <2>7. last + 1 \in 1 .. Len(content) + 1
    BY <1>2, <1>3
  <2> QED
    BY <1>5, <2>3, <2>6, <2>7
<1>7. f[Rest] = piece \o f[q]
  <2>1. q \in Rest .. Len(content) + 1
    BY <1>3, <1>4
  <2> QED
    BY <1>3, <1>4, <2>1, Copied
<1>8. piece \in Seq(Characters) /\ SubSeq(result, 1, begin - 1) = Searched \o piece
  <2>1. /\ start \in Nat /\ begin - 1 \in Int /\ start <= start /\ begin - 1 <= Len(result)
        /\ start - start + Rest = Rest /\ (begin - 1) - start + Rest = q - 1
    BY <1>2, <1>3
  <2>2. SubSeq(result, start, begin - 1) = piece /\ piece \in Seq(Characters)
    BY <2>1, SamePiece
  <2>3. /\ 1 \in 1 .. Len(result) + 1 /\ start - 1 \in 1 - 1 .. Len(result)
        /\ begin - 1 \in start - 1 .. Len(result) /\ (start - 1) + 1 = start
    BY <1>2, <1>3
  <2>4. SubSeq(result, 1, start - 1) \o SubSeq(result, (start - 1) + 1, begin - 1)
          = SubSeq(result, 1, begin - 1)
    BY <1>3, <2>3, ConcatAdjacentSubSeq
  <2> QED
    BY <2>2, <2>3, <2>4 DEF Searched
<1>9. Searched' = (Searched \o piece) \o v
  <2>1. SubSeq(Replaced(begin, end), 1, begin - 1 + Len(v)) = SubSeq(result, 1, begin - 1) \o v
    BY Edited
  <2>2. start' - 1 = begin - 1 + Len(v)
    BY <1>1, <1>2
  <2> QED
    BY <1>1, <1>8, <2>1, <2>2 DEF Searched
<1>10. Rest' = last + 1
  <2>1. Len(result') = begin - 1 + Len(v) + (Len(result) - end)
    BY <1>1, Edited
  <2>2. Unsearched' = Len(result) - end
    <3>1. start' = begin + Len(v) /\ Unsearched' = Len(result') - start' + 1
      BY <1>1 DEF Unsearched
    <3> HIDE DEF v
    <3> QED
      BY <1>2, <1>3, <2>1, <3>1
  <2>3. Len(content') = Len(content)
    BY <1>1
  <2>4. Rest' = Len(content) - (Len(result) - end) + 1
    BY <2>2, <2>3 DEF Rest
  <2>5. Rest' = (Len(content) - Len(result) + end) + 1
    BY <1>2, <1>3, <2>4
  <2>6. (Len(content) - Len(result) + end) + 1 = (end - start + Rest) + 1
    <3> HIDE DEF v, f, q, last, piece
    <3>1. /\ end \in Int /\ start \in Int /\ Rest \in Int
          /\ Len(content) \in Int /\ Len(result) \in Int
          /\ Len(result) - start = Len(content) - Rest
      BY <1>2, <1>3
    <3> QED
      BY <3>1
  <2> QED
    BY <2>5, <2>6
<1>11. Searched \in Seq(Characters)
  <2>1. \A k \in 1 .. start - 1 : k \in 1 .. Len(result) /\ result[k] \in Characters
    BY <1>2, <1>3, ElementOfSeq
  <2> QED
    BY <1>3, <2>1, SubSeqProperties DEF Searched
<1>12. Searched \o f[Rest] = f[1]
  BY DEF ExpandedSoFar
<1> DEFINE w == f[last + 1]
<1>13. From(env, content)' = f
  BY <1>1
<1> HIDE DEF f, q, v, piece, last, w
<1>14. ((Searched \o piece) \o v) \o w = Searched \o (piece \o (v \o w))
  <2>1. piece \in Seq(Characters)
    BY <1>8
  <2>2. w \in Seq(Characters)
    BY <1>6 DEF w
  <2>3. v \in Seq(Characters)
    BY <1>2
  <2>4. \A a, b, c, d \in Seq(Characters) : ((a \o b) \o c) \o d = a \o (b \o (c \o d))
    BY FourParts
  <2>5. \A b, c, d \in Seq(Characters) :
           ((Searched \o b) \o c) \o d = Searched \o (b \o (c \o d))
    BY <1>11, <2>4
  <2>6. \A c, d \in Seq(Characters) :
           ((Searched \o piece) \o c) \o d = Searched \o (piece \o (c \o d))
    BY <2>1, <2>5
  <2> QED
    BY <2>2, <2>3, <2>6
<1>15. Searched' \o f[Rest'] = f[1]
  BY <1>6, <1>7, <1>9, <1>10, <1>12, <1>14 DEF w
<1> QED
  BY <1>13, <1>15 DEF ExpandedSoFar

LEMMA StopExpansion ==
  ASSUME Inv, ExpandedSoFar, Stop
  PROVE  result = From(env, content)[1]
<1> DEFINE f == From(env, content)
           n == Len(content)
           tail == SubSeq(content, Rest, n)
<1>1. /\ start \in Nat \ {0} /\ Rest \in 1 .. n + 1 /\ n \in Nat
      /\ Len(result) \in Nat /\ result \in Seq(Characters) /\ content \in Seq(Characters)
      /\ Len(result) - start = n - Rest /\ env \in Environments
      /\ start \in 1 .. Len(result) + 1
  BY Parts
<1>2. ASSUME NEW k \in Rest .. n, IsPlaceholder(content, k) PROVE FALSE
  <2> DEFINE j == k - Rest + start
  <2>1. j \in Nat /\ start <= j /\ j <= Len(result) /\ j - start + Rest = k /\ k \in 1 .. n
    BY <1>1
  <2>2. k \in Opens(content, Rest)
    BY <1>1, <1>2 DEF IsPlaceholder, Opens
  <2>3. j \in Opens(result, start)
    BY <2>1, <2>2, SamePlaces
  <2>4. Opens(result, start) \subseteq Nat
    BY <1>1 DEF Opens
  <2>5. PICK b \in Opens(result, start) : First(Opens(result, start)) = {b}
    BY <2>3, <2>4, FirstIsOne
  <2>6. b <= j /\ b \in Nat
    BY <2>3, <2>4, <2>5 DEF First
  <2>7. Closes(result, b) = {}
    BY <2>5 DEF Stop
  <2>8. PICK close \in Closes(content, k) : TRUE
    BY <1>2 DEF IsPlaceholder
  <2> DEFINE c == close - Rest + start
  <2>9. close \in k .. n
    BY DEF Closes
  <2>10. c \in Nat /\ c - start + Rest = close
    BY <1>1, <2>9
  <2>11. c \in Closes(result, j)
    BY <2>1, <2>10, SamePlaces
  <2>12. c \in Closes(result, b)
    BY <1>1, <2>1, <2>6, <2>11 DEF Closes
  <2> QED
    BY <2>7, <2>12
<1>3. f[Rest] = SubSeq(content, Rest, (n + 1) - 1) \o f[n + 1]
  <2>1. /\ n + 1 \in Rest .. Len(content) + 1
        /\ \A k \in Rest .. (n + 1) - 1 : ~ IsPlaceholder(content, k)
    BY <1>1, <1>2
  <2> QED
    BY <1>1, <2>1, Copied
<1>4. tail \in Seq(Characters) /\ SubSeq(result, start, Len(result)) = tail
  <2>1. /\ start \in Nat /\ Len(result) \in Int /\ start <= start /\ Len(result) <= Len(result)
        /\ start - start + Rest = Rest /\ Len(result) - start + Rest = n
    BY <1>1
  <2>2. /\ SubSeq(result, start, Len(result)) \in Seq(Characters)
        /\ SubSeq(result, start, Len(result))
             = SubSeq(content, start - start + Rest, Len(result) - start + Rest)
    BY <2>1, SamePiece
  <2> QED
    BY <2>1, <2>2
<1>5. f[Rest] = tail
  <2>1. f[n + 1] = <<>> /\ (n + 1) - 1 = n
    BY <1>1, FromEnd
  <2> QED
    BY <1>3, <1>4, <2>1, ConcatEmptySeq
<1>6. Searched \o tail = result
  <2>1. /\ 1 \in 1 .. Len(result) + 1 /\ start - 1 \in 1 - 1 .. Len(result)
        /\ Len(result) \in start - 1 .. Len(result) /\ (start - 1) + 1 = start
    BY <1>1
  <2>2. SubSeq(result, 1, start - 1) \o SubSeq(result, (start - 1) + 1, Len(result))
          = SubSeq(result, 1, Len(result))
    BY <1>1, <2>1, ConcatAdjacentSubSeq
  <2> QED
    BY <1>1, <1>4, <2>1, <2>2, SubSeqFull DEF Searched
<1> QED
  BY <1>5, <1>6 DEF ExpandedSoFar

LEMMA StepExpansion == Inv /\ ExpansionInv /\ [Next]_vars => ExpansionInv'
<1> SUFFICES ASSUME Inv, ExpansionInv, [Next]_vars PROVE ExpansionInv'
  OBVIOUS
<1>1. CASE Replace
  <2>1. ~done /\ done' = done
    BY <1>1 DEF Replace
  <2> QED
    BY <1>1, <2>1, ReplaceExpansion DEF ExpansionInv, DoneIsExpansion
<1>2. CASE Stop
  <2>1. ~done /\ done' /\ UNCHANGED <<env, content, result>>
    BY <1>2 DEF Stop
  <2>2. result = From(env, content)[1]
    BY <1>2, <2>1, StopExpansion DEF ExpansionInv
  <2> QED
    BY <2>1, <2>2 DEF ExpansionInv, DoneIsExpansion
<1>3. CASE UNCHANGED vars
  BY <1>3 DEF vars, ExpansionInv, ExpandedSoFar, DoneIsExpansion, Searched, Rest, Unsearched
<1> QED
  BY <1>1, <1>2, <1>3 DEF Next

\* The loop computes the expansion of the file: every placeholder once, from left to right.
THEOREM PlaceholdersAreReplacedOnce == Spec => []ResultIsExpansion
<1>1. ExpansionInv => ResultIsExpansion
  BY ExpansionIsFrom DEF ExpansionInv, DoneIsExpansion, ResultIsExpansion
<1>2. Spec => []ExpansionInv
  BY InitExpansion, StepExpansion, Invariance, PTL DEF Spec
<1> QED
  BY <1>1, <1>2, PTL

-----------------------------------------------------------------------------
\* The answers of LlmResponse.  What an adapter takes from an answer is the first candidate
\* that will do; of each candidate there is at most one.

LEMMA FirstInIsOne ==
  ASSUME NEW S, NEW candidates \in Seq(S), NEW wanted
  PROVE  \/ /\ FirstIn(candidates, wanted) = {}
            /\ \A k \in 1 .. Len(candidates) : candidates[k] \intersect wanted = {}
         \/ \E k \in 1 .. Len(candidates) :
               /\ FirstIn(candidates, wanted) = candidates[k]
               /\ candidates[k] \intersect wanted # {}
               /\ \A j \in 1 .. k - 1 : candidates[j] \intersect wanted = {}
<1> DEFINE hits == {k \in 1 .. Len(candidates) : candidates[k] \intersect wanted # {}}
<1>1. Len(candidates) \in Nat
  BY LenProperties
<1>2. FirstIn(candidates, wanted) = UNION {candidates[k] : k \in First(hits)}
  BY DEF FirstIn, First
<1>3. CASE hits = {}
  <2>1. First(hits) = {}
    BY <1>3 DEF First
  <2> QED
    BY <1>2, <1>3, <2>1
<1>4. CASE hits # {}
  <2>1. hits \in SUBSET Nat
    BY <1>1
  <2>2. PICK k \in hits : First(hits) = {k}
    BY <1>4, <2>1, FirstIsOne
  <2>3. FirstIn(candidates, wanted) = candidates[k]
    BY <1>2, <2>2
  <2>4. \A j \in hits : k <= j
    BY <2>2 DEF First
  <2>5. ASSUME NEW j \in 1 .. k - 1 PROVE candidates[j] \intersect wanted = {}
    BY <1>1, <2>4
  <2> QED
    BY <2>3, <2>5
<1> QED
  BY <1>3, <1>4

\* What is looked for inside of something that may be missing, may be missing.
LEMMA MaybeInside ==
  ASSUME NEW X, NEW Y, NEW s \in Maybe(X), NEW t,
         \A u \in t : u \in Maybe(Y), \A u, v \in t : u = v
  PROVE  UNION t \in Maybe(Y)
BY DEF Maybe

LEMMA MemberOfMaybe ==
  ASSUME NEW X, NEW s \in Maybe(X), NEW x \in s
  PROVE  s = {x} /\ x \in X
BY DEF Maybe

LEMMA TwoParts ==
  ASSUME NEW S, NEW s \in Seq(S), NEW t \in Seq(S)
  PROVE  /\ s \o t \in Seq(S) /\ Len(s \o t) = Len(s) + Len(t)
         /\ \A i \in 1 .. Len(s) : (s \o t)[i] = s[i]
         /\ \A i \in 1 .. Len(t) : (s \o t)[Len(s) + i] = t[i]
<1>1. Len(s) \in Nat /\ Len(t) \in Nat
  BY LenProperties
<1>2. \A i \in 1 .. Len(s) : i \in 1 .. Len(s) + Len(t) /\ i <= Len(s)
  BY <1>1
<1>3. \A i \in 1 .. Len(t) : /\ Len(s) + i \in 1 .. Len(s) + Len(t)
                             /\ ~(Len(s) + i <= Len(s)) /\ Len(s) + i - Len(s) = i
  BY <1>1
<1> QED
  BY <1>2, <1>3, ConcatProperties

LEMMA FunctionIsSeq ==
  ASSUME NEW S, NEW n \in Nat, NEW f \in [1 .. n -> S]
  PROVE  f \in Seq(S) /\ Len(f) = n
<1>1. f \in Seq(S)
  BY SeqDef
<1> QED
  BY <1>1, LenProperties

LEMMA Tokens ==
  ASSUME NEW b \in Answers
  PROVE  /\ TokensOf(b) \in Seq(Maybe(Int)) /\ Len(TokensOf(b)) = 3
         /\ TokensOf(b)[1] = UNION {usage.total_tokens : usage \in b.usage}
<1> DEFINE total == UNION {usage.total_tokens : usage \in b.usage}
           head == <<total>>
<1>1. b.usage \in Maybe(Usages) /\ b.counts \in [1 .. 2 -> Maybe(Int)]
  BY DEF Answers
<1>2. total \in Maybe(Int)
  <2> DEFINE t == {usage.total_tokens : usage \in b.usage}
  <2>1. \A u \in t : u \in Maybe(Int)
    BY <1>1 DEF Maybe, Usages
  <2>2. \A u, v \in t : u = v
    BY <1>1 DEF Maybe
  <2> HIDE DEF t
  <2>3. UNION t \in Maybe(Int)
    BY <2>1, <2>2, <1>1, MaybeInside
  <2> QED
    BY <2>3 DEF t
<1> HIDE DEF total
<1>3. head \in Seq(Maybe(Int)) /\ Len(head) = 1 /\ head[1] = total
  BY <1>2
<1>4. b.counts \in Seq(Maybe(Int)) /\ Len(b.counts) = 2
  <2> DEFINE counts == b.counts
  <2>1. counts \in [1 .. 2 -> Maybe(Int)]
    BY <1>1
  <2> HIDE DEF counts
  <2>2. counts \in Seq(Maybe(Int)) /\ Len(counts) = 2
    BY <2>1, FunctionIsSeq
  <2> QED
    BY <2>2 DEF counts
<1>5. TokensOf(b) = head \o b.counts
  BY DEF TokensOf, total
<1> HIDE DEF head
<1> QED
  <2> DEFINE counts == b.counts
  <2>1. counts \in Seq(Maybe(Int)) /\ Len(counts) = 2 /\ TokensOf(b) = head \o counts
    BY <1>4, <1>5
  <2> HIDE DEF counts
  <2>2. /\ head \o counts \in Seq(Maybe(Int)) /\ Len(head \o counts) = Len(head) + Len(counts)
        /\ \A i \in 1 .. Len(head) : (head \o counts)[i] = head[i]
    BY <1>3, <2>1, TwoParts
  <2> QED
    BY <1>3, <2>1, <2>2 DEF total

LEMMA ChoiceIsMaybe ==
  ASSUME NEW b \in Answers, NEW member \in {"text", "content"}
  PROVE  ChoiceAt(b, 1, member) \in Maybe(Strings)
<1> DEFINE t == {choices[1][member] : choices \in {c \in b.choices : 1 \in 1 .. Len(c)}}
<1>1. b.choices \in Maybe(Seq(ChoiceParts))
  BY DEF Answers
<1>2. ASSUME NEW c \in b.choices, 1 \in 1 .. Len(c) PROVE c[1][member] \in Maybe(Strings)
  <2>1. c \in Seq(ChoiceParts)
    BY <1>1, MemberOfMaybe
  <2>2. c[1] \in ChoiceParts
    BY <1>2, <2>1, ElementOfSeq
  <2> QED
    BY <2>2 DEF ChoiceParts
<1>3. \A u \in t : u \in Maybe(Strings)
  BY <1>2
<1>4. \A u, v \in t : u = v
  BY <1>1 DEF Maybe
<1> HIDE DEF t
<1>5. UNION t \in Maybe(Strings)
  BY <1>1, <1>3, <1>4, MaybeInside
<1> QED
  BY <1>5 DEF t, ChoiceAt

LEMMA TextsAre ==
  ASSUME NEW b \in Answers
  PROVE  /\ TextsOf(b) \in Seq(Maybe(Strings)) /\ Len(TextsOf(b)) = 9
         /\ TextsOf(b)[9] = ChoiceAt(b, 1, "content")
<1> DEFINE own == [k \in 1 .. Len(OwnPaths) |-> b.at[OwnPaths[k]]]
           root == <<b.root>>
           first == <<ChoiceAt(b, 1, "text"), ChoiceAt(b, 1, "content")>>
<1>1. b.root \in Maybe(Strings) /\ b.at \in [{OwnPaths[k] : k \in 1 .. 6} -> Maybe(Strings)]
  BY DEF Answers
<1>2. root \in Seq(Maybe(Strings)) /\ Len(root) = 1
  BY <1>1
<1>3. own \in Seq(Maybe(Strings)) /\ Len(own) = 6
  <2>1. Len(OwnPaths) = 6
    BY DEF OwnPaths
  <2>2. own \in [1 .. 6 -> Maybe(Strings)]
    BY <1>1, <2>1
  <2> HIDE DEF own
  <2> QED
    BY <2>2, FunctionIsSeq
<1>4. /\ first \in Seq(Maybe(Strings)) /\ Len(first) = 2
      /\ first[2] = ChoiceAt(b, 1, "content")
  BY ChoiceIsMaybe
<1>5. TextsOf(b) = root \o own \o first
  BY DEF TextsOf
<1> HIDE DEF root, own, first
<1>6. root \o own \in Seq(Maybe(Strings)) /\ Len(root \o own) = 7
  <2>1. root \o own \in Seq(Maybe(Strings)) /\ Len(root \o own) = Len(root) + Len(own)
    BY <1>2, <1>3, TwoParts
  <2> QED
    BY <1>2, <1>3, <2>1
<1> DEFINE a == root \o own
<1> HIDE DEF a
<1>7. a \in Seq(Maybe(Strings)) /\ Len(a) = 7 /\ TextsOf(b) = a \o first
  BY <1>5, <1>6 DEF a
<1> QED
  <2>1. /\ a \o first \in Seq(Maybe(Strings)) /\ Len(a \o first) = Len(a) + Len(first)
        /\ \A i \in 1 .. Len(first) : (a \o first)[Len(a) + i] = first[i]
    <3>1. a \in Seq(Maybe(Strings)) /\ first \in Seq(Maybe(Strings))
      BY <1>4, <1>7
    <3> QED
      BY <3>1, TwoParts
  <2>2. /\ TextsOf(b) = a \o first /\ Len(a) = 7 /\ Len(first) = 2
        /\ first[2] = ChoiceAt(b, 1, "content")
    BY <1>4, <1>7
  <2> QED
    BY <2>1, <2>2

\* What is taken for the token count is one number of those that were found, or none.
LEMMA TokensTaken ==
  ASSUME NEW b \in Answers
  PROVE  /\ extract_token_usage(b) \subseteq Counts
         /\ extract_token_usage(b) \subseteq UNION {TokensOf(b)[k] : k \in 1 .. Len(TokensOf(b))}
<1> DEFINE tokens == TokensOf(b)
<1>1. tokens \in Seq(Maybe(Int))
  BY Tokens
<1> HIDE DEF tokens
<1>2. CASE FirstIn(tokens, Counts) = {}
  BY <1>2 DEF extract_token_usage, tokens
<1>3. ASSUME NEW k \in 1 .. Len(tokens), FirstIn(tokens, Counts) = tokens[k],
             tokens[k] \intersect Counts # {}
      PROVE  FirstIn(tokens, Counts) \subseteq Counts
  <2>1. tokens[k] \in Maybe(Int)
    BY <1>1, ElementOfSeq
  <2>2. PICK n \in tokens[k] : n \in Counts
    BY <1>3
  <2>3. tokens[k] = {n}
    BY <2>1, MemberOfMaybe
  <2> QED
    BY <1>3, <2>2, <2>3
<1>4. \/ FirstIn(tokens, Counts) = {}
      \/ \E k \in 1 .. Len(tokens) :
            FirstIn(tokens, Counts) = tokens[k] /\ tokens[k] \intersect Counts # {}
  BY <1>1, FirstInIsOne
<1>5. FirstIn(tokens, Counts) \subseteq Counts
  BY <1>3, <1>4
<1>6. FirstIn(tokens, Counts) \subseteq UNION {tokens[k] : k \in 1 .. Len(tokens)}
  BY <1>4
<1> QED
  BY <1>5, <1>6 DEF extract_token_usage, tokens

\* A response of the OpenAI kind has counts that fit.
LEMMA UsageFits ==
  ASSUME NEW b \in Answers, IsLlmResponse(b), NEW usage \in b.usage
  PROVE  \E n \in Counts : usage.total_tokens = {n}
<1>1. usage \in Usages
  BY MemberOfMaybe DEF Answers
<1>2. usage.total_tokens \intersect Counts # {}
  BY <1>1 DEF IsLlmResponse, Usages
<1>3. PICK n \in usage.total_tokens : n \in Counts
  BY <1>2
<1>4. usage.total_tokens \in Maybe(Int)
  BY <1>1 DEF Usages
<1> QED
  BY <1>3, <1>4, MemberOfMaybe

LEMMA OpenAiTokens ==
  ASSUME NEW b \in Answers, OpenAiCompatible(b).ok
  PROVE  /\ OpenAiCompatible(b).token_usage \subseteq Counts
         /\ OpenAiCompatible(b).token_usage = TokensOf(b)[1]
         /\ OpenAiCompatible(b).token_usage # {} => extract_token_usage(b) = TokensOf(b)[1]
<1> DEFINE total == UNION {usage.total_tokens : usage \in b.usage}
           tokens == TokensOf(b)
<1>1. IsLlmResponse(b)
  BY DEF OpenAiCompatible, Failed
<1>2. OpenAiCompatible(b).token_usage = total
  BY <1>1 DEF OpenAiCompatible, ParsedLlmResponse
<1>3. total \subseteq Counts
  BY <1>1, UsageFits
<1>4. tokens \in Seq(Maybe(Int)) /\ Len(tokens) = 3 /\ tokens[1] = total
  BY Tokens
<1> HIDE DEF total, tokens
<1>5. ASSUME total # {} PROVE FirstIn(tokens, Counts) = tokens[1]
  <2>1. 1 \in 1 .. Len(tokens) /\ tokens[1] \intersect Counts # {}
    BY <1>3, <1>4, <1>5
  <2>2. PICK k \in 1 .. Len(tokens) :
           /\ FirstIn(tokens, Counts) = tokens[k]
           /\ \A j \in 1 .. k - 1 : tokens[j] \intersect Counts = {}
    BY <1>4, <2>1, FirstInIsOne
  <2>3. k = 1
    BY <1>4, <2>1, <2>2
  <2> QED
    BY <2>2, <2>3
<1> QED
  BY <1>2, <1>3, <1>4, <1>5 DEF extract_token_usage, tokens

\* Only the text of the first choice is there to be taken.
LEMMA OnlyTextTaken ==
  ASSUME NEW b \in Answers, NEW t, t # Blank, TextsOf(b)[9] = {t},
         \A k \in 1 .. 8 : TextsOf(b)[k] \subseteq {Blank}
  PROVE  extract_first_text(b) = {t}
<1> DEFINE texts == TextsOf(b)
           wanted == (UNION {texts[k] : k \in 1 .. Len(texts)}) \ {Blank}
<1>1. texts \in Seq(Maybe(Strings)) /\ Len(texts) = 9
  BY TextsAre
<1>2. texts[9] = {t} /\ \A k \in 1 .. 8 : texts[k] \subseteq {Blank}
  OBVIOUS
<1>3. extract_first_text(b) = FirstIn(texts, wanted)
  BY DEF extract_first_text
<1> HIDE DEF texts
<1>4. t \in wanted /\ Blank \notin wanted
  <2>1. 9 \in 1 .. Len(texts) /\ t \in texts[9]
    BY <1>1, <1>2
  <2>2. t \in UNION {texts[k] : k \in 1 .. Len(texts)}
    BY <2>1
  <2> QED
    BY <2>2
<1> HIDE DEF wanted
<1>5. texts[9] \intersect wanted # {} /\ 9 \in 1 .. Len(texts)
  BY <1>1, <1>2, <1>4
<1>6. PICK k \in 1 .. Len(texts) :
         FirstIn(texts, wanted) = texts[k] /\ texts[k] \intersect wanted # {}
  <2>1. \/ \A k \in 1 .. Len(texts) : texts[k] \intersect wanted = {}
        \/ \E k \in 1 .. Len(texts) :
              FirstIn(texts, wanted) = texts[k] /\ texts[k] \intersect wanted # {}
    BY <1>1, FirstInIsOne
  <2> QED
    BY <1>5, <2>1
<1>7. \A j \in 1 .. 8 : texts[j] \intersect wanted = {}
  BY <1>2, <1>4
<1>8. k = 9
  BY <1>1, <1>6, <1>7
<1> QED
  BY <1>2, <1>3, <1>6, <1>8

LEMMA OpenAiContent ==
  ASSUME NEW b \in Answers, OpenAiCompatible(b).ok, OpenAiCompatible(b).content # Blank
  PROVE  b.json /\ TextsOf(b)[9] = {OpenAiCompatible(b).content}
<1> DEFINE choices == CHOOSE c \in b.choices : TRUE
           t == OpenAiCompatible(b).content
<1>1. IsLlmResponse(b) /\ b.json
  BY DEF OpenAiCompatible, Failed, IsLlmResponse
<1>2. PICK cs \in b.choices : \A k \in 1 .. Len(cs) : cs[k].content # {}
  BY <1>1 DEF IsLlmResponse
<1>3. b.choices = {cs} /\ cs \in Seq(ChoiceParts)
  BY <1>2, MemberOfMaybe DEF Answers
<1>4. choices = cs
  BY <1>3
<1>5. t = IF cs = <<>> THEN Blank ELSE CHOOSE u \in cs[1].content : TRUE
  <2>1. OpenAiCompatible(b) = ParsedLlmResponse(
                IF choices = <<>> THEN Blank ELSE CHOOSE u \in choices[1].content : TRUE,
                UNION {usage.total_tokens : usage \in b.usage})
    BY <1>1 DEF OpenAiCompatible
  <2>2. t = IF choices = <<>> THEN Blank ELSE CHOOSE u \in choices[1].content : TRUE
    BY <2>1 DEF ParsedLlmResponse
  <2> HIDE DEF choices
  <2> QED
    BY <1>4, <2>2
<1>6. 1 \in 1 .. Len(cs)
  BY <1>3, <1>5, EmptySeq
<1>7. cs[1].content \in Maybe(Strings) /\ cs[1].content # {}
  <2>1. cs[1] \in ChoiceParts
    BY <1>3, <1>6, ElementOfSeq
  <2> QED
    BY <1>2, <1>6, <2>1 DEF ChoiceParts
<1>8. t \in cs[1].content
  <2>1. cs # <<>>
    BY <1>5
  <2> QED
    BY <1>5, <1>7, <2>1
<1>9. cs[1].content = {t}
  BY <1>7, <1>8, MemberOfMaybe
<1>10. ChoiceAt(b, 1, "content") = {t}
  <2>1. {c \in b.choices : 1 \in 1 .. Len(c)} = {cs}
    BY <1>3, <1>6
  <2> QED
    BY <1>9, <2>1 DEF ChoiceAt
<1> QED
  BY <1>1, <1>10, TextsAre

LEMMA Agree == body \in Answers => AdaptersAgree
<1> SUFFICES ASSUME body \in Answers, OpenAiCompatible(body).ok,
                    OpenAiCompatible(body).content # Blank, OnlyChoiceHasText
             PROVE  /\ SimpleTextJson(body).ok
                    /\ SimpleTextJson(body).content = OpenAiCompatible(body).content
                    /\ OpenAiCompatible(body).token_usage # {} =>
                         SimpleTextJson(body).token_usage = OpenAiCompatible(body).token_usage
  BY DEF AdaptersAgree
<1> DEFINE t == OpenAiCompatible(body).content
<1>1. body.json /\ TextsOf(body)[9] = {t} /\ t # Blank
  BY OpenAiContent
<1>2. \A k \in 1 .. 8 : TextsOf(body)[k] \subseteq {Blank}
  <2>1. Len(TextsOf(body)) - 1 = 8
    BY TextsAre
  <2> QED
    BY <2>1 DEF OnlyChoiceHasText
<1> HIDE DEF t
<1>3. extract_first_text(body) = {t}
  BY <1>1, <1>2, OnlyTextTaken
<1>4. SimpleTextJson(body) = ParsedLlmResponse(t, extract_token_usage(body))
  BY <1>1, <1>3 DEF SimpleTextJson
<1>5. /\ SimpleTextJson(body).ok /\ SimpleTextJson(body).content = t
      /\ SimpleTextJson(body).token_usage = extract_token_usage(body)
  BY <1>4 DEF ParsedLlmResponse
<1> QED
  BY <1>5, OpenAiTokens DEF t

\* What was parsed is what an adapter makes of the answer.
ResponseInv ==
    /\ body \in Answers
    /\ parsed \subseteq {OpenAiCompatible(body), SimpleTextJson(body)}

LEMMA ResponseInvariance == ResponseSpec => []ResponseInv
<1>1. ResponseInit => ResponseInv
  BY AnswerScope DEF ResponseInit, ResponseInv
<1>2. ResponseInv /\ [parse_response]_responseVars => ResponseInv'
  BY DEF ResponseInv, parse_response, responseVars
<1> QED
  BY <1>1, <1>2, PTL DEF ResponseSpec

\* No answer makes an adapter report a token count that is not in it, or that does not fit.
THEOREM TokenCountsAreReported == ResponseSpec => []TokensAreReported
<1> DEFINE reported == UNION {TokensOf(body)[k] : k \in 1 .. Len(TokensOf(body))}
<1>1. ASSUME ResponseInv, NEW p \in parsed, p.ok
      PROVE  p.token_usage \subseteq Counts \intersect reported
  <2>1. CASE p = OpenAiCompatible(body)
    <3>1. p.token_usage \subseteq Counts /\ p.token_usage = TokensOf(body)[1]
      BY <1>1, <2>1, OpenAiTokens DEF ResponseInv
    <3>2. 1 \in 1 .. Len(TokensOf(body))
      <4>1. Len(TokensOf(body)) = 3
        BY <1>1, Tokens DEF ResponseInv
      <4> QED
        BY <4>1
    <3> QED
      BY <3>1, <3>2
  <2>2. CASE p = SimpleTextJson(body)
    <3>1. p.token_usage = extract_token_usage(body)
      BY <1>1, <2>2 DEF SimpleTextJson, ParsedLlmResponse, Failed
    <3> QED
      BY <1>1, <3>1, TokensTaken DEF ResponseInv
  <2> QED
    BY <1>1, <2>1, <2>2 DEF ResponseInv
<1>2. ResponseInv => TokensAreReported
  BY <1>1 DEF TokensAreReported
<1> QED
  BY <1>2, ResponseInvariance, PTL

\* An answer of the OpenAI kind means the same to both adapters, whatever its parts are.
THEOREM BothAdaptersAgree == ResponseSpec => []AdaptersAgree
<1>1. ResponseInv => AdaptersAgree
  BY Agree DEF ResponseInv
<1> QED
  BY <1>1, ResponseInvariance, PTL
=============================================================================
