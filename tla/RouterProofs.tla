---------------------------- MODULE RouterProofs ----------------------------
(***************************************************************************)
(* Proofs about RequestPath and Router, for requests of every length,      *)
(* configurations of every kind and files that change while they are read. *)
(* The three loops over one buffer compute what they are meant to, never   *)
(* leaving it, and every way through the router ends with what was opened  *)
(* closed, what was allocated freed and what was read sent.                *)
(***************************************************************************)
EXTENDS Router, FiniteSetTheorems, SequenceTheorems, TLAPS

-----------------------------------------------------------------------------
(* What the operators on text return.                                      *)

\* A set of numbers has its minimum.
LEMMA MinFacts ==
  ASSUME NEW S, S \subseteq Nat, S # {}
  PROVE  Min(S) \in S /\ \A n \in S : Min(S) <= n
<1> DEFINE Less == {pair \in Nat \X Nat : pair[1] < pair[2]}
<1>1. IsWellFoundedOn(Less, Nat)
  BY NatLessThanWellFounded DEF OpToRel
<1>2. PICK least \in S : \A n \in S : <<n, least>> \notin Less
  <2> HIDE DEF Less
  <2>1. QED  BY <1>1, WFMin, Zenon
<1>3. \A n \in S : <<n, least>> \in Nat \X Nat
  OBVIOUS
<1>4. \A n \in S : ~ (n < least)
  BY <1>2, <1>3
<1>5. \E n \in S : \A m \in S : n <= m
  BY <1>4
<1>6. QED  BY <1>5 DEF Min

\* The first of several positions of a text is one of them, or follows the text.
LEMMA FirstOfFacts ==
  ASSUME NEW S, NEW text \in Seq(S), NEW positions, positions \subseteq 1..Len(text)
  PROVE  /\ FirstOf(positions, text) \in 1..Len(text)+1
         /\ FirstOf(positions, text) \in positions \/ FirstOf(positions, text) = Len(text) + 1
         /\ \A n \in positions : FirstOf(positions, text) <= n
<1> DEFINE all == positions \cup {Len(text) + 1}
<1>1. Len(text) \in Nat
  BY LenProperties
<1>2. all \subseteq Nat /\ all # {} /\ all \subseteq 1..Len(text)+1
  <2>1. \A n \in positions : n \in 1..Len(text)
    OBVIOUS
  <2>2. \A n \in positions : n \in Nat /\ n \in 1..Len(text)+1
    BY <2>1, <1>1
  <2>3. Len(text) + 1 \in Nat /\ Len(text) + 1 \in 1..Len(text)+1
    BY <1>1
  <2>4. QED  BY <2>2, <2>3
<1>3. Min(all) \in all /\ \A n \in all : Min(all) <= n
  <2> HIDE DEF all
  <2>1. QED  BY <1>2, MinFacts
<1>4. QED  BY <1>2, <1>3 DEF FirstOf

\* The bytes of a text are no terminators.
LEMMA NotNul ==
  ASSUME NEW c \in 1..255
  PROVE  c # NUL
BY DEF NUL

\* A part of a text is a text.
LEMMA PartOfText ==
  ASSUME NEW S, NEW text \in Seq(S), NEW first \in Nat \ {0}, NEW end \in Int,
         end <= Len(text)
  PROVE  SubSeq(text, first, end) \in Seq(S)
<1>1. Len(text) \in Nat /\ \A n \in 1..Len(text) : text[n] \in S
  BY LenProperties, ElementOfSeq
<1>2. \A n \in first..end : text[n] \in S
  BY <1>1
<1>3. QED  BY <1>2, SubSeqProperties

\* A string has no terminator in it, is what the buffer begins with, and one
\* follows it where the buffer has any.
LEMMA CStringFacts ==
  ASSUME NEW buffer \in Seq(0..255)
  PROVE  /\ CString(buffer) \in Seq(1..255)
         /\ Len(CString(buffer)) \in 0..Len(buffer)
         /\ \A n \in 1..Len(CString(buffer)) :
              CString(buffer)[n] = buffer[n] /\ buffer[n] # NUL
         /\ (\E n \in 1..Len(buffer) : buffer[n] = NUL)
            => /\ Len(CString(buffer)) < Len(buffer)
               /\ buffer[Len(CString(buffer)) + 1] = NUL
<1> DEFINE ends == In(buffer, 1, {NUL})
           first == FirstOf(ends, buffer)
<1>1. Len(buffer) \in Nat /\ \A n \in 1..Len(buffer) : buffer[n] \in 0..255
  BY LenProperties, ElementOfSeq
<1>2. ends = {n \in 1..Len(buffer) : buffer[n] = NUL} /\ ends \subseteq 1..Len(buffer)
  BY DEF In
<1> HIDE DEF ends
<1>3. /\ first \in 1..Len(buffer)+1
      /\ first \in ends \/ first = Len(buffer) + 1
      /\ \A n \in ends : first <= n
  BY <1>2, FirstOfFacts
<1>4. CString(buffer) = SubSeq(buffer, 1, first - 1)
  BY DEF CString, ends
<1> HIDE DEF first
<1>5. \A n \in 1..first-1 : buffer[n] \in 1..255 /\ buffer[n] # NUL
  <2>1. \A n \in 1..first-1 : n \in 1..Len(buffer) /\ n \notin ends
    BY <1>1, <1>3
  <2>2. QED  BY <2>1, <1>1, <1>2 DEF NUL
<1>6. /\ CString(buffer) \in Seq(1..255) /\ Len(CString(buffer)) = first - 1
      /\ \A n \in 1..first-1 : CString(buffer)[n] = buffer[n]
  <2>1. first - 1 \in Int /\ (1 <= first - 1 \/ first - 1 = 0)
        /\ (first - 1) - 1 + 1 = first - 1 /\ \A n \in 1..first-1 : 1 + n - 1 = n
    BY <1>1, <1>3
  <2>2. QED  BY <2>1, <1>4, <1>5, SubSeqProperties
<1>7. (\E n \in 1..Len(buffer) : buffer[n] = NUL) => first \in ends
  BY <1>1, <1>2, <1>3
<1>8. QED  BY <1>1, <1>2, <1>3, <1>5, <1>6, <1>7

\* Where a string ends.
LEMMA CStringEnds ==
  ASSUME NEW buffer \in Seq(0..255), NEW m \in Nat, m < Len(buffer),
         buffer[m+1] = NUL, \A n \in 1..m : buffer[n] # NUL
  PROVE  Len(CString(buffer)) = m
<1>1. Len(buffer) \in Nat /\ m + 1 \in 1..Len(buffer)
  BY LenProperties
<1> DEFINE L == Len(CString(buffer))
<1>2. L \in Nat /\ L < Len(buffer) /\ buffer[L+1] = NUL
      /\ \A n \in 1..L : buffer[n] # NUL
  BY <1>1, CStringFacts
<1> HIDE DEF L
<1>3. ~ (L < m)
  BY <1>2
<1>4. ~ (m < L)
  BY <1>1, <1>2
<1>5. L = m
  BY <1>2, <1>3, <1>4
<1>6. QED  BY <1>5 DEF L

-----------------------------------------------------------------------------
(* Positions in their order.                                               *)

\* None come before the first, and all before what follows the last.
LEMMA BeforeEnds ==
  ASSUME NEW L \in Nat, NEW P, P \subseteq 1..L
  PROVE  /\ Before(P, 1) = 0
         /\ Before(P, L + 1) = Cardinality(P)
         /\ Cardinality(P) \in Nat /\ IsFiniteSet(P)
<1>0. \A m \in P : ~ (m < 1) /\ m < L + 1
  <2>1. \A m \in P : m \in 1..L
    OBVIOUS
  <2>2. QED  BY <2>1
<1>1. IsFiniteSet(P)
  <2>1. IsFiniteSet(1..L) /\ P \in SUBSET (1..L)
    BY FS_Interval
  <2>2. QED  BY <2>1, FS_Subset
<1>2. {m \in P : m < 1} = {} /\ {m \in P : m < L + 1} = P
  BY <1>0
<1>3. QED  BY <1>1, <1>2, FS_EmptySet, FS_CardinalityType DEF Before

\* How many positions come before the next one.
LEMMA BeforeStep ==
  ASSUME NEW L \in Nat, NEW P, P \subseteq 1..L, NEW n \in Nat
  PROVE  /\ Before(P, n) \in Nat
         /\ n \in P => Before(P, n + 1) = Before(P, n) + 1
         /\ n \notin P => Before(P, n + 1) = Before(P, n)
<1> DEFINE less == {m \in P : m < n}
<1>0. \A m \in P : m \in 1..L /\ m \in Int
  OBVIOUS
<1>1. IsFiniteSet(P) /\ less \in SUBSET P
  BY BeforeEnds
<1>2. IsFiniteSet(less)
  BY <1>1, FS_Subset
<1>3. {m \in P : m < n + 1} = IF n \in P THEN less \cup {n} ELSE less
  <2>1. \A m \in P : m < n + 1 <=> m < n \/ m = n
    BY <1>0
  <2>2. QED  BY <2>1
<1>4. n \notin less /\ Before(P, n) = Cardinality(less)
  BY DEF Before
<1>5. Before(P, n + 1) = Cardinality(IF n \in P THEN less \cup {n} ELSE less)
  BY <1>3 DEF Before
<1> HIDE DEF less
<1>6. QED  BY <1>2, <1>4, <1>5, FS_AddElement, FS_CardinalityType

\* A position has its own number.
LEMMA BeforeInjective ==
  ASSUME NEW L \in Nat, NEW P, P \subseteq 1..L, NEW m \in P, NEW n \in P, m < n
  PROVE  Before(P, m) # Before(P, n)
<1> DEFINE less == {k \in P : k < m}
           more == {k \in P : k < n}
<1>0. \A k \in P : k \in 1..L /\ k \in Int
  OBVIOUS
<1>1. IsFiniteSet(P) /\ more \in SUBSET P
  BY BeforeEnds
<1>2. IsFiniteSet(more)
  BY <1>1, FS_Subset
<1>3. less \in SUBSET more /\ m \in more /\ m \notin less
  <2>1. (\A k \in P : k < m => k < n) /\ ~ (m < m)
    BY <1>0
  <2>2. QED  BY <2>1, <1>0
<1>4. Cardinality(less) # Cardinality(more)
  <2> HIDE DEF less, more
  <2>1. QED  BY <1>2, <1>3, FS_Subset
<1>5. QED  BY <1>4 DEF Before

\* The k-th position is the one before which k - 1 others come, for each k.
LEMMA NthFacts ==
  ASSUME NEW L \in Nat, NEW P, P \subseteq 1..L
  PROVE  /\ \A n \in P : Nth(P, Before(P, n) + 1) = n
         /\ \A k \in 1..Cardinality(P) : Nth(P, k) \in P
<1>0. \A n \in P : n \in 1..L /\ n \in Nat
  OBVIOUS
<1>1. \A n \in P : Before(P, n) \in Nat
  BY <1>0, BeforeStep
<1>2. ASSUME NEW n \in P  PROVE Nth(P, Before(P, n) + 1) = n
  <2>1. \A m \in P : Before(P, m) + 1 = Before(P, n) + 1 => m = n
    <3> SUFFICES ASSUME NEW m \in P, Before(P, m) + 1 = Before(P, n) + 1, m # n
                 PROVE  FALSE
      OBVIOUS
    <3>1. Before(P, m) = Before(P, n)
      BY <1>1
    <3>2. m < n \/ n < m
      OBVIOUS
    <3>3. QED  BY <3>1, <3>2, BeforeInjective
  <2>2. QED  BY <2>1 DEF Nth
<1>3. ASSUME NEW k \in 1..Cardinality(P)  PROVE Nth(P, k) \in P
  <2> DEFINE reached == {n \in Nat : Before(P, n + 1) >= k}
  <2>1. \A n \in Nat : Before(P, n) \in Nat
    BY BeforeStep
  <2>2. Before(P, 1) = 0 /\ Before(P, L + 1) = Cardinality(P) /\ Cardinality(P) \in Nat
    BY BeforeEnds
  <2>3. reached # {} /\ reached \subseteq Nat
    <3>1. L \in reached
      BY <2>2
    <3>2. QED  BY <3>1
  <2>4. PICK n \in reached : \A m \in reached : n <= m
    <3> HIDE DEF reached
    <3>1. QED  BY <2>3, MinFacts
  <2>5. n # 0 /\ n - 1 \in Nat
    BY <2>2, <2>4
  <2>6. ~ (Before(P, n) >= k)
    <3>1. n - 1 \notin reached /\ (n - 1) + 1 = n
      <4>1. n - 1 < n /\ n \in Nat
        BY <2>4, <2>5
      <4> HIDE DEF reached
      <4>2. QED  BY <4>1, <2>4
    <3>2. QED  BY <3>1, <2>5
  <2>7. n \in P /\ Before(P, n) + 1 = k
    <3>1. Before(P, n + 1) >= k /\ n \in Nat
      BY <2>4
    <3>2. Before(P, n) \in Nat /\ Before(P, n + 1) \in Nat /\ k \in Nat
      BY <3>1, <2>1, <2>2
    <3>3. Before(P, n + 1) = Before(P, n) => FALSE
      BY <3>1, <3>2, <2>6
    <3>4. n \in P /\ Before(P, n + 1) = Before(P, n) + 1
      BY <3>1, <3>3, BeforeStep
    <3>5. QED  BY <3>1, <3>2, <3>4, <2>6
  <2>8. QED  BY <2>7 DEF Nth
<1>4. QED  BY <1>2, <1>3

\* The selected values, one after the other.
LEMMA SelectedFacts ==
  ASSUME NEW L \in Nat, NEW P, P \subseteq 1..L, NEW S, NEW value,
         \A n \in P : value[n] \in S
  PROVE  /\ Selected(P, value) \in Seq(S)
         /\ Len(Selected(P, value)) = Cardinality(P)
         /\ \A k \in 1..Cardinality(P) : Selected(P, value)[k] = value[Nth(P, k)]
<1> DEFINE C == Cardinality(P)
<1>1. C \in Nat
  BY BeforeEnds
<1>2. \A k \in 1..C : value[Nth(P, k)] \in S
  BY NthFacts
<1>3. Selected(P, value) = [k \in 1..C |-> value[Nth(P, k)]]
  BY DEF Selected
<1> HIDE DEF C
<1>4. Selected(P, value) \in [1..C -> S]
  BY <1>2, <1>3
<1>5. Selected(P, value) \in Seq(S)
  BY <1>1, <1>4, SeqDef
<1>6. Len(Selected(P, value)) = C
  BY <1>1, <1>3, <1>5, LenProperties
<1>7. QED  BY <1>3, <1>5, <1>6 DEF C

\* The same, as what a loop has written at its end.
LEMMA SelectedWritten ==
  ASSUME NEW L \in Nat, NEW P, P \subseteq 1..L, NEW S, NEW value,
         \A n \in P : value[n] \in S
  PROVE  /\ Selected(P, value) \in Seq(S)
         /\ Len(Selected(P, value)) = Cardinality(P)
         /\ Written(P, value, Selected(P, value), Cardinality(P) + 1)
<1> DEFINE C == Cardinality(P)
<1>1. C \in Nat
  BY BeforeEnds
<1> HIDE DEF C
<1>2. (C + 1) - 1 = C
  BY <1>1
<1>3. /\ Selected(P, value) \in Seq(S) /\ Len(Selected(P, value)) = C
      /\ \A k \in 1..C : Selected(P, value)[k] = value[Nth(P, k)]
  BY SelectedFacts DEF C
<1>4. Written(P, value, Selected(P, value), C + 1)
  BY <1>2, <1>3 DEF Written
<1>5. QED  BY <1>3, <1>4 DEF C

-----------------------------------------------------------------------------
(* Escapes and slashes, in a text and in the buffer it was copied to.      *)

\* The value of a digit.
LEMMA HexValue ==
  ASSUME NEW c, HexDigit(c)
  PROVE  hex_to_int(c) \in 0..15 /\ c # Percent /\ c # NUL
BY DEF HexDigit, hex_to_int, Digits, UpperHex, LowerHex, Percent, NUL

\* The text of a path with two terminators after it.
LEMMA PaddedFacts ==
  ASSUME NEW word \in Seq(1..255)
  PROVE  /\ Len(word) \in Nat /\ DOMAIN word = 1..Len(word)
         /\ \A n \in 1..Len(word) : Padded(word)[n] = word[n] /\ word[n] \in 1..255
         /\ Padded(word)[Len(word) + 1] = NUL /\ Padded(word)[Len(word) + 2] = NUL
<1> DEFINE two == <<NUL, NUL>>
           L == Len(word)
<1>1. L \in Nat /\ DOMAIN word = 1..L /\ \A n \in 1..L : word[n] \in 1..255
  BY LenProperties, ElementOfSeq
<1>2. word \in Seq(0..255)
  <2>1. 1..255 \subseteq 0..255
    OBVIOUS
  <2>2. QED  BY <2>1, SeqMonotonic
<1>3. two \in Seq(0..255) /\ Len(two) = 2 /\ two[1] = NUL /\ two[2] = NUL
  BY DEF NUL
<1> HIDE DEF two
<1>4. \A n \in 1..L+2 : (word \o two)[n] = IF n <= L THEN word[n] ELSE two[n - L]
  <2>1. \A n \in 1..Len(word)+Len(two) :
          (word \o two)[n] = IF n <= Len(word) THEN word[n] ELSE two[n - Len(word)]
    BY ZenonT(30), <1>2, <1>3, ConcatProperties
  <2>2. QED  BY <2>1, <1>3
<1>5. Padded(word) = word \o two
  BY DEF Padded, two
<1>6. /\ \A n \in 1..L : n \in 1..L+2 /\ n <= L
      /\ L + 1 \in 1..L+2 /\ L + 2 \in 1..L+2 /\ ~ (L + 1 <= L) /\ ~ (L + 2 <= L)
      /\ (L + 1) - L = 1 /\ (L + 2) - L = 2
  BY <1>1
<1>7. QED  BY ZenonT(30), <1>1, <1>3, <1>4, <1>5, <1>6

\* An escape lies within the text, and its digits are no percent signs.
LEMMA EscapeFacts ==
  ASSUME NEW word \in Seq(1..255), NEW n \in Escapes(word)
  PROVE  /\ n \in 1..Len(word) /\ n + 1 \in 1..Len(word) /\ n + 2 \in 1..Len(word)
         /\ word[n] = Percent /\ word[n+1] # Percent /\ word[n+2] # Percent
         /\ EscapedByte(Padded(word), n) \in 0..255
<1> DEFINE s == Padded(word)
           L == Len(word)
<1>1. n \in 1..L /\ L \in Nat
  BY PaddedFacts DEF Escapes
<1>2. s[n] = Percent /\ HexDigit(s[n+1]) /\ HexDigit(s[n+2])
  BY DEF Escapes, Escape
<1>3. n + 1 # L + 1 /\ n + 2 # L + 1 /\ n + 2 # L + 2
  <2>1. s[n+1] # NUL /\ s[n+2] # NUL
    BY <1>2, HexValue
  <2>2. s[L+1] = NUL /\ s[L+2] = NUL
    BY PaddedFacts
  <2> HIDE DEF s
  <2>3. QED  BY <2>1, <2>2
<1>4. n + 1 \in 1..L /\ n + 2 \in 1..L
  BY <1>1, <1>3
<1>5. s[n] = word[n] /\ s[n+1] = word[n+1] /\ s[n+2] = word[n+2]
  BY <1>1, <1>4, PaddedFacts
<1>6. hex_to_int(s[n+1]) \in 0..15 /\ hex_to_int(s[n+2]) \in 0..15
      /\ s[n+1] # Percent /\ s[n+2] # Percent
  BY <1>2, HexValue
<1>7. EscapedByte(s, n) \in 0..255
  <2> DEFINE high == hex_to_int(s[n+1])
             low == hex_to_int(s[n+2])
  <2>1. EscapedByte(s, n) = 16 * high + low
    BY DEF EscapedByte
  <2>2. high \in 0..15 /\ low \in 0..15
    BY <1>6
  <2> HIDE DEF high, low, s
  <2>3. QED  BY <2>1, <2>2
<1> HIDE DEF s
<1>8. QED  BY <1>1, <1>2, <1>4, <1>5, <1>6, <1>7 DEF s

\* The decoded text, and what its positions mean.
LEMMA DecodedFacts ==
  ASSUME NEW word \in Seq(1..255)
  PROVE  LET P == DOMAIN word \ Spent(word) IN
         /\ P \subseteq 1..Len(word) /\ Len(word) \in Nat
         /\ \A n \in 1..Len(word) : Meant(word)[n] \in 0..255
         /\ Decoded(word) \in Seq(0..255)
         /\ Len(Decoded(word)) = Cardinality(P)
         /\ \A k \in 1..Cardinality(P) : Decoded(word)[k] = Meant(word)[Nth(P, k)]
<1> DEFINE P == DOMAIN word \ Spent(word)
<1>1. P \subseteq 1..Len(word) /\ Len(word) \in Nat
  BY PaddedFacts
<1>2. \A n \in 1..Len(word) : Meant(word)[n] \in 0..255
  <2> SUFFICES ASSUME NEW n \in 1..Len(word) PROVE Meant(word)[n] \in 0..255
    OBVIOUS
  <2>1. n \in Escapes(word) => EscapedByte(Padded(word), n) \in 0..255
    BY EscapeFacts
  <2>2. word[n] \in 0..255 /\ n \in DOMAIN word
    BY PaddedFacts
  <2>3. QED  BY <2>1, <2>2 DEF Meant
<1>3. \A n \in P : Meant(word)[n] \in 0..255
  BY <1>1, <1>2
<1> HIDE DEF P
<1>4. /\ Selected(P, Meant(word)) \in Seq(0..255)
      /\ Len(Selected(P, Meant(word))) = Cardinality(P)
      /\ \A k \in 1..Cardinality(P) : Selected(P, Meant(word))[k] = Meant(word)[Nth(P, k)]
  BY ZenonT(30), <1>1, <1>3, SelectedFacts
<1>5. Decoded(word) = Selected(P, Meant(word))
  BY DEF Decoded, P
<1>6. QED  BY <1>1, <1>2, <1>4, <1>5 DEF P

\* The string that is decoded from a path.
LEMMA WordFacts ==
  ASSUME NEW D \in Seq(0..255)
  PROVE  LET W == CString(D \o <<NUL>>) IN
         /\ W \in Seq(1..255) /\ Len(W) \in 0..Len(D) /\ Len(D) \in Nat
         /\ \A n \in 1..Len(W) : W[n] = D[n] /\ W[n] # NUL
         /\ Len(W) = Len(D) \/ D[Len(W) + 1] = NUL
<1> DEFINE b == D \o <<NUL>>
           W == CString(b)
<1>0. NUL \in 0..255
  BY DEF NUL
<1>1. <<NUL>> \in Seq(0..255) /\ Len(<<NUL>>) = 1 /\ <<NUL>>[1] = NUL
  BY <1>0
<1>2. /\ b \in Seq(0..255) /\ Len(b) = Len(D) + 1 /\ Len(D) \in Nat
      /\ \A n \in 1..Len(D) : b[n] = D[n]
      /\ b[Len(D) + 1] = NUL
  <2>1. Len(D) \in Nat
    BY LenProperties
  <2>2. /\ \A n \in 1..Len(D) : n \in 1..Len(D)+1 /\ n <= Len(D)
        /\ Len(D) + 1 \in 1..Len(D)+1 /\ ~ (Len(D) + 1 <= Len(D))
        /\ (Len(D) + 1) - Len(D) = 1
    BY <2>1
  <2>3. QED  BY <1>1, <2>1, <2>2, ConcatProperties
<1> HIDE DEF b
<1>3. /\ W \in Seq(1..255) /\ Len(W) \in 0..Len(b) /\ Len(W) < Len(b)
      /\ \A n \in 1..Len(W) : W[n] = b[n] /\ b[n] # NUL
      /\ b[Len(W) + 1] = NUL
  <2>1. \E n \in 1..Len(b) : b[n] = NUL
    BY <1>2
  <2>2. QED  BY <1>2, <2>1, CStringFacts
<1> HIDE DEF W
<1>4. Len(W) \in 0..Len(D) /\ \A n \in 1..Len(W) : W[n] = D[n] /\ W[n] # NUL
  BY <1>2, <1>3
<1>5. Len(W) = Len(D) \/ D[Len(W) + 1] = NUL
  BY <1>2, <1>3, <1>4
<1>6. QED  BY <1>2, <1>3, <1>4, <1>5 DEF W, b

-----------------------------------------------------------------------------
(* The loops.                                                              *)

\* The buffer as a loop finds it.
LEMMA BufferTyped ==
  ASSUME PathTypeOK, decoded # <<>>
  PROVE  /\ decoded \in Seq(0..255) /\ Len(decoded) \in Nat \ {0}
         /\ decoded[Len(decoded)] = NUL
         /\ \A n \in 1..Len(decoded) : decoded[n] \in 0..255
         /\ src \in 1..Len(decoded) /\ dst \in 1..src /\ depth \in Int
<1>1. /\ decoded \in Seq(0..255) /\ src \in Nat \ {0} /\ dst \in 1..src /\ depth \in Int
      /\ src <= Len(decoded) /\ decoded[Len(decoded)] = NUL
  BY DEF PathTypeOK, Last
<1>2. Len(decoded) \in Nat \ {0} /\ \A n \in 1..Len(decoded) : decoded[n] \in 0..255
  BY <1>1, EmptySeq, ElementOfSeq
<1>3. QED  BY <1>1, <1>2

\* A byte is put behind what was read.
LEMMA PutFacts ==
  ASSUME PathTypeOK, decoded # <<>>, NEW c \in 0..255, Put(c),
         dst # Len(decoded) \/ c = NUL
  PROVE  /\ decoded' \in Seq(0..255) /\ decoded' # <<>>
         /\ Len(decoded') = Len(decoded) /\ Last(decoded') = NUL
         /\ decoded'[dst] = c
         /\ \A n \in 1..Len(decoded) : n # dst => decoded'[n] = decoded[n]
<1> DEFINE N == Len(decoded)
<1>1. /\ decoded \in Seq(0..255) /\ N \in Nat \ {0} /\ decoded[N] = NUL
      /\ src \in 1..N /\ dst \in 1..src
  BY BufferTyped
<1>2. dst \in 1..N /\ N \in 1..N
  BY <1>1
<1>3. decoded' = [decoded EXCEPT ![dst] = c]
  BY DEF Put
<1>4. /\ decoded' \in Seq(0..255) /\ Len(decoded') = N
      /\ \A n \in 1..N : decoded'[n] = IF n = dst THEN c ELSE decoded[n]
  BY <1>1, <1>2, <1>3, ExceptSeq
<1>5. decoded' # <<>>
  BY <1>1, <1>4, EmptySeq
<1>6. decoded'[N] = NUL
  BY <1>1, <1>2, <1>4
<1>7. QED  BY <1>2, <1>4, <1>5, <1>6 DEF Last

\* What a loop has done when it puts the value of a position it keeps and goes to
\* the next one that it may keep.
LEMMA LoopKeeps ==
  ASSUME PathTypeOK, decoded # <<>>, NEW text, Len(text) \in Nat,
         NEW P, P \subseteq 1..Len(text), NEW value,
         LoopAt(text, P, value), src \in P, value[src] \in 0..255, Put(value[src]),
         src' = src + 1 \/ (src' = src + 3 /\ src + 1 \notin P /\ src + 2 \notin P),
         src' <= Len(text) + 1, dst' = dst + 1
  PROVE  /\ Len(text) < Len(decoded') /\ decoded'[Len(text) + 1] = NUL
         /\ src' <= Len(text) + 1
         /\ \A m \in src'..Len(text) : decoded'[m] = text[m]
         /\ dst' = Before(P, src') + 1
         /\ Written(P, value, decoded', dst')
<1> DEFINE L == Len(text)
           c == value[src]
<1>0. /\ L < Len(decoded) /\ decoded[L + 1] = NUL /\ src <= L + 1
      /\ \A m \in src..L : decoded[m] = text[m]
      /\ dst = Before(P, src) + 1
      /\ \A k \in 1..dst-1 : decoded[k] = value[Nth(P, k)]
  BY DEF LoopAt, Written
<1>1. /\ Len(decoded) \in Nat /\ src \in 1..L /\ dst \in 1..src /\ dst # Len(decoded)
      /\ L \in Nat /\ dst # L + 1 /\ src \in Nat /\ dst \in Nat
  <2>1. src \in 1..L
    OBVIOUS
  <2>2. Len(decoded) \in Nat /\ dst \in 1..src
    BY BufferTyped
  <2>3. QED  BY <2>1, <2>2, <1>0
<1>2. /\ Len(decoded') = Len(decoded) /\ decoded'[dst] = c
      /\ \A m \in 1..Len(decoded) : m # dst => decoded'[m] = decoded[m]
  BY <1>1, PutFacts
<1>3. L + 1 \in 1..Len(decoded) /\ decoded'[L + 1] = NUL
  BY <1>0, <1>1, <1>2
<1>4. \A m \in src'..L : decoded'[m] = text[m]
  <2> SUFFICES ASSUME NEW m \in src'..L PROVE decoded'[m] = text[m]
    OBVIOUS
  <2>1. m \in src..L /\ m \in 1..Len(decoded) /\ m # dst
    BY <1>0, <1>1
  <2>2. QED  BY <2>1, <1>0, <1>2
<1>5. Before(P, src') = Before(P, src) + 1
  <2>1. Before(P, src + 1) = Before(P, src) + 1
    BY <1>1, BeforeStep
  <2>2. CASE src' = src + 3 /\ src + 1 \notin P /\ src + 2 \notin P
    <3> DEFINE one == src + 1
               two == src + 2
    <3>1. one \in Nat /\ two \in Nat /\ one + 1 = two /\ two + 1 = src + 3
          /\ one \notin P /\ two \notin P
      BY <1>1, <2>2
    <3>2. Before(P, one) = Before(P, src) + 1
      BY <2>1
    <3> HIDE DEF one, two
    <3>3. Before(P, one + 1) = Before(P, one)
      BY <3>1, <1>1, BeforeStep
    <3>4. Before(P, two + 1) = Before(P, two)
      BY ZenonT(30), <3>1, <1>1, BeforeStep
    <3>5. QED  BY <3>1, <3>2, <3>3, <3>4, <2>2
  <2>3. QED  BY <2>1, <2>2
<1>6. \A k \in 1..dst'-1 : decoded'[k] = value[Nth(P, k)]
  <2> SUFFICES ASSUME NEW k \in 1..dst'-1 PROVE decoded'[k] = value[Nth(P, k)]
    OBVIOUS
  <2>1. CASE k = dst
    <3>1. Nth(P, dst) = src
      BY <1>0, NthFacts
    <3>2. QED  BY <2>1, <3>1, <1>2
  <2>2. CASE k # dst
    <3>1. k \in 1..dst-1 /\ k \in 1..Len(decoded)
      BY <2>2, <1>0, <1>1
    <3>2. QED  BY <3>1, <2>2, <1>0, <1>2
  <2>3. QED  BY <2>1, <2>2
<1>7. dst' = Before(P, src') + 1
  BY <1>0, <1>5
<1>8. Written(P, value, decoded', dst')
  BY <1>6 DEF Written
<1>9. QED  BY <1>0, <1>1, <1>2, <1>3, <1>4, <1>7, <1>8

\* What a loop has done when it has come to the terminator and puts its own.
LEMMA LoopEnds ==
  ASSUME PathTypeOK, decoded # <<>>, NEW text, Len(text) \in Nat,
         \A n \in 1..Len(text) : text[n] # NUL,
         NEW P, P \subseteq 1..Len(text), NEW value,
         LoopAt(text, P, value), decoded[src] = NUL, Put(NUL)
  PROVE  /\ decoded' \in Seq(0..255) /\ decoded' # <<>>
         /\ Len(decoded') = Len(decoded) /\ Last(decoded') = NUL
         /\ Cardinality(P) \in Nat /\ Cardinality(P) < Len(decoded)
         /\ decoded'[Cardinality(P) + 1] = NUL
         /\ Written(P, value, decoded', Cardinality(P) + 1)
<1> DEFINE L == Len(text)
<1>0. /\ L < Len(decoded) /\ decoded[L + 1] = NUL /\ src <= L + 1
      /\ \A m \in src..L : decoded[m] = text[m]
      /\ dst = Before(P, src) + 1
      /\ \A k \in 1..dst-1 : decoded[k] = value[Nth(P, k)]
  BY DEF LoopAt, Written
<1>1. Len(decoded) \in Nat /\ src \in 1..Len(decoded) /\ dst \in 1..src /\ L \in Nat
  BY BufferTyped
<1>2. src = L + 1
  <2>1. src \in 1..L => decoded[src] = text[src] /\ text[src] # NUL
    BY <1>0, <1>1
  <2>2. QED  BY <2>1, <1>0, <1>1
<1>3. dst = Cardinality(P) + 1 /\ Cardinality(P) \in Nat
  BY <1>0, <1>2, BeforeEnds
<1>4. NUL \in 0..255
  BY DEF NUL
<1>5. /\ decoded' \in Seq(0..255) /\ decoded' # <<>>
      /\ Len(decoded') = Len(decoded) /\ Last(decoded') = NUL
      /\ decoded'[dst] = NUL
      /\ \A n \in 1..Len(decoded) : n # dst => decoded'[n] = decoded[n]
  BY <1>4, PutFacts
<1>6. \A k \in 1..Cardinality(P) : decoded'[k] = value[Nth(P, k)]
  <2> SUFFICES ASSUME NEW k \in 1..Cardinality(P) PROVE decoded'[k] = value[Nth(P, k)]
    OBVIOUS
  <2>1. k \in 1..dst-1 /\ k \in 1..Len(decoded) /\ k # dst
    BY <1>0, <1>1, <1>2, <1>3
  <2>2. QED  BY <2>1, <1>0, <1>5
<1>7. Cardinality(P) < Len(decoded)
  BY <1>0, <1>1, <1>2, <1>3
<1>8. Written(P, value, decoded', Cardinality(P) + 1)
  BY <1>3, <1>6 DEF Written
<1>9. QED  BY <1>3, <1>5, <1>7, <1>8

-----------------------------------------------------------------------------
(* The invariant of the path is inductive.                                 *)

\* Texts, when the request is read, and the empty buffer.
LEMMA InitPath ==
  ASSUME PathInit
  PROVE  PathInv
<1> USE RequestPathAssumption DEF PathInit
<1>1. PathTypeOK
  <2>1. \A text \in {raw, line, path, body} : text \in Seq(1..255)
    BY EmptySeq
  <2>2. decoded \in Seq(0..255)
    BY EmptySeq
  <2>3. QED  BY <2>1, <2>2 DEF PathTypeOK
<1>2. QED  BY <1>1 DEF PathInv, Copied, Decoding, Normalizing, PathAsSent

\* The line and what is left of the request are parts of it.
LEMMA StrtokInv ==
  ASSUME PathInv, strtok
  PROVE  PathInv'
<1>1. raw \in Seq(1..255) /\ Len(raw) \in Nat
  BY LenProperties DEF PathInv, PathTypeOK
<1>2. PICK first \in {FirstOf(NotIn(raw, 1, {Newline}), raw)} :
        \E next \in {FirstOf(In(raw, first, {Newline}), raw)} :
          /\ line' = SubSeq(raw, first, next - 1)
          /\ raw' = SubSeq(raw, 1, next - 1)
  BY DEF strtok
<1>3. PICK next \in {FirstOf(In(raw, first, {Newline}), raw)} :
        /\ line' = SubSeq(raw, first, next - 1)
        /\ raw' = SubSeq(raw, 1, next - 1)
  BY <1>2
<1>4. first \in 1..Len(raw)+1
  <2>1. NotIn(raw, 1, {Newline}) \subseteq 1..Len(raw)
    BY DEF NotIn
  <2>2. QED  BY ZenonT(30), <2>1, <1>1, FirstOfFacts
<1>5. next \in 1..Len(raw)+1
  <2>1. In(raw, first, {Newline}) \subseteq first..Len(raw)
    BY DEF In
  <2>2. In(raw, first, {Newline}) \subseteq 1..Len(raw)
    <3>1. \A n \in first..Len(raw) : n \in 1..Len(raw)
      BY <1>1, <1>4
    <3>2. QED  BY <2>1, <3>1
  <2>3. QED  BY ZenonT(30), <2>2, <1>1, FirstOfFacts
<1>6. line' \in Seq(1..255) /\ raw' \in Seq(1..255)
  <2> DEFINE end == next - 1
  <2>1. first \in Nat \ {0} /\ 1 \in Nat \ {0} /\ end \in Int /\ end <= Len(raw)
    BY <1>1, <1>4, <1>5
  <2>2. line' = SubSeq(raw, first, end) /\ raw' = SubSeq(raw, 1, end)
    BY <1>3
  <2> HIDE DEF end
  <2>3. QED  BY <2>1, <2>2, <1>1, PartOfText
<1>7. PathTypeOK' /\ at' = "parse"
  BY ZenonT(30), <1>6 DEF PathInv, PathTypeOK, strtok, buffer_vars
<1>8. QED  BY <1>7 DEF PathInv, Copied, Decoding, Normalizing, PathAsSent

\* A word ends within its text.
LEMMA WordEndFacts ==
  ASSUME NEW text \in Seq(1..255), NEW first \in 1..Len(text)+1, NEW width \in Nat
  PROVE  WordEnd(text, first, width) \in 0..Len(text)
<1> DEFINE space == FirstOf(In(text, first, Spaces), text)
<1>1. Len(text) \in Nat
  BY LenProperties
<1>2. space \in 1..Len(text)+1
  <2>1. In(text, first, Spaces) \subseteq 1..Len(text)
    <3>1. In(text, first, Spaces) \subseteq first..Len(text)
      BY DEF In
    <3>2. \A n \in first..Len(text) : n \in 1..Len(text)
      BY <1>1
    <3>3. QED  BY <3>1, <3>2
  <2>2. QED  BY <2>1, FirstOfFacts
<1>3. WordEnd(text, first, width) = Min({first + width, space}) - 1
  BY DEF WordEnd
<1> HIDE DEF space
<1>4. /\ Min({first + width, space}) \in {first + width, space}
      /\ Min({first + width, space}) <= space
  <2> DEFINE two == {first + width, space}
  <2>1. two \subseteq Nat /\ two # {} /\ space \in two
    BY <1>1, <1>2
  <2> HIDE DEF two
  <2>2. Min(two) \in two /\ \A n \in two : Min(two) <= n
    BY <2>1, MinFacts
  <2>3. QED  BY <2>1, <2>2 DEF two
<1>5. QED  BY <1>1, <1>2, <1>3, <1>4

\* The path and the body are parts of the request.
LEMMA ParseInv ==
  ASSUME PathInv, parse_request
  PROVE  PathInv'
<1> USE RequestPathAssumption
<1>1. raw \in Seq(1..255) /\ Len(raw) \in Nat /\ line \in Seq(1..255) /\ Len(line) \in Nat
  BY LenProperties DEF PathInv, PathTypeOK
<1>2. ASSUME NEW word \in PathWords(line)  PROVE word \in Seq(1..255)
  <2> DEFINE first == FirstOf(NotIn(line, 1, Spaces), line)
             end == WordEnd(line, first, MethodWidth)
             second == FirstOf(NotIn(line, end + 1, Spaces), line)
  <2>1. word = SubSeq(line, second, WordEnd(line, second, PathWidth))
    BY <1>2 DEF PathWords
  <2>2. first \in 1..Len(line)+1
    <3>1. NotIn(line, 1, Spaces) \subseteq 1..Len(line)
      BY DEF NotIn
    <3>2. QED  BY <3>1, <1>1, FirstOfFacts
  <2> HIDE DEF first
  <2>3. end \in 0..Len(line)
    BY <1>1, <2>2, WordEndFacts
  <2> HIDE DEF end
  <2>4. second \in 1..Len(line)+1
    <3>1. NotIn(line, end + 1, Spaces) \subseteq (end+1)..Len(line)
      BY DEF NotIn
    <3>2. \A n \in (end+1)..Len(line) : n \in 1..Len(line)
      BY <1>1, <2>3
    <3>3. NotIn(line, end + 1, Spaces) \subseteq 1..Len(line)
      BY <3>1, <3>2
    <3>4. QED  BY <3>3, <1>1, FirstOfFacts
  <2> HIDE DEF second
  <2>5. WordEnd(line, second, PathWidth) \in 0..Len(line)
    BY <1>1, <2>4, WordEndFacts
  <2> DEFINE last == WordEnd(line, second, PathWidth)
  <2>6. second \in Nat \ {0} /\ last \in Int /\ last <= Len(line)
    BY <1>1, <2>4, <2>5
  <2> HIDE DEF last
  <2>7. QED  BY <2>1, <2>6, <1>1, PartOfText DEF last
<1>3. path' \in Seq(1..255)
  BY <1>2 DEF parse_request
<1>4. AfterHeaders(raw) \in Seq(1..255)
  <2>1. CASE ~ Occurs(EndOfHeaders, raw)
    BY <2>1, EmptySeq DEF AfterHeaders
  <2>2. CASE Occurs(EndOfHeaders, raw)
    <3> DEFINE found == Occurrences(EndOfHeaders, raw)
    <3>1. \A n \in found : n \in Nat
      BY <1>1 DEF Occurrences
    <3>2. found # {}
      BY <2>2 DEF Occurs
    <3> HIDE DEF found
    <3>3. Min(found) \in Nat
      <4>1. found \subseteq Nat
        BY <3>1
      <4>2. Min(found) \in found
        BY <4>1, <3>2, MinFacts
      <4>3. QED  BY <4>1, <4>2
    <3> DEFINE start == Min(found) + 4
               end == Len(raw)
    <3>4. start \in Nat \ {0} /\ end \in Int /\ end <= Len(raw)
      BY <3>3, <1>1
    <3>5. AfterHeaders(raw) = SubSeq(raw, start, end)
      BY <2>2 DEF AfterHeaders, found
    <3> HIDE DEF start, end
    <3>6. QED  BY ZenonT(30), <3>4, <3>5, <1>1, PartOfText
  <2>3. QED  BY <2>1, <2>2
<1>5. PathTypeOK' /\ at' = "copy"
  BY <1>3, <1>4 DEF PathInv, PathTypeOK, parse_request, buffer_vars
<1>6. QED  BY <1>5 DEF PathInv, Copied, Decoding, Normalizing, PathAsSent

\* The buffer is the path and its terminator.
LEMMA CopyInv ==
  ASSUME PathInv, CopyPath
  PROVE  PathInv'
<1> DEFINE L == Len(path)
           P == DOMAIN path \ Spent(path)
<1>1. path \in Seq(1..255) /\ L \in Nat /\ DOMAIN path = 1..L
      /\ \A n \in 1..L : path[n] \in 1..255
  BY LenProperties, ElementOfSeq DEF PathInv, PathTypeOK
<1>2. /\ decoded' = Append(path, NUL) /\ src' = 1 /\ dst' = 1 /\ at' = "decode"
      /\ UNCHANGED <<raw, line, path, body, depth>>
  BY DEF CopyPath, Rewind, text_vars
<1>3. /\ decoded' \in Seq(0..255) /\ decoded' # <<>> /\ Len(decoded') = L + 1
      /\ \A n \in 1..L : decoded'[n] = path[n]
      /\ decoded'[L + 1] = NUL
  <2>1. path \in Seq(0..255) /\ NUL \in 0..255
    <3>1. 1..255 \subseteq 0..255
      OBVIOUS
    <3>2. QED  BY <3>1, <1>1, SeqMonotonic DEF NUL
  <2>2. QED  BY <2>1, <1>2, AppendProperties
<1>4. PathTypeOK'
  BY <1>1, <1>2, <1>3 DEF PathInv, PathTypeOK, Last
<1>5. P \subseteq 1..L
  BY <1>1
<1>6. Before(P, 1) = 0
  BY <1>1, <1>5, BeforeEnds
<1>7. 1 \notin Spent(path)
  <2>1. \A n \in Escapes(path) : n \in Nat \ {0}
    BY <1>1 DEF Escapes
  <2>2. QED  BY <2>1 DEF Spent
<1>8. Decoding'
  <2>1. LoopAt(path, P, Meant(path))'
    <3> HIDE DEF P
    <3>1. P' = P
      BY <1>2 DEF P
    <3>2. Before(P, src') = 0
      BY <1>2, <1>6
    <3>3. Written(P, Meant(path), decoded', dst')
      BY <1>2 DEF Written
    <3>4. Meant(path)' = Meant(path)
      BY <1>2
    <3>5. QED  BY <1>1, <1>2, <1>3, <3>1, <3>2, <3>3, <3>4 DEF LoopAt
  <2>2. QED  BY <2>1, <1>2, <1>7 DEF Decoding
<1>9. QED  BY <1>2, <1>3, <1>4, <1>8 DEF PathInv, Copied, Normalizing, PathAsSent

\* A loop that puts a byte stays within the buffer.
LEMMA EmitTyped ==
  ASSUME PathTypeOK, decoded # <<>>, NEW c \in 0..255, NEW n \in {1, 3}, Emit(c, n),
         src + n <= Len(decoded)
  PROVE  PathTypeOK' /\ decoded' # <<>>
<1>1. /\ Len(decoded) \in Nat \ {0} /\ src \in 1..Len(decoded) /\ dst \in 1..src
      /\ depth \in Int
  BY BufferTyped
<1>2. Put(c) /\ src' = src + n /\ dst' = dst + 1
      /\ UNCHANGED <<raw, line, path, body, depth, at>>
  BY DEF Emit, text_vars
<1>3. dst # Len(decoded)
  BY <1>1
<1>4. /\ decoded' \in Seq(0..255) /\ decoded' # <<>>
      /\ Len(decoded') = Len(decoded) /\ Last(decoded') = NUL
  BY <1>2, <1>3, PutFacts
<1>5. src' \in Nat \ {0} /\ src' <= Len(decoded') /\ dst' \in 1..src'
  BY <1>1, <1>2, <1>4
<1>6. QED  BY <1>1, <1>2, <1>4, <1>5 DEF PathTypeOK

\* In the part that is still to be read, the buffer has the escapes of the path.
LEMMA EscapeInBuffer ==
  ASSUME PathTypeOK, decoded # <<>>, path \in Seq(1..255), src \in 1..Len(path),
         Len(path) < Len(decoded), decoded[Len(path) + 1] = NUL,
         \A n \in src..Len(path) : decoded[n] = path[n]
  PROVE  /\ Escape(decoded, src) <=> src \in Escapes(path)
         /\ src \in Escapes(path)
            => EscapedByte(decoded, src) = EscapedByte(Padded(path), src)
<1> DEFINE L == Len(path)
           s == Padded(path)
           one == src + 1
           two == src + 2
<1>1. /\ L \in Nat /\ DOMAIN path = 1..L
      /\ \A n \in 1..L : s[n] = path[n]
      /\ s[L + 1] = NUL
  BY PaddedFacts
<1>2. \A n \in src..L+1 : decoded[n] = s[n]
  <2> SUFFICES ASSUME NEW n \in src..L+1 PROVE decoded[n] = s[n]
    OBVIOUS
  <2>1. n = L + 1 \/ (n \in src..L /\ n \in 1..L)
    BY <1>1
  <2> HIDE DEF s
  <2>2. QED  BY <2>1, <1>1
<1> HIDE DEF s
<1>3. decoded[src] = s[src] /\ decoded[one] = s[one]
  <2>1. src \in src..L+1 /\ one \in src..L+1
    BY <1>1
  <2>2. QED  BY <2>1, <1>2
<1>4. HexDigit(s[one]) => decoded[two] = s[two]
  <2> SUFFICES ASSUME HexDigit(s[one]) PROVE decoded[two] = s[two]
    OBVIOUS
  <2>1. s[one] # NUL
    BY HexValue
  <2>2. one # L + 1
    BY <2>1, <1>1
  <2>3. two \in src..L+1
    BY <2>2, <1>1
  <2>4. QED  BY <2>3, <1>2
<1>5. src \in Escapes(path) <=> s[src] = Percent /\ HexDigit(s[one]) /\ HexDigit(s[two])
  BY <1>1 DEF Escapes, Escape, s
<1>6. Escape(decoded, src)
      <=> decoded[src] = Percent /\ HexDigit(decoded[one]) /\ HexDigit(decoded[two])
  BY DEF Escape
<1>7. Escape(decoded, src) <=> src \in Escapes(path)
  BY <1>3, <1>4, <1>5, <1>6
<1>8. src \in Escapes(path) => EscapedByte(decoded, src) = EscapedByte(s, src)
  BY <1>3, <1>4, <1>5 DEF EscapedByte
<1>9. QED  BY <1>7, <1>8 DEF s

\* The two digits of an escape are spent, the escape itself is not, and after a
\* position that is not spent neither is the one where the loop goes on.
LEMMA NextUnspent ==
  ASSUME NEW word \in Seq(1..255), NEW n \in 1..Len(word), n \notin Spent(word)
  PROVE  /\ n \notin Escapes(word) => n + 1 \notin Spent(word)
         /\ n \in Escapes(word)
            => /\ n + 1 \in Spent(word) /\ n + 2 \in Spent(word)
               /\ n + 3 \notin Spent(word)
<1>1. \A m \in Escapes(word) : m \in Int
  BY EscapeFacts
<1>2. \A k : k \in Spent(word) <=> \E m \in Escapes(word) : k = m + 1 \/ k = m + 2
  BY DEF Spent
<1>3. ASSUME n \notin Escapes(word)  PROVE n + 1 \notin Spent(word)
  <2> SUFFICES ASSUME NEW m \in Escapes(word), n + 1 = m + 1 \/ n + 1 = m + 2 PROVE FALSE
    BY <1>2
  <2>1. m = n \/ n = m + 1
    BY <1>1
  <2>2. QED  BY <2>1, <1>2, <1>3
<1>4. ASSUME n \in Escapes(word)
      PROVE  /\ n + 1 \in Spent(word) /\ n + 2 \in Spent(word)
             /\ n + 3 \notin Spent(word)
  <2>1. n + 1 \in Spent(word) /\ n + 2 \in Spent(word)
    BY <1>2, <1>4
  <2>2. n + 3 \notin Spent(word)
    <3> SUFFICES ASSUME NEW m \in Escapes(word), n + 3 = m + 1 \/ n + 3 = m + 2 PROVE FALSE
      BY <1>2
    <3>1. m = n + 2 \/ m = n + 1
      BY <1>1
    <3>2. word[n+1] # Percent /\ word[n+2] # Percent /\ word[m] = Percent
      BY <1>4, EscapeFacts
    <3>3. QED  BY <3>1, <3>2
  <2>3. QED  BY <2>1, <2>2
<1>5. QED  BY <1>3, <1>4

\* One escape or one character is decoded.
LEMMA DecodeInv ==
  ASSUME PathInv, DecodeEscape \/ DecodeOther
  PROVE  PathInv'
<1> DEFINE L == Len(path)
           P == DOMAIN path \ Spent(path)
           V == Meant(path)
<1>0. /\ PathTypeOK /\ at = "decode" /\ decoded # <<>>
      /\ path \in Seq(1..255) /\ src \notin Spent(path)
  BY DEF PathInv, PathTypeOK, Copied, Decoding, DecodeEscape, DecodeOther
<1>1. /\ L < Len(decoded) /\ decoded[L + 1] = NUL /\ src <= L + 1
      /\ \A n \in src..L : decoded[n] = path[n]
  BY <1>0 DEF PathInv, Decoding, LoopAt
<1>a. LoopAt(path, P, V)
  BY <1>0 DEF PathInv, Decoding
<1>2. /\ L \in Nat /\ DOMAIN path = 1..L /\ Len(decoded) \in Nat
      /\ src \in 1..Len(decoded)
  BY <1>0, LenProperties, BufferTyped
<1>3. src \in 1..L
  <2>1. decoded[src] # NUL
    BY DEF DecodeEscape, DecodeOther, Escape, Percent, NUL
  <2>2. QED  BY <2>1, <1>1, <1>2
<1>4. /\ Escape(decoded, src) <=> src \in Escapes(path)
      /\ src \in Escapes(path)
         => EscapedByte(decoded, src) = EscapedByte(Padded(path), src)
  BY <1>0, <1>1, <1>3, EscapeInBuffer
<1>5. /\ src \notin Escapes(path) => src + 1 \notin Spent(path)
      /\ src \in Escapes(path)
         => /\ src + 1 \in Spent(path) /\ src + 2 \in Spent(path)
            /\ src + 3 \notin Spent(path) /\ src + 2 \in 1..L
  BY <1>0, <1>3, NextUnspent, EscapeFacts
<1>6. \E n \in {1, 3} : /\ Emit(V[src], n) /\ src + n <= L + 1
                        /\ n = 3 => src + 1 \notin P /\ src + 2 \notin P
                        /\ src + n \notin Spent(path)
  <2>1. CASE DecodeEscape
    <3>1. src \in Escapes(path)
      BY <2>1, <1>4 DEF DecodeEscape
    <3>2. V[src] = EscapedByte(decoded, src)
      BY <3>1, <1>2, <1>3, <1>4 DEF Meant
    <3>3. Emit(V[src], 3)
      BY <2>1, <3>2 DEF DecodeEscape
    <3>4. src + 3 <= L + 1
      BY <3>1, <1>5, <1>2, <1>3
    <3> HIDE DEF V
    <3>5. QED  BY <3>1, <3>3, <3>4, <1>5
  <2>2. CASE DecodeOther
    <3>1. src \notin Escapes(path)
      BY <2>2, <1>4 DEF DecodeOther
    <3>2. src \in src..L
      BY <1>2, <1>3
    <3>3. V[src] = decoded[src]
      BY <3>1, <3>2, <1>1, <1>2, <1>3 DEF Meant
    <3>4. Emit(V[src], 1)
      BY <2>2, <3>3 DEF DecodeOther
    <3>5. src + 1 <= L + 1
      BY <1>2, <1>3
    <3> HIDE DEF V
    <3>6. QED  BY <3>1, <3>4, <3>5, <1>5
  <2>3. QED  BY <2>1, <2>2
<1>7. P \subseteq 1..L /\ src \in P /\ V[src] \in 0..255
  BY <1>0, <1>2, <1>3, DecodedFacts
<1> HIDE DEF P, V
<1>8. PICK n \in {1, 3} : /\ Emit(V[src], n) /\ src + n <= L + 1
                          /\ n = 3 => src + 1 \notin P /\ src + 2 \notin P
                          /\ src + n \notin Spent(path)
  BY <1>6
<1>9. PathTypeOK' /\ decoded' # <<>>
  <2>1. src + n <= Len(decoded)
    BY <1>1, <1>2, <1>8
  <2>2. QED  BY <2>1, <1>0, <1>7, <1>8, EmitTyped
<1>10. /\ Put(V[src]) /\ src' = src + n /\ dst' = dst + 1
       /\ UNCHANGED <<raw, line, path, body, depth, at>>
  BY <1>8 DEF Emit, text_vars
<1>11. /\ Len(path) < Len(decoded') /\ decoded'[Len(path) + 1] = NUL
       /\ src' <= Len(path) + 1
       /\ \A m \in src'..Len(path) : decoded'[m] = path[m]
       /\ dst' = Before(P, src') + 1
       /\ Written(P, V, decoded', dst')
  <2>1. /\ src' = src + 1 \/ (src' = src + 3 /\ src + 1 \notin P /\ src + 2 \notin P)
        /\ src' <= Len(path) + 1
    BY <1>8, <1>10
  <2>2. QED  BY <1>0, <1>a, <1>2, <1>7, <1>10, <2>1, LoopKeeps
<1>12. Decoding'
  <2>1. P' = P /\ V' = V /\ path' = path
    BY <1>10 DEF P, V
  <2>2. LoopAt(path, P, V)'
    BY <2>1, <1>11 DEF LoopAt
  <2>3. src' \notin Spent(path)'
    BY <1>8, <1>10
  <2>4. QED  BY <2>2, <2>3 DEF Decoding, P, V
<1>13. QED  BY <1>0, <1>9, <1>10, <1>12 DEF PathInv, Copied, Normalizing, PathAsSent

\* A terminator is put, and the next loop begins.
LEMMA RewoundTyped ==
  ASSUME PathTypeOK, decoded' \in Seq(0..255), decoded' # <<>>, Last(decoded') = NUL,
         src' = 1, dst' = 1, UNCHANGED <<raw, line, path, body, depth>>
  PROVE  PathTypeOK'
<1>1. Len(decoded') \in Nat \ {0}
  BY EmptySeq
<1>2. QED  BY <1>1 DEF PathTypeOK

\* The decoded path is in the buffer, as a string.
LEMMA DecodeEndInv ==
  ASSUME PathInv, DecodeEnd
  PROVE  PathInv'
<1> DEFINE P == DOMAIN path \ Spent(path)
           V == Meant(path)
           C == Cardinality(P)
           D == Decoded(path)
           W == Word
<1>0. /\ PathTypeOK /\ at = "decode" /\ decoded # <<>>
      /\ path \in Seq(1..255) /\ decoded[src] = NUL
      /\ LoopAt(path, P, V)
  BY DEF PathInv, PathTypeOK, Copied, Decoding, DecodeEnd, Terminate
<1>1. /\ Put(NUL) /\ src' = 1 /\ dst' = 1 /\ at' = "normalize"
      /\ UNCHANGED <<raw, line, path, body, depth>>
  BY DEF DecodeEnd, Terminate, Rewind, text_vars
<1>2. /\ P \subseteq 1..Len(path) /\ Len(path) \in Nat
      /\ D \in Seq(0..255) /\ Len(D) = C
      /\ \A k \in 1..C : D[k] = V[Nth(P, k)]
      /\ \A n \in 1..Len(path) : path[n] # NUL
  <2>1. \A n \in 1..Len(path) : path[n] # NUL
    <3> SUFFICES ASSUME NEW n \in 1..Len(path)  PROVE path[n] # NUL
      OBVIOUS
    <3>1. path[n] \in 1..255
      BY <1>0, PaddedFacts
    <3>2. QED  BY <3>1, NotNul
  <2>2. QED  BY <2>1, <1>0, DecodedFacts
<1>3. /\ W \in Seq(1..255) /\ Len(W) \in 0..Len(D) /\ Len(D) \in Nat
      /\ \A n \in 1..Len(W) : W[n] = D[n]
      /\ Len(W) = Len(D) \/ D[Len(W) + 1] = NUL
  BY <1>2, WordFacts DEF Word
<1> HIDE DEF P, V, C, D, W
<1>4. /\ decoded' \in Seq(0..255) /\ decoded' # <<>>
      /\ Len(decoded') = Len(decoded) /\ Last(decoded') = NUL
      /\ C \in Nat /\ C < Len(decoded)
      /\ decoded'[C + 1] = NUL
      /\ Written(P, V, decoded', C + 1)
  BY <1>0, <1>1, <1>2, LoopEnds DEF C
<1>5. \A k \in 1..C : decoded'[k] = D[k]
  <2>1. (C + 1) - 1 = C
    BY <1>4
  <2>2. QED  BY <2>1, <1>2, <1>4 DEF Written
<1>6. /\ Len(W) < Len(decoded') /\ decoded'[Len(W) + 1] = NUL
      /\ \A n \in 1..Len(W) : decoded'[n] = W[n]
  <2>1. Len(W) \in 0..C
    BY <1>2, <1>3
  <2>2. CASE Len(W) = C
    BY <2>2, <1>3, <1>4, <1>5
  <2>3. CASE Len(W) # C
    <3>1. Len(W) + 1 \in 1..C /\ \A n \in 1..Len(W) : n \in 1..C
      BY <2>1, <2>3, <1>4
    <3>2. QED  BY <3>1, <2>1, <2>3, <1>2, <1>3, <1>4, <1>5
  <2>4. QED  BY <2>2, <2>3
<1>7. Before(Singles(W), 1) = 0
  <2>1. Len(W) \in Nat /\ Singles(W) \subseteq 1..Len(W)
    BY <1>3, LenProperties DEF Singles
  <2>2. QED  BY <2>1, BeforeEnds
<1>8. Normalizing'
  <2>1. W' = W
    BY <1>1 DEF W, Word
  <2>2. Written(Singles(W), W, decoded', 1)
    BY DEF Written
  <2>3. Len(W) \in Nat
    BY <1>3
  <2>4. Singles(W)' = Singles(W)
    BY <2>1
  <2>5. LoopAt(W, Singles(W), W)'
    BY <2>1, <2>2, <2>3, <2>4, <1>1, <1>6, <1>7 DEF LoopAt
  <2>6. QED  BY <2>5 DEF Normalizing, W
<1>9. PathTypeOK'
  BY <1>0, <1>1, <1>4, RewoundTyped
<1>10. QED  BY <1>1, <1>4, <1>8, <1>9 DEF PathInv, Copied, Decoding, PathAsSent

\* The string that the buffer holds while it is normalized, and where it has the
\* same pairs of slashes.
LEMMA WordInBuffer ==
  ASSUME PathInv, at = "normalize"
  PROVE  /\ Word \in Seq(1..255) /\ Len(Word) \in Nat
         /\ \A n \in 1..Len(Word) : Word[n] \in 1..255 /\ Word[n] # NUL
         /\ Singles(Word) \subseteq 1..Len(Word)
         /\ LoopAt(Word, Singles(Word), Word) /\ decoded # <<>> /\ PathTypeOK
         /\ decoded[src] # NUL
            => /\ src \in 1..Len(Word) /\ decoded[src] = Word[src]
               /\ src \in Singles(Word) <=> ~ SlashPair(decoded, src)
<1> DEFINE W == Word
           L == Len(W)
<1>0. /\ PathTypeOK /\ decoded # <<>> /\ path \in Seq(1..255)
      /\ LoopAt(W, Singles(W), W)
  BY DEF PathInv, PathTypeOK, Copied, Normalizing
<1>1. W \in Seq(1..255)
  BY <1>0, DecodedFacts, WordFacts DEF Word
<1> HIDE DEF W
<1>2. /\ L \in Nat /\ DOMAIN W = 1..L
      /\ \A n \in 1..L : W[n] \in 1..255 /\ W[n] # NUL
  <2>1. L \in Nat /\ DOMAIN W = 1..L /\ \A n \in 1..L : W[n] \in 1..255
    BY <1>1, LenProperties, ElementOfSeq
  <2> HIDE DEF L
  <2>2. ASSUME NEW n \in 1..L  PROVE W[n] # NUL
    <3>1. W[n] \in 1..255
      BY <2>1
    <3>2. QED  BY <3>1 DEF NUL
  <2>3. QED  BY <2>1, <2>2
<1>3. Singles(W) \subseteq 1..L
  BY <1>2 DEF Singles
<1>4. /\ L < Len(decoded) /\ decoded[L + 1] = NUL /\ src <= L + 1
      /\ \A n \in src..L : decoded[n] = W[n]
  BY <1>0 DEF LoopAt
<1>5. ASSUME decoded[src] # NUL
      PROVE  /\ src \in 1..L /\ decoded[src] = W[src]
             /\ src \in Singles(W) <=> ~ SlashPair(decoded, src)
  <2>1. src \in 1..Len(decoded) /\ Len(decoded) \in Nat
    BY <1>0, BufferTyped
  <2>2. src \in 1..L /\ src \in src..L
    BY <2>1, <1>2, <1>4, <1>5
  <2>3. CASE src = L
    <3>1. ~ SlashPair(decoded, src)
      BY <2>3, <1>4 DEF SlashPair, Slash, NUL
    <3>2. src \in Singles(W)
      BY <2>2, <2>3, <1>2 DEF Singles
    <3>3. QED  BY <2>2, <3>1, <3>2, <1>4
  <2>4. CASE src # L
    <3>1. src + 1 \in src..L /\ src < L
      <4>1. src \in 1..L /\ L \in Nat /\ src # L
        BY <2>2, <2>4, <1>2
      <4> HIDE DEF L
      <4>2. src \in Int /\ L \in Int /\ src <= L /\ src # L
        BY ONLY <4>1
      <4>3. QED  BY ONLY <4>2
    <3>2. SlashPair(decoded, src) <=> SlashPair(W, src)
      BY <2>2, <3>1, <1>4 DEF SlashPair
    <3>3. src \in Singles(W) <=> ~ SlashPair(W, src)
      BY <2>2, <3>1, <1>2 DEF Singles
    <3>4. QED  BY <2>2, <3>2, <3>3, <1>4
  <2>5. QED  BY <2>3, <2>4
<1>6. QED  BY <1>0, <1>1, <1>2, <1>3, <1>5 DEF W

\* A slash before another is left out.
LEMMA SkipInv ==
  ASSUME PathInv, SkipSlash
  PROVE  PathInv'
<1> DEFINE W == Word
           P == Singles(W)
<1>0. at = "normalize" /\ decoded[src] # NUL /\ SlashPair(decoded, src)
  BY DEF SkipSlash
<1>1. /\ src' = src + 1 /\ UNCHANGED <<raw, line, path, body, decoded, dst, depth, at>>
  BY DEF SkipSlash, text_vars
<1>2. /\ Len(W) \in Nat /\ P \subseteq 1..Len(W) /\ LoopAt(W, P, W)
      /\ src \in 1..Len(W) /\ src \notin P /\ decoded # <<>> /\ PathTypeOK
  BY <1>0, WordInBuffer
<1>3. /\ W' = W /\ P' = P
  BY <1>1 DEF Word
<1> HIDE DEF W, P
<1>4. /\ Len(W) < Len(decoded) /\ decoded[Len(W) + 1] = NUL /\ src <= Len(W) + 1
      /\ \A m \in src..Len(W) : decoded[m] = W[m]
      /\ dst = Before(P, src) + 1
      /\ Written(P, W, decoded, dst)
  BY <1>2 DEF LoopAt
<1>5. Len(decoded) \in Nat /\ dst \in 1..src /\ src \in Nat
  BY <1>2, BufferTyped
<1>6. Before(P, src') = Before(P, src)
  BY <1>1, <1>2, <1>5, BeforeStep
<1>7. src' <= Len(W) + 1 /\ \A m \in src'..Len(W) : m \in src..Len(W)
  BY <1>1, <1>2
<1>8. LoopAt(W, P, W)'
  BY <1>1, <1>3, <1>4, <1>6, <1>7 DEF LoopAt
<1>9. PathTypeOK'
  <2>1. src' \in Nat \ {0} /\ src' <= Len(decoded) /\ dst \in 1..src'
    BY <1>1, <1>2, <1>4, <1>5
  <2>2. QED  BY <2>1, <1>1, <1>2 DEF PathTypeOK
<1>10. Normalizing'
  BY <1>8 DEF Normalizing, W, P
<1>11. QED  BY <1>0, <1>1, <1>2, <1>9, <1>10 DEF PathInv, Copied, Decoding,
  PathAsSent

\* Another character is kept.
LEMMA KeepInv ==
  ASSUME PathInv, KeepCharacter
  PROVE  PathInv'
<1> DEFINE W == Word
           P == Singles(W)
<1>0. at = "normalize" /\ decoded[src] # NUL /\ ~ SlashPair(decoded, src)
  BY DEF KeepCharacter
<1>1. Emit(decoded[src], 1)
  BY DEF KeepCharacter
<1>2. /\ Len(W) \in Nat /\ P \subseteq 1..Len(W) /\ LoopAt(W, P, W)
      /\ src \in 1..Len(W) /\ src \in P /\ decoded # <<>> /\ PathTypeOK
      /\ W[src] = decoded[src] /\ W[src] \in 0..255
  <2>1. \A n \in 1..255 : n \in 0..255
    OBVIOUS
  <2>2. QED  BY <2>1, <1>0, WordInBuffer
<1>3. /\ Put(W[src]) /\ src' = src + 1 /\ dst' = dst + 1
      /\ UNCHANGED <<raw, line, path, body, depth, at>>
  BY <1>1, <1>2 DEF Emit, text_vars
<1>4. /\ W' = W /\ P' = P
  BY <1>3 DEF Word
<1> HIDE DEF W, P
<1>5. Len(decoded) \in Nat /\ Len(W) < Len(decoded)
  BY <1>2, BufferTyped DEF LoopAt
<1>6. PathTypeOK' /\ decoded' # <<>>
  <2>1. src + 1 <= Len(decoded)
    BY <1>2, <1>5
  <2>2. QED  BY <2>1, <1>1, <1>2, EmitTyped
<1>7. /\ Len(W) < Len(decoded') /\ decoded'[Len(W) + 1] = NUL
      /\ src' <= Len(W) + 1
      /\ \A m \in src'..Len(W) : decoded'[m] = W[m]
      /\ dst' = Before(P, src') + 1
      /\ Written(P, W, decoded', dst')
  <2>1. src' <= Len(W) + 1
    BY <1>2, <1>3
  <2>2. QED  BY <2>1, <1>2, <1>3, LoopKeeps
<1>8. LoopAt(W, P, W)'
  BY <1>4, <1>7 DEF LoopAt
<1>9. Normalizing'
  BY <1>8 DEF Normalizing, W, P
<1>10. QED  BY <1>0, <1>3, <1>6, <1>9 DEF PathInv, Copied, Decoding, PathAsSent

\* The normalized path is in the buffer, as a string.
LEMMA NormalizeEndInv ==
  ASSUME PathInv, NormalizeEnd
  PROVE  PathInv'
<1> DEFINE W == Word
           P == Singles(W)
           C == Cardinality(P)
           N == Normalized(W)
           S == CString(decoded')
<1>0. at = "normalize" /\ decoded[src] = NUL
  BY DEF NormalizeEnd, Terminate
<1>1. /\ Put(NUL) /\ src' = 1 /\ dst' = 1 /\ at' = "check"
      /\ UNCHANGED <<raw, line, path, body, depth>>
  BY DEF NormalizeEnd, Terminate, Rewind, text_vars
<1>2. /\ Len(W) \in Nat /\ P \subseteq 1..Len(W) /\ LoopAt(W, P, W)
      /\ decoded # <<>> /\ PathTypeOK
      /\ \A n \in 1..Len(W) : W[n] \in 1..255 /\ W[n] # NUL
  BY <1>0, WordInBuffer
<1>3. Word' = Word
  BY <1>1 DEF Word
<1> HIDE DEF W, P
<1>4. /\ decoded' \in Seq(0..255) /\ decoded' # <<>>
      /\ Len(decoded') = Len(decoded) /\ Last(decoded') = NUL
      /\ C \in Nat /\ C < Len(decoded)
      /\ decoded'[C + 1] = NUL
      /\ Written(P, W, decoded', C + 1)
  BY <1>0, <1>1, <1>2, LoopEnds
<1>5. /\ N \in Seq(1..255) /\ Len(N) = C
      /\ \A k \in 1..C : N[k] = W[Nth(P, k)]
  <2>1. \A n \in P : W[n] \in 1..255
    BY <1>2
  <2>2. N = Selected(P, W)
    BY DEF Normalized, P
  <2> DEFINE L == Len(W)
  <2>3. L \in Nat /\ P \subseteq 1..L
    BY <1>2
  <2> HIDE DEF N, L
  <2>4. /\ Selected(P, W) \in Seq(1..255) /\ Len(Selected(P, W)) = C
        /\ Written(P, W, Selected(P, W), C + 1)
    BY <2>1, <2>3, SelectedWritten
  <2>5. (C + 1) - 1 = C
    BY <1>4
  <2>6. QED  BY <2>2, <2>4, <2>5 DEF Written
<1> HIDE DEF N, C
<1>6. \A k \in 1..C : decoded'[k] = N[k] /\ decoded'[k] # NUL
  <2> SUFFICES ASSUME NEW k \in 1..C
               PROVE  decoded'[k] = N[k] /\ decoded'[k] # NUL
    OBVIOUS
  <2>1. k \in 1..(C+1)-1
    BY <1>4
  <2>2. decoded'[k] = W[Nth(P, k)]
    BY <2>1, <1>4 DEF Written
  <2>3. N[k] \in 1..255
    BY <1>5, ElementOfSeq
  <2>4. N[k] = W[Nth(P, k)]
    BY <1>5
  <2>5. QED  BY <2>2, <2>3, <2>4 DEF NUL
<1>7. Len(S) = C
  BY <1>4, <1>6, CStringEnds
<1>8. S = N
  <2>1. S \in Seq(1..255) /\ \A n \in 1..Len(S) : S[n] = decoded'[n]
    BY <1>4, CStringFacts
  <2> HIDE DEF S
  <2>2. \A n \in 1..Len(S) : S[n] = N[n]
    BY <2>1, <1>6, <1>7
  <2>3. QED  BY <2>1, <2>2, <1>5, <1>7, SeqEqual
<1>9. PathAsSent'
  <2>1. CString(decoded)' = CString(decoded')
    OBVIOUS
  <2>2. Normalized(Word)' = Normalized(Word)
    BY <1>3
  <2>3. QED  BY <2>1, <2>2, <1>8 DEF PathAsSent, N, W
<1>10. PathTypeOK'
  BY <1>1, <1>2, <1>4, RewoundTyped
<1>11. QED  BY <1>1, <1>4, <1>9, <1>10 DEF PathInv, Copied, Decoding, Normalizing

\* What the buffer is found to begin with at a position does not reach its end.
LEMMA StartsWithin ==
  ASSUME PathTypeOK, decoded # <<>>, NEW part \in {UpDir, SameDir}, Starts(part, src)
  PROVE  src + Len(part) <= Len(decoded) /\ decoded[src] # Slash
<1> DEFINE k == Len(part)
           N == Len(decoded)
<1>1. N \in Nat \ {0} /\ src \in 1..N /\ decoded[N] = NUL
      /\ \A n \in 1..N : decoded[n] \in 0..255
  BY BufferTyped
<1>2. k \in {2, 3} /\ part[k] = Slash /\ part[1] # Slash
  <2>1. CASE part = UpDir
    BY <2>1 DEF UpDir, Slash
  <2>2. CASE part = SameDir
    BY <2>2 DEF SameDir, Slash
  <2>3. QED  BY <2>1, <2>2
<1> HIDE DEF k
<1>3. src + k - 1 <= N /\ SubSeq(decoded, src, src + k - 1) = part
  BY DEF Starts, k
<1>4. part[k] = decoded[src + k - 1] /\ part[1] = decoded[src]
  <2> DEFINE end == src + k - 1
  <2>1. end \in Int /\ src \in Int /\ end - src + 1 = k /\ k \in 1..k /\ 1 \in 1..k
        /\ src + 1 - 1 = src
        /\ \A n \in src..end : n \in 1..N
    BY <1>1, <1>2, <1>3
  <2>2. \A n \in src..end : decoded[n] \in 0..255
    BY <2>1, <1>1
  <2> HIDE DEF end
  <2>3. \A n \in 1..end-src+1 : SubSeq(decoded, src, end)[n] = decoded[src+n-1]
    BY <2>1, <2>2, SubSeqProperties
  <2>4. /\ SubSeq(decoded, src, end)[k] = decoded[src+k-1]
        /\ SubSeq(decoded, src, end)[1] = decoded[src]
    BY <2>1, <2>3
  <2>5. QED  BY <2>4, <1>3 DEF end
<1>5. src + k - 1 # N
  BY <1>1, <1>2, <1>4 DEF Slash, NUL
<1>6. src + k <= N
  BY <1>1, <1>2, <1>3, <1>5
<1>7. QED  BY <1>2, <1>4, <1>6 DEF k

\* The levels are counted, and the buffer stays as it is.
LEMMA CheckInv ==
  ASSUME PathInv, CheckLevel \/ CheckEnd
  PROVE  PathInv'
<1>0. /\ PathTypeOK /\ at = "check" /\ decoded # <<>> /\ PathAsSent
      /\ UNCHANGED <<raw, line, path, body, decoded, dst>>
      /\ at' \in {"denied", "check", "inspect"}
  BY DEF PathInv, Copied, CheckLevel, CheckEnd, text_vars, buffer_vars
<1>1. /\ Len(decoded) \in Nat \ {0} /\ src \in 1..Len(decoded) /\ dst \in 1..src
      /\ depth \in Int /\ decoded[Len(decoded)] = NUL
  BY <1>0, BufferTyped
<1>2. /\ depth' \in Int /\ src' \in Nat \ {0} /\ src' <= Len(decoded) /\ src <= src'
  <2>1. CASE CheckEnd
    BY <2>1, <1>1 DEF CheckEnd, buffer_vars
  <2>2. CASE CheckLevel
    <3>1. depth' = depth + Level.change /\ src' = src + Level.length
          /\ decoded[src] # NUL
      BY <2>2 DEF CheckLevel
    <3>2. src + 1 <= Len(decoded)
      BY <3>1, <1>1
    <3>3. /\ Starts(UpDir, src) => src + 3 <= Len(decoded) /\ decoded[src] # Slash
          /\ Starts(SameDir, src) => src + 2 <= Len(decoded) /\ decoded[src] # Slash
      <4>1. Len(UpDir) = 3 /\ Len(SameDir) = 2
        BY DEF UpDir, SameDir
      <4>2. QED  BY <4>1, <1>0, StartsWithin
    <3>4. /\ Level.change \in Int /\ Level.length \in Nat
          /\ src + Level.length <= Len(decoded)
      <4>1. CASE Starts(UpDir, src)
        <5>1. Level = [change |-> -1, length |-> 3]
          BY <4>1, <3>3 DEF Level
        <5>2. QED  BY <5>1, <4>1, <3>3
      <4>2. CASE ~ Starts(UpDir, src) /\ Starts(SameDir, src)
        <5>1. Level = [change |-> 0, length |-> 2]
          BY <4>2, <3>3 DEF Level
        <5>2. QED  BY <5>1, <4>2, <3>3
      <4>3. CASE /\ ~ Starts(UpDir, src) /\ ~ Starts(SameDir, src)
                 /\ decoded[src] = Slash /\ ~ SlashPair(decoded, src)
        <5>1. Level = [change |-> 1, length |-> 1]
          BY <4>3 DEF Level
        <5>2. QED  BY <5>1, <3>2
      <4>4. CASE /\ ~ Starts(UpDir, src) /\ ~ Starts(SameDir, src)
                 /\ ~ (decoded[src] = Slash /\ ~ SlashPair(decoded, src))
        <5>1. Level = [change |-> 0, length |-> 1]
          BY <4>4 DEF Level
        <5>2. QED  BY <5>1, <3>2
      <4>5. QED  BY <4>1, <4>2, <4>3, <4>4
    <3>5. QED  BY SMTT(20), <3>1, <3>4, <1>1
  <2>3. QED  BY <2>1, <2>2
<1>3. PathTypeOK'
  <2>1. dst \in 1..src'
    BY <1>1, <1>2
  <2>2. QED  BY <2>1, <1>0, <1>2 DEF PathTypeOK
<1>4. PathAsSent'
  <2>1. Word' = Word
    BY <1>0 DEF Word
  <2>2. Normalized(Word)' = Normalized(Word) /\ CString(decoded)' = CString(decoded)
    BY <2>1, <1>0
  <2>3. QED  BY <2>2, <1>0 DEF PathAsSent
<1>5. QED  BY <1>0, <1>3, <1>4 DEF PathInv, Copied, Decoding, Normalizing

\* Every step of the path keeps its invariant.
LEMMA NextPathInv ==
  ASSUME PathInv, PathNext
  PROVE  PathInv'
BY StrtokInv, ParseInv, CopyInv, DecodeInv, DecodeEndInv, SkipInv, KeepInv,
   NormalizeEndInv, CheckInv DEF PathNext

-----------------------------------------------------------------------------
(* The steps of the router.                                                *)

\* No more is available than was measured, or than there is.
LEMMA AvailableFacts ==
  ASSUME length \in Nat, size \in Nat
  PROVE  Available \in {length, size} /\ Available <= length /\ Available <= size
<1>1. {length, size} \subseteq Nat /\ {length, size} # {}
  OBVIOUS
<1>2. Min({length, size}) \in {length, size} /\ \A n \in {length, size} : Min({length, size}) <= n
  BY <1>1, MinFacts
<1>3. QED  BY <1>2 DEF Available

\* The path is left as it is, and the loops are over.
LEMMA RouteLeavesPath ==
  ASSUME RouteStep
  PROVE  UNCHANGED <<raw, line, path, body, decoded, src, dst, depth>> /\ at' \in RouteSteps
<1>1. CASE Denied
  BY <1>1 DEF Denied, Error, Goto, Step, NoResponse, text_vars, buffer_vars,
       RouteSteps
<1>2. CASE InspectPasses
  BY <1>2 DEF InspectPasses, Goto, Step, result_vars, text_vars, buffer_vars,
       RouteSteps
<1>3. CASE InspectRejects
  BY <1>3 DEF InspectRejects, Error, Goto, Step, NoResponse, text_vars,
       buffer_vars, RouteSteps
<1>4. CASE NoEndpoint
  BY <1>4 DEF NoEndpoint, Error, Goto, Step, NoResponse, text_vars, buffer_vars,
       RouteSteps
<1>5. CASE Endpoint
  BY <1>5 DEF Endpoint, Content, Goto, Step, Page, text_vars, buffer_vars, RouteSteps
<1>6. CASE StaticFile
  BY <1>6 DEF StaticFile, Read, Goto, Step, text_vars, buffer_vars, RouteSteps
<1>7. CASE DotFile
  BY <1>7 DEF DotFile, Read, Goto, Step, text_vars, buffer_vars, RouteSteps
<1>8. CASE NotAFile
  BY <1>8 DEF NotAFile, Goto, Step, result_vars, text_vars, buffer_vars,
       RouteSteps
<1>9. CASE Index
  BY <1>9 DEF Index, Read, Goto, Step, text_vars, buffer_vars, RouteSteps
<1>10. CASE CacheHit
  BY <1>10 DEF CacheHit, Content, Goto, Step, text_vars, buffer_vars, RouteSteps
<1>11. CASE CacheMiss
  BY <1>11 DEF CacheMiss, Goto, Step, result_vars, text_vars, buffer_vars,
       RouteSteps
<1>12. CASE ReadFails
  BY <1>12 DEF ReadFails, ReadFailed, Error, Goto, Step, NoResponse, text_vars,
       buffer_vars, RouteSteps
<1>13. CASE Open
  BY <1>13 DEF Open, Step, text_vars, buffer_vars, RouteSteps
<1>14. CASE Measure
  BY <1>14 DEF Measure, Goto, Step, text_vars, buffer_vars, RouteSteps
<1>15. CASE Allocate
  BY <1>15 DEF Allocate, Goto, Step, text_vars, buffer_vars, RouteSteps
<1>16. CASE ReadContent
  BY <1>16 DEF ReadContent, Content, Goto, Step, text_vars, buffer_vars, RouteSteps
<1>17. CASE WasmOpen
  BY <1>17 DEF WasmOpen, Step, text_vars, buffer_vars, RouteSteps
<1>18. CASE WasmOpenFails
  BY <1>18 DEF WasmOpenFails, Error, Goto, Step, NoResponse, text_vars,
       buffer_vars, RouteSteps
<1>19. CASE WasmMeasure
  BY <1>19 DEF WasmMeasure, Goto, Step, text_vars, buffer_vars, RouteSteps
<1>20. CASE WasmAllocate
  BY <1>20 DEF WasmAllocate, Goto, Step, text_vars, buffer_vars, RouteSteps
<1>21. CASE WasmAllocateFails
  BY <1>21 DEF WasmAllocateFails, Error, Goto, Step, NoResponse, text_vars,
       buffer_vars, RouteSteps
<1>22. CASE WasmRead
  BY <1>22 DEF WasmRead, Content, Goto, Step, text_vars, buffer_vars, RouteSteps
<1>23. CASE WasmReadFails
  BY <1>23 DEF WasmReadFails, Error, Goto, Step, NoResponse, text_vars,
       buffer_vars, RouteSteps
<1>24. CASE LogReturns
  BY <1>24 DEF LogReturns, Goto, Step, result_vars, text_vars, buffer_vars,
       RouteSteps
<1>25. CASE LogExits
  BY <1>25 DEF LogExits, Goto, Step, text_vars, buffer_vars, RouteSteps
<1>26. CASE MakePage
  BY <1>26 DEF MakePage, Goto, Step, Page, text_vars, buffer_vars, RouteSteps
<1>27. CASE Build
  BY <1>27 DEF Build, Goto, Step, text_vars, buffer_vars, RouteSteps
<1>28. CASE BuildNothing
  BY <1>28 DEF BuildNothing, Goto, Step, text_vars, buffer_vars, RouteSteps
<1>29. CASE Write
  BY <1>29 DEF Write, Goto, Step, text_vars, buffer_vars, RouteSteps
<1>30. CASE free_response
  BY <1>30 DEF free_response, Goto, Step, text_vars, buffer_vars, RouteSteps
<1>31. QED
  BY <1>1, <1>2, <1>3, <1>4, <1>5, <1>6, <1>7, <1>8, <1>9, <1>10, <1>11, <1>12,
       <1>13, <1>14, <1>15, <1>16, <1>17, <1>18, <1>19, <1>20, <1>21, <1>22,
       <1>23, <1>24, <1>25, <1>26, <1>27, <1>28, <1>29, <1>30 DEF RouteStep

\* So its invariant is kept.
LEMMA RoutePathInv ==
  ASSUME PathInv, RouteStep
  PROVE  PathInv'
<1>1. /\ UNCHANGED <<raw, line, path, body, decoded, src, dst, depth>>
      /\ at' \notin {"decode", "normalize", "check", "denied", "inspect"}
  BY RouteLeavesPath DEF RouteSteps
<1>2. PathTypeOK'
  BY <1>1 DEF PathInv, PathTypeOK
<1>3. QED  BY <1>1, <1>2 DEF PathInv, Copied, Decoding, Normalizing, PathAsSent

\* The types of what the router has.
Typed ==
  /\ finding \in {"none", "SQL_INJECTION_ATTEMPT", "XSS_ATTEMPT", "PATH_TRAVERSAL_ATTEMPT"}
  /\ route \in {"none", "static", "dot", "index"}
  /\ length \in {Unknown} \cup 0..MaxSize
  /\ response \in Responses /\ sent \in Responses
  /\ held \subseteq {"file", "content", "http_response"}
  /\ starved \in BOOLEAN
  /\ size \in 0..MaxSize

\* A response that says how much is in it, of a size that a file has.
LEMMA ResponseTyped ==
  ASSUME NEW n \in 0..MaxSize
  PROVE  Content(n) \in Responses
<1>1. n \in 0..MaxSize+Page
  BY RouterAssumption DEF Page
<1>2. QED  BY <1>1 DEF Responses, Content

\* So is a copy that my_strdup has cut.
LEMMA CutTyped ==
  ASSUME NEW n \in 0..MaxSize, NEW bytes \in 1..n-1
  PROVE  [Content(n) EXCEPT !.bytes = bytes, !.cut = TRUE] \in Responses
<1>1. n \in 0..MaxSize+Page /\ bytes \in 0..MaxSize+Page
  BY RouterAssumption DEF Page
<1>2. Content(n) \in Responses
  BY <1>1 DEF Content, Responses
<1>3. TRUE \in BOOLEAN
  OBVIOUS
<1>4. QED  BY ZenonT(30), <1>1, <1>2, <1>3 DEF Responses

\* So are those without a content, and those of a page.
LEMMA EmptyTyped ==
  ASSUME NEW status \in {0, 200, 400, 403, 404, 500}, NEW bytes \in {0, Page},
         NEW content \in {0, Page}
  PROVE  [status |-> status, bytes |-> bytes, size |-> content, cut |-> FALSE]
           \in Responses
<1>1. Page \in 0..MaxSize+Page /\ 0 \in 0..MaxSize+Page
  BY RouterAssumption DEF Page
<1>2. QED  BY <1>1 DEF Responses

LEMMA ErrorTyped ==
  ASSUME NEW status \in {400, 403, 404, 500}, Error(status)
  PROVE  response' \in Responses
<1>1. response' = [status |-> status, bytes |-> 0, size |-> 0, cut |-> FALSE]
  BY DEF Error, NoResponse
<1>2. [status |-> status, bytes |-> 0, size |-> 0, cut |-> FALSE] \in Responses
  <2>1. 0 \in 0..MaxSize+Page /\ status \in {0, 200, 400, 403, 404, 500}
    BY RouterAssumption DEF Page
  <2>2. QED  BY ONLY ZenonT(60), <2>1 DEF Responses
<1>3. QED  BY Zenon, <1>1, <1>2

LEMMA SizedTyped ==
  ASSUME response \in Responses, NEW n \in {0, Page}
  PROVE  /\ [response EXCEPT !.bytes = n, !.size = n] \in Responses
         /\ [response EXCEPT !.bytes = n, !.size = n, !.cut = FALSE] \in Responses
<1>1. n \in 0..MaxSize+Page
  BY RouterAssumption DEF Page
<1>2. [response EXCEPT !.bytes = n, !.size = n] \in Responses
  BY ONLY ZenonT(30), response \in Responses, <1>1 DEF Responses
<1>3. [response EXCEPT !.bytes = n, !.size = n, !.cut = FALSE] \in Responses
  BY ONLY ZenonT(30), response \in Responses, <1>1 DEF Responses
<1>4. QED  BY <1>2, <1>3

\* Every step of the router keeps the types.
LEMMA RouteTypes ==
  ASSUME IInv, RouteStep
  PROVE  Typed'
<1> USE RouterAssumption
<1>0. Typed /\ Measured
  BY DEF IInv, TypeOK, Typed
<1>1. CASE Denied
  <2>1. response' \in Responses
    BY <1>0, <1>1, ErrorTyped DEF Denied
  <2>2. QED  BY <1>0, <1>1, <2>1 DEF Denied, Error, Goto, Typed
<1>2. CASE InspectPasses
  BY <1>0, <1>2 DEF InspectPasses, Goto, Step, result_vars, Typed
<1>3. CASE InspectRejects
  <2>1. response' \in Responses
    BY <1>0, <1>3, ErrorTyped DEF InspectRejects
  <2>2. QED  BY <1>0, <1>3, <2>1 DEF InspectRejects, Error, Goto, Typed, Finding
<1>4. CASE NoEndpoint
  <2>1. response' \in Responses
    BY <1>0, <1>4, ErrorTyped DEF NoEndpoint
  <2>2. QED  BY <1>0, <1>4, <2>1 DEF NoEndpoint, Error, Goto, Typed
<1>5. CASE Endpoint
  <2>1. response' \in Responses
    <3>1. CASE response' = Content(Page)
      BY <3>1, EmptyTyped DEF Content
    <3>2. CASE response' = [Content(Page) EXCEPT !.bytes = 0]
      <4>1. response' = [status |-> 200, bytes |-> 0, size |-> Page, cut |-> FALSE]
        BY <3>2 DEF Content
      <4>2. [status |-> 200, bytes |-> 0, size |-> Page, cut |-> FALSE] \in Responses
        BY EmptyTyped
      <4>3. QED  BY Zenon, <4>1, <4>2
    <3>3. CASE response' = [NoResponse EXCEPT !.status = 500]
      <4>1. response' = [status |-> 500, bytes |-> 0, size |-> 0, cut |-> FALSE]
        BY <3>3 DEF NoResponse
      <4>2. QED  BY <4>1, EmptyTyped
    <3>4. QED  BY <1>5, <3>1, <3>2, <3>3 DEF Endpoint
  <2>2. QED  BY <1>0, <1>5, <2>1 DEF Endpoint, Content, Goto, Typed
<1>6. CASE StaticFile
  BY <1>0, <1>6 DEF StaticFile, Read, Goto, Step, Typed
<1>7. CASE DotFile
  BY <1>0, <1>7 DEF DotFile, Read, Goto, Step, Typed
<1>8. CASE NotAFile
  BY <1>0, <1>8 DEF NotAFile, Goto, Step, result_vars, Typed
<1>9. CASE Index
  BY <1>0, <1>9 DEF Index, Read, Goto, Step, Typed
<1>10. CASE CacheHit
  <2>1. response' \in Responses
    <3>1. PICK n \in 0..MaxSize :
            \/ response' = Content(n)
            \/ \E bytes \in 1..n-1 :
                 response' = [Content(n) EXCEPT !.bytes = bytes, !.cut = TRUE]
      BY <1>10 DEF CacheHit
    <3>2. QED  BY <3>1, ResponseTyped, CutTyped
  <2>2. QED  BY <1>0, <1>10, <2>1 DEF CacheHit, Content, Goto, Typed
<1>11. CASE CacheMiss
  BY <1>0, <1>11 DEF CacheMiss, Goto, Step, result_vars, Typed
<1>12. CASE ReadFails
  <2>1. response' \in Responses
    BY <1>0, <1>12, ErrorTyped DEF ReadFails, ReadFailed, Typed
  <2>2. QED  BY <1>0, <1>12, <2>1 DEF ReadFails, ReadFailed, Error, Goto, Typed
<1>13. CASE Open
  BY <1>0, <1>13 DEF Open, Step, Typed
<1>14. CASE Measure
  BY <1>0, <1>14 DEF Measure, Goto, Step, Typed
<1>15. CASE Allocate
  BY <1>0, <1>15 DEF Allocate, Goto, Step, Typed
<1>16. CASE ReadContent
  <2>1. length \in 0..MaxSize /\ size \in 0..MaxSize
    BY <1>0, <1>16 DEF Typed, Measured, ReadContent
  <2>2. Available \in 0..MaxSize
    BY <2>1, AvailableFacts
  <2>3. response' \in Responses
    BY <1>16, <2>2, ResponseTyped DEF ReadContent
  <2>4. QED  BY <1>0, <1>16, <2>3 DEF ReadContent, Content, Goto, Typed
<1>17. CASE WasmOpen
  BY <1>0, <1>17 DEF WasmOpen, Step, Typed
<1>18. CASE WasmOpenFails
  <2>1. response' \in Responses
    BY <1>0, <1>18, ErrorTyped DEF WasmOpenFails
  <2>2. QED  BY <1>0, <1>18, <2>1 DEF WasmOpenFails, Error, Goto, Typed
<1>19. CASE WasmMeasure
  BY <1>0, <1>19 DEF WasmMeasure, Goto, Step, Typed
<1>20. CASE WasmAllocate
  BY <1>0, <1>20 DEF WasmAllocate, Goto, Step, Typed
<1>21. CASE WasmAllocateFails
  <2>1. response' \in Responses
    BY <1>0, <1>21, ErrorTyped DEF WasmAllocateFails
  <2>2. QED  BY <1>0, <1>21, <2>1 DEF WasmAllocateFails, Error, Goto, Typed
<1>22. CASE WasmRead
  <2>1. length \in 0..MaxSize
    BY <1>0, <1>22 DEF Typed, Measured, WasmRead
  <2>2. response' \in Responses
    BY <1>22, <2>1, ResponseTyped DEF WasmRead
  <2>3. QED  BY <1>0, <1>22, <2>2 DEF WasmRead, Content, Goto, Typed
<1>23. CASE WasmReadFails
  <2>1. response' \in Responses
    BY <1>0, <1>23, ErrorTyped DEF WasmReadFails
  <2>2. QED  BY <1>0, <1>23, <2>1 DEF WasmReadFails, Error, Goto, Typed
<1>24. CASE LogReturns
  BY <1>0, <1>24 DEF LogReturns, Goto, Step, result_vars, Typed
<1>25. CASE LogExits
  BY <1>0, <1>25 DEF LogExits, Goto, Step, Typed
<1>26. CASE MakePage
  <2>1. response' \in Responses
    BY <1>0, <1>26, SizedTyped DEF MakePage, Typed
  <2>2. QED  BY <1>0, <1>26, <2>1 DEF MakePage, Goto, Typed
<1>27. CASE Build
  BY <1>0, <1>27 DEF Build, Goto, Step, Typed
<1>28. CASE BuildNothing
  BY <1>0, <1>28 DEF BuildNothing, Goto, Step, Typed
<1>29. CASE Write
  BY <1>0, <1>29 DEF Write, Goto, Step, Typed
<1>30. CASE free_response
  <2>1. response' \in Responses
    BY <1>0, <1>30, SizedTyped DEF free_response, Typed
  <2>2. QED  BY <1>0, <1>30, <2>1 DEF free_response, Goto, Typed
<1>31. QED
  BY <1>1, <1>2, <1>3, <1>4, <1>5, <1>6, <1>7, <1>8, <1>9, <1>10, <1>11, <1>12,
       <1>13, <1>14, <1>15, <1>16, <1>17, <1>18, <1>19, <1>20, <1>21, <1>22,
       <1>23, <1>24, <1>25, <1>26, <1>27, <1>28, <1>29, <1>30 DEF RouteStep

\* Every step of the router keeps what is held, measured, described and accounted
\* for at each step, and sends what it read.
LEMMA RouteKeeps ==
  ASSUME IInv, RouteStep
  PROVE  Held' /\ Measured' /\ Described' /\ Accounted' /\ SentWasRead'
<1>0. /\ Held /\ Measured /\ Described /\ Accounted /\ SentWasRead /\ Typed
  BY DEF IInv, TypeOK, Typed
<1>1. CASE Denied
  <2>1. Held'
    BY <1>0, <1>1 DEF Denied, Error, Goto, Step, NoResponse, Held, PathSteps
  <2>2. Measured'
    BY <1>0, <1>1 DEF Denied, Error, Goto, Step, NoResponse, Measured, Unknown,
         Typed
  <2>3. Described'
    BY <1>0, <1>1 DEF Denied, Error, Goto, Step, NoResponse, Described, Typed,
         Responses
  <2>4. Accounted'
    BY <1>0, <1>1 DEF Denied, Error, Goto, Step, NoResponse, Accounted, NotSent,
         Typed, Responses
  <2>5. SentWasRead'
    BY <1>0, <1>1 DEF Denied, Error, Goto, Step, NoResponse, SentWasRead, Typed,
         Responses
  <2>6. QED  BY <2>1, <2>2, <2>3, <2>4, <2>5
<1>2. CASE InspectPasses
  <2>1. Held'
    BY <1>0, <1>2 DEF InspectPasses, Goto, Step, result_vars, Held, PathSteps
  <2>2. Measured'
    BY <1>0, <1>2 DEF InspectPasses, Goto, Step, result_vars, Measured, Unknown,
         Typed
  <2>3. Described'
    BY <1>0, <1>2 DEF InspectPasses, Goto, Step, result_vars, Described, Typed,
         Responses
  <2>4. Accounted'
    BY <1>0, <1>2 DEF InspectPasses, Goto, Step, result_vars, Accounted,
         NotSent, Typed, Responses, NoResponse
  <2>5. SentWasRead'
    BY <1>0, <1>2 DEF InspectPasses, Goto, Step, result_vars, SentWasRead,
         Typed, Responses
  <2>6. QED  BY <2>1, <2>2, <2>3, <2>4, <2>5
<1>3. CASE InspectRejects
  <2>1. Held'
    BY <1>0, <1>3 DEF InspectRejects, Error, Goto, Step, NoResponse, Held,
         PathSteps
  <2>2. Measured'
    BY <1>0, <1>3 DEF InspectRejects, Error, Goto, Step, NoResponse, Measured,
         Unknown, Typed
  <2>3. Described'
    BY <1>0, <1>3 DEF InspectRejects, Error, Goto, Step, NoResponse, Described,
         Typed, Responses
  <2>4. Accounted'
    BY <1>0, <1>3 DEF InspectRejects, Error, Goto, Step, NoResponse, Accounted,
         NotSent, Typed, Responses
  <2>5. SentWasRead'
    BY <1>0, <1>3 DEF InspectRejects, Error, Goto, Step, NoResponse,
         SentWasRead, Typed, Responses
  <2>6. QED  BY <2>1, <2>2, <2>3, <2>4, <2>5
<1>4. CASE NoEndpoint
  <2>1. Held'
    BY <1>0, <1>4 DEF NoEndpoint, Error, Goto, Step, NoResponse, Held, PathSteps
  <2>2. Measured'
    BY <1>0, <1>4 DEF NoEndpoint, Error, Goto, Step, NoResponse, Measured,
         Unknown, Typed
  <2>3. Described'
    BY <1>0, <1>4 DEF NoEndpoint, Error, Goto, Step, NoResponse, Described,
         Typed, Responses
  <2>4. Accounted'
    BY <1>0, <1>4 DEF NoEndpoint, Error, Goto, Step, NoResponse, Accounted,
         NotSent, Typed, Responses
  <2>5. SentWasRead'
    BY <1>0, <1>4 DEF NoEndpoint, Error, Goto, Step, NoResponse, SentWasRead,
         Typed, Responses
  <2>6. QED  BY <2>1, <2>2, <2>3, <2>4, <2>5
<1>5. CASE Endpoint
  <2>1. Held'
    BY <1>0, <1>5 DEF Endpoint, Content, Goto, Step, Page, Held, PathSteps
  <2>2. Measured'
    BY <1>0, <1>5 DEF Endpoint, Content, Goto, Step, Page, Measured, Unknown, Typed
  <2>3. Described'
    <3>1. at' = "build"
      BY <1>5 DEF Endpoint, Goto, Step
    <3>2. response'.status # 0
      BY <1>5 DEF Endpoint, Content, NoResponse
    <3>3. "content" \in held' => response'.bytes = response'.size
      BY <1>0, <1>5 DEF Endpoint, Content, Held
    <3>4. QED  BY <3>1, <3>2, <3>3 DEF Described
  <2>4. Accounted'
    BY <1>0, <1>5 DEF Endpoint, Content, Goto, Step, Page, Accounted, NotSent, Typed,
         Responses, NoResponse, Held
  <2>5. SentWasRead'
    BY <1>0, <1>5 DEF Endpoint, Content, Goto, Step, Page, SentWasRead, Typed, Responses
  <2>6. QED  BY <2>1, <2>2, <2>3, <2>4, <2>5
<1>6. CASE StaticFile
  <2>1. Held'
    BY <1>0, <1>6 DEF StaticFile, Read, Goto, Step, Held, PathSteps
  <2>2. Measured'
    BY <1>0, <1>6 DEF StaticFile, Read, Goto, Step, Measured, Unknown, Typed
  <2>3. Described'
    BY <1>0, <1>6 DEF StaticFile, Read, Goto, Step, Described, Typed, Responses
  <2>4. Accounted'
    BY <1>0, <1>6 DEF StaticFile, Read, Goto, Step, Accounted, NotSent, Typed,
         Responses, NoResponse
  <2>5. SentWasRead'
    BY <1>0, <1>6 DEF StaticFile, Read, Goto, Step, SentWasRead, Typed,
         Responses
  <2>6. QED  BY <2>1, <2>2, <2>3, <2>4, <2>5
<1>7. CASE DotFile
  <2>1. Held'
    BY <1>0, <1>7 DEF DotFile, Read, Goto, Step, Held, PathSteps
  <2>2. Measured'
    BY <1>0, <1>7 DEF DotFile, Read, Goto, Step, Measured, Unknown, Typed
  <2>3. Described'
    BY <1>0, <1>7 DEF DotFile, Read, Goto, Step, Described, Typed, Responses
  <2>4. Accounted'
    BY <1>0, <1>7 DEF DotFile, Read, Goto, Step, Accounted, NotSent, Typed,
         Responses, NoResponse
  <2>5. SentWasRead'
    BY <1>0, <1>7 DEF DotFile, Read, Goto, Step, SentWasRead, Typed, Responses
  <2>6. QED  BY <2>1, <2>2, <2>3, <2>4, <2>5
<1>8. CASE NotAFile
  <2>1. Held'
    BY <1>0, <1>8 DEF NotAFile, Goto, Step, result_vars, Held, PathSteps
  <2>2. Measured'
    BY <1>0, <1>8 DEF NotAFile, Goto, Step, result_vars, Measured, Unknown,
         Typed
  <2>3. Described'
    BY <1>0, <1>8 DEF NotAFile, Goto, Step, result_vars, Described, Typed,
         Responses
  <2>4. Accounted'
    BY <1>0, <1>8 DEF NotAFile, Goto, Step, result_vars, Accounted, NotSent,
         Typed, Responses, NoResponse
  <2>5. SentWasRead'
    BY <1>0, <1>8 DEF NotAFile, Goto, Step, result_vars, SentWasRead, Typed,
         Responses
  <2>6. QED  BY <2>1, <2>2, <2>3, <2>4, <2>5
<1>9. CASE Index
  <2>1. Held'
    BY <1>0, <1>9 DEF Index, Read, Goto, Step, Held, PathSteps
  <2>2. Measured'
    BY <1>0, <1>9 DEF Index, Read, Goto, Step, Measured, Unknown, Typed
  <2>3. Described'
    BY <1>0, <1>9 DEF Index, Read, Goto, Step, Described, Typed, Responses
  <2>4. Accounted'
    BY <1>0, <1>9 DEF Index, Read, Goto, Step, Accounted, NotSent, Typed,
         Responses, NoResponse
  <2>5. SentWasRead'
    BY <1>0, <1>9 DEF Index, Read, Goto, Step, SentWasRead, Typed, Responses
  <2>6. QED  BY <2>1, <2>2, <2>3, <2>4, <2>5
<1>10. CASE CacheHit
  <2>1. Held'
    BY <1>0, <1>10 DEF CacheHit, Content, Goto, Step, Held, PathSteps
  <2>2. Measured'
    BY <1>0, <1>10 DEF CacheHit, Content, Goto, Step, Measured, Unknown, Typed
  <2>3. Described'
    <3>1. PICK n \in 0..MaxSize :
            \/ response' = Content(n)
            \/ \E bytes \in 1..n-1 :
                 response' = [Content(n) EXCEPT !.bytes = bytes, !.cut = TRUE]
      BY <1>10 DEF CacheHit
    <3>2. CASE response' = Content(n)
      <4>1. response'.status = 200 /\ response'.bytes = response'.size
        BY <3>2 DEF Content
      <4>2. QED  BY <4>1 DEF Described
    <3>3. CASE \E bytes \in 1..n-1 :
                 response' = [Content(n) EXCEPT !.bytes = bytes, !.cut = TRUE]
      <4>1. PICK bytes \in 1..n-1 :
              response' = [Content(n) EXCEPT !.bytes = bytes, !.cut = TRUE]
        BY <3>3
      <4>2. response' = [status |-> 200, bytes |-> bytes, size |-> n, cut |-> TRUE]
        BY <4>1 DEF Content
      <4>3. response'.status = 200 /\ response'.cut = TRUE
        BY ONLY Zenon, <4>2
      <4>4. response'.status # 0 /\ response'.cut
        BY ONLY <4>3
      <4>5. QED  BY ONLY Zenon, <4>4 DEF Described
    <3>4. QED  BY Zenon, <3>1, <3>2, <3>3
  <2>4. Accounted'
    <3>1. at' = "build" /\ held' = held \cup {"content"} /\ sent' = sent
          /\ starved' = starved /\ at = "cache"
      BY <1>10 DEF CacheHit, Goto, Step
    <3>2. QED  BY ONLY <1>0, <3>1 DEF Accounted, NotSent, NoResponse
  <2>5. SentWasRead'
    <3>1. sent' = sent
      BY <1>10 DEF CacheHit
    <3>2. QED  BY ONLY <1>0, <3>1 DEF SentWasRead
  <2>6. QED  BY <2>1, <2>2, <2>3, <2>4, <2>5
<1>11. CASE CacheMiss
  <2>1. Held'
    BY <1>0, <1>11 DEF CacheMiss, Goto, Step, result_vars, Held, PathSteps
  <2>2. Measured'
    BY <1>0, <1>11 DEF CacheMiss, Goto, Step, result_vars, Measured, Unknown,
         Typed
  <2>3. Described'
    BY <1>0, <1>11 DEF CacheMiss, Goto, Step, result_vars, Described, Typed,
         Responses
  <2>4. Accounted'
    BY <1>0, <1>11 DEF CacheMiss, Goto, Step, result_vars, Accounted, NotSent,
         Typed, Responses, NoResponse
  <2>5. SentWasRead'
    BY <1>0, <1>11 DEF CacheMiss, Goto, Step, result_vars, SentWasRead, Typed,
         Responses
  <2>6. QED  BY <2>1, <2>2, <2>3, <2>4, <2>5
<1>12. CASE ReadFails
  <2>1. Held'
    BY <1>0, <1>12 DEF ReadFails, ReadFailed, Error, Goto, Step, NoResponse,
         Held, PathSteps
  <2>2. Measured'
    BY <1>0, <1>12 DEF ReadFails, ReadFailed, Error, Goto, Step, NoResponse,
         Measured, Unknown, Typed
  <2>3. Described'
    BY <1>0, <1>12 DEF ReadFails, ReadFailed, Error, Goto, Step, NoResponse,
         Described, Typed, Responses
  <2>4. Accounted'
    BY <1>0, <1>12 DEF ReadFails, ReadFailed, Error, Goto, Step, NoResponse,
         Accounted, NotSent, Typed, Responses
  <2>5. SentWasRead'
    BY <1>0, <1>12 DEF ReadFails, ReadFailed, Error, Goto, Step, NoResponse,
         SentWasRead, Typed, Responses
  <2>6. QED  BY <2>1, <2>2, <2>3, <2>4, <2>5
<1>13. CASE Open
  <2>1. Held'
    BY <1>0, <1>13 DEF Open, Step, Held, PathSteps
  <2>2. Measured'
    BY <1>0, <1>13 DEF Open, Step, Measured, Unknown, Typed
  <2>3. Described'
    BY <1>0, <1>13 DEF Open, Step, Described, Typed, Responses
  <2>4. Accounted'
    BY <1>0, <1>13 DEF Open, Step, Accounted, NotSent, Typed, Responses,
         NoResponse
  <2>5. SentWasRead'
    BY <1>0, <1>13 DEF Open, Step, SentWasRead, Typed, Responses
  <2>6. QED  BY <2>1, <2>2, <2>3, <2>4, <2>5
<1>14. CASE Measure
  <2>1. Held'
    BY <1>0, <1>14 DEF Measure, Goto, Step, Held, PathSteps
  <2>2. Measured'
    BY <1>0, <1>14 DEF Measure, Goto, Step, Measured, Unknown, Typed
  <2>3. Described'
    BY <1>0, <1>14 DEF Measure, Goto, Step, Described, Typed, Responses
  <2>4. Accounted'
    BY <1>0, <1>14 DEF Measure, Goto, Step, Accounted, NotSent, Typed,
         Responses, NoResponse
  <2>5. SentWasRead'
    BY <1>0, <1>14 DEF Measure, Goto, Step, SentWasRead, Typed, Responses
  <2>6. QED  BY <2>1, <2>2, <2>3, <2>4, <2>5
<1>15. CASE Allocate
  <2>1. Held'
    BY <1>0, <1>15 DEF Allocate, Goto, Step, Held, PathSteps
  <2>2. Measured'
    BY <1>0, <1>15 DEF Allocate, Goto, Step, Measured, Unknown, Typed
  <2>3. Described'
    BY <1>0, <1>15 DEF Allocate, Goto, Step, Described, Typed, Responses
  <2>4. Accounted'
    BY <1>0, <1>15 DEF Allocate, Goto, Step, Accounted, NotSent, Typed,
         Responses, NoResponse
  <2>5. SentWasRead'
    BY <1>0, <1>15 DEF Allocate, Goto, Step, SentWasRead, Typed, Responses
  <2>6. QED  BY <2>1, <2>2, <2>3, <2>4, <2>5
<1>16. CASE ReadContent
  <2>1. Held'
    BY <1>0, <1>16 DEF ReadContent, Content, Goto, Step, Held, PathSteps
  <2>2. Measured'
    BY <1>0, <1>16 DEF ReadContent, Content, Goto, Step, Measured, Unknown, Typed
  <2>3. Described'
    BY <1>0, <1>16 DEF ReadContent, Content, Goto, Step, Described, Typed, Responses,
         Held
  <2>4. Accounted'
    BY <1>0, <1>16 DEF ReadContent, Content, Goto, Step, Accounted, NotSent, Typed,
         Responses, NoResponse, Held
  <2>5. SentWasRead'
    BY <1>0, <1>16 DEF ReadContent, Content, Goto, Step, SentWasRead, Typed, Responses
  <2>6. QED  BY <2>1, <2>2, <2>3, <2>4, <2>5
<1>17. CASE WasmOpen
  <2>1. Held'
    BY <1>0, <1>17 DEF WasmOpen, Step, Held, PathSteps
  <2>2. Measured'
    BY <1>0, <1>17 DEF WasmOpen, Step, Measured, Unknown, Typed
  <2>3. Described'
    BY <1>0, <1>17 DEF WasmOpen, Step, Described, Typed, Responses
  <2>4. Accounted'
    BY <1>0, <1>17 DEF WasmOpen, Step, Accounted, NotSent, Typed, Responses,
         NoResponse
  <2>5. SentWasRead'
    BY <1>0, <1>17 DEF WasmOpen, Step, SentWasRead, Typed, Responses
  <2>6. QED  BY <2>1, <2>2, <2>3, <2>4, <2>5
<1>18. CASE WasmOpenFails
  <2>1. Held'
    BY <1>0, <1>18 DEF WasmOpenFails, Error, Goto, Step, NoResponse, Held,
         PathSteps
  <2>2. Measured'
    BY <1>0, <1>18 DEF WasmOpenFails, Error, Goto, Step, NoResponse, Measured,
         Unknown, Typed
  <2>3. Described'
    BY <1>0, <1>18 DEF WasmOpenFails, Error, Goto, Step, NoResponse, Described,
         Typed, Responses
  <2>4. Accounted'
    BY <1>0, <1>18 DEF WasmOpenFails, Error, Goto, Step, NoResponse, Accounted,
         NotSent, Typed, Responses
  <2>5. SentWasRead'
    BY <1>0, <1>18 DEF WasmOpenFails, Error, Goto, Step, NoResponse,
         SentWasRead, Typed, Responses
  <2>6. QED  BY <2>1, <2>2, <2>3, <2>4, <2>5
<1>19. CASE WasmMeasure
  <2>1. Held'
    BY <1>0, <1>19 DEF WasmMeasure, Goto, Step, Held, PathSteps
  <2>2. Measured'
    BY <1>0, <1>19 DEF WasmMeasure, Goto, Step, Measured, Unknown, Typed
  <2>3. Described'
    BY <1>0, <1>19 DEF WasmMeasure, Goto, Step, Described, Typed, Responses
  <2>4. Accounted'
    BY <1>0, <1>19 DEF WasmMeasure, Goto, Step, Accounted, NotSent, Typed,
         Responses, NoResponse
  <2>5. SentWasRead'
    BY <1>0, <1>19 DEF WasmMeasure, Goto, Step, SentWasRead, Typed, Responses
  <2>6. QED  BY <2>1, <2>2, <2>3, <2>4, <2>5
<1>20. CASE WasmAllocate
  <2>1. Held'
    BY <1>0, <1>20 DEF WasmAllocate, Goto, Step, Held, PathSteps
  <2>2. Measured'
    BY <1>0, <1>20 DEF WasmAllocate, Goto, Step, Measured, Unknown, Typed
  <2>3. Described'
    BY <1>0, <1>20 DEF WasmAllocate, Goto, Step, Described, Typed, Responses
  <2>4. Accounted'
    BY <1>0, <1>20 DEF WasmAllocate, Goto, Step, Accounted, NotSent, Typed,
         Responses, NoResponse
  <2>5. SentWasRead'
    BY <1>0, <1>20 DEF WasmAllocate, Goto, Step, SentWasRead, Typed, Responses
  <2>6. QED  BY <2>1, <2>2, <2>3, <2>4, <2>5
<1>21. CASE WasmAllocateFails
  <2>1. Held'
    BY <1>0, <1>21 DEF WasmAllocateFails, Error, Goto, Step, NoResponse, Held,
         PathSteps
  <2>2. Measured'
    BY <1>0, <1>21 DEF WasmAllocateFails, Error, Goto, Step, NoResponse,
         Measured, Unknown, Typed
  <2>3. Described'
    BY <1>0, <1>21 DEF WasmAllocateFails, Error, Goto, Step, NoResponse,
         Described, Typed, Responses
  <2>4. Accounted'
    BY <1>0, <1>21 DEF WasmAllocateFails, Error, Goto, Step, NoResponse,
         Accounted, NotSent, Typed, Responses
  <2>5. SentWasRead'
    BY <1>0, <1>21 DEF WasmAllocateFails, Error, Goto, Step, NoResponse,
         SentWasRead, Typed, Responses
  <2>6. QED  BY <2>1, <2>2, <2>3, <2>4, <2>5
<1>22. CASE WasmRead
  <2>1. Held'
    BY <1>0, <1>22 DEF WasmRead, Content, Goto, Step, Held, PathSteps
  <2>2. Measured'
    BY <1>0, <1>22 DEF WasmRead, Content, Goto, Step, Measured, Unknown, Typed
  <2>3. Described'
    BY <1>0, <1>22 DEF WasmRead, Content, Goto, Step, Described, Typed, Responses, Held
  <2>4. Accounted'
    BY <1>0, <1>22 DEF WasmRead, Content, Goto, Step, Accounted, NotSent, Typed,
         Responses, NoResponse, Held
  <2>5. SentWasRead'
    BY <1>0, <1>22 DEF WasmRead, Content, Goto, Step, SentWasRead, Typed, Responses
  <2>6. QED  BY <2>1, <2>2, <2>3, <2>4, <2>5
<1>23. CASE WasmReadFails
  <2>1. Held'
    BY <1>0, <1>23 DEF WasmReadFails, Error, Goto, Step, NoResponse, Held,
         PathSteps
  <2>2. Measured'
    BY <1>0, <1>23 DEF WasmReadFails, Error, Goto, Step, NoResponse, Measured,
         Unknown, Typed
  <2>3. Described'
    BY <1>0, <1>23 DEF WasmReadFails, Error, Goto, Step, NoResponse, Described,
         Typed, Responses
  <2>4. Accounted'
    BY <1>0, <1>23 DEF WasmReadFails, Error, Goto, Step, NoResponse, Accounted,
         NotSent, Typed, Responses
  <2>5. SentWasRead'
    BY <1>0, <1>23 DEF WasmReadFails, Error, Goto, Step, NoResponse,
         SentWasRead, Typed, Responses
  <2>6. QED  BY <2>1, <2>2, <2>3, <2>4, <2>5
<1>24. CASE LogReturns
  <2>1. Held'
    BY <1>0, <1>24 DEF LogReturns, Goto, Step, result_vars, Held, PathSteps
  <2>2. Measured'
    BY <1>0, <1>24 DEF LogReturns, Goto, Step, result_vars, Measured, Unknown,
         Typed
  <2>3. Described'
    BY <1>0, <1>24 DEF LogReturns, Goto, Step, result_vars, Described, Typed,
         Responses
  <2>4. Accounted'
    BY <1>0, <1>24 DEF LogReturns, Goto, Step, result_vars, Accounted, NotSent,
         Typed, Responses, NoResponse
  <2>5. SentWasRead'
    BY <1>0, <1>24 DEF LogReturns, Goto, Step, result_vars, SentWasRead, Typed,
         Responses
  <2>6. QED  BY <2>1, <2>2, <2>3, <2>4, <2>5
<1>25. CASE LogExits
  <2>1. Held'
    BY <1>0, <1>25 DEF LogExits, Goto, Step, Held, PathSteps
  <2>2. Measured'
    BY <1>0, <1>25 DEF LogExits, Goto, Step, Measured, Unknown, Typed
  <2>3. Described'
    BY <1>0, <1>25 DEF LogExits, Goto, Step, Described, Typed, Responses
  <2>4. Accounted'
    BY <1>0, <1>25 DEF LogExits, Goto, Step, Accounted, NotSent, Typed,
         Responses, NoResponse
  <2>5. SentWasRead'
    BY <1>0, <1>25 DEF LogExits, Goto, Step, SentWasRead, Typed, Responses
  <2>6. QED  BY <2>1, <2>2, <2>3, <2>4, <2>5
<1>26. CASE MakePage
  <2>1. Held'
    BY <1>0, <1>26 DEF MakePage, Goto, Step, Page, Held, PathSteps
  <2>2. Measured'
    BY <1>0, <1>26 DEF MakePage, Goto, Step, Page, Measured, Unknown, Typed
  <2>3. Described'
    <3>1. held = {} /\ response.status # 0 /\ at' = "build" /\ response \in Responses
      BY <1>0, <1>26 DEF MakePage, Goto, Step, Held, Described, Typed
    <3>2. CASE response' = [response EXCEPT !.bytes = Page, !.size = Page]
      <4>1. response'.status = response.status /\ response'.bytes = response'.size
        BY <3>1, <3>2 DEF Responses
      <4>2. QED  BY <3>1, <4>1 DEF Described
    <3>3. CASE UNCHANGED <<held, response>>
      BY <3>1, <3>3 DEF Described
    <3>4. QED  BY <1>26, <3>2, <3>3 DEF MakePage
  <2>4. Accounted'
    BY <1>0, <1>26 DEF MakePage, Goto, Step, Page, Accounted, NotSent, Typed,
         Responses, NoResponse, Held
  <2>5. SentWasRead'
    BY <1>0, <1>26 DEF MakePage, Goto, Step, Page, SentWasRead, Typed, Responses
  <2>6. QED  BY <2>1, <2>2, <2>3, <2>4, <2>5
<1>27. CASE Build
  <2>1. Held'
    BY <1>0, <1>27 DEF Build, Goto, Step, Held, PathSteps
  <2>2. Measured'
    BY <1>0, <1>27 DEF Build, Goto, Step, Measured, Unknown, Typed
  <2>3. Described'
    BY <1>0, <1>27 DEF Build, Goto, Step, Described, Typed, Responses
  <2>4. Accounted'
    BY <1>0, <1>27 DEF Build, Goto, Step, Accounted, NotSent, Typed, Responses,
         NoResponse
  <2>5. SentWasRead'
    BY <1>0, <1>27 DEF Build, Goto, Step, SentWasRead, Typed, Responses
  <2>6. QED  BY <2>1, <2>2, <2>3, <2>4, <2>5
<1>28. CASE BuildNothing
  <2>1. Held'
    BY <1>0, <1>28 DEF BuildNothing, Goto, Step, Held, PathSteps
  <2>2. Measured'
    BY <1>0, <1>28 DEF BuildNothing, Goto, Step, Measured, Unknown, Typed
  <2>3. Described'
    BY <1>0, <1>28 DEF BuildNothing, Goto, Step, Described, Typed, Responses
  <2>4. Accounted'
    BY ZenonT(30), <1>0, <1>28 DEF BuildNothing, Goto, Step, Accounted, NotSent, Typed,
         Responses, NoResponse
  <2>5. SentWasRead'
    BY <1>0, <1>28 DEF BuildNothing, Goto, Step, SentWasRead, Typed, Responses
  <2>6. QED  BY <2>1, <2>2, <2>3, <2>4, <2>5
<1>29. CASE Write
  <2>1. Held'
    BY <1>0, <1>29 DEF Write, Goto, Step, Held, PathSteps
  <2>2. Measured'
    BY <1>0, <1>29 DEF Write, Goto, Step, Measured, Unknown, Typed
  <2>3. Described'
    BY <1>0, <1>29 DEF Write, Goto, Step, Described, Typed, Responses
  <2>4. Accounted'
    BY <1>0, <1>29 DEF Write, Goto, Step, Accounted, NotSent, Typed, Responses,
         NoResponse, Described
  <2>5. SentWasRead'
    BY <1>0, <1>29 DEF Write, Goto, Step, SentWasRead, Typed, Responses,
         Described
  <2>6. QED  BY <2>1, <2>2, <2>3, <2>4, <2>5
<1>30. CASE free_response
  <2>1. Held'
    BY <1>0, <1>30 DEF free_response, Goto, Step, Held, PathSteps
  <2>2. Measured'
    BY <1>0, <1>30 DEF free_response, Goto, Step, Measured, Unknown, Typed
  <2>3. Described'
    BY <1>0, <1>30 DEF free_response, Goto, Step, Described, Typed, Responses
  <2>4. Accounted'
    BY <1>0, <1>30 DEF free_response, Goto, Step, Accounted, NotSent, Typed,
         Responses, NoResponse
  <2>5. SentWasRead'
    BY <1>0, <1>30 DEF free_response, Goto, Step, SentWasRead, Typed, Responses
  <2>6. QED  BY <2>1, <2>2, <2>3, <2>4, <2>5
<1>31. QED
  BY <1>1, <1>2, <1>3, <1>4, <1>5, <1>6, <1>7, <1>8, <1>9, <1>10, <1>11, <1>12,
       <1>13, <1>14, <1>15, <1>16, <1>17, <1>18, <1>19, <1>20, <1>21, <1>22,
       <1>23, <1>24, <1>25, <1>26, <1>27, <1>28, <1>29, <1>30 DEF RouteStep

\* The steps of the path lead from one of them to another.
LEMMA PathStays ==
  ASSUME PathNext
  PROVE  at \in PathSteps /\ at' \in PathSteps
<1>1. CASE strtok
  BY <1>1 DEF strtok, PathSteps
<1>2. CASE parse_request
  BY <1>2 DEF parse_request, PathSteps
<1>3. CASE CopyPath
  BY <1>3 DEF CopyPath, Rewind, PathSteps
<1>4. CASE DecodeEscape
  BY <1>4 DEF DecodeEscape, Emit, PathSteps
<1>5. CASE DecodeOther
  BY <1>5 DEF DecodeOther, Emit, PathSteps
<1>6. CASE DecodeEnd
  BY <1>6 DEF DecodeEnd, Terminate, Rewind, PathSteps
<1>7. CASE SkipSlash
  BY <1>7 DEF SkipSlash, PathSteps
<1>8. CASE KeepCharacter
  BY <1>8 DEF KeepCharacter, Emit, PathSteps
<1>9. CASE NormalizeEnd
  BY <1>9 DEF NormalizeEnd, Terminate, Rewind, PathSteps
<1>10. CASE CheckLevel
  BY <1>10 DEF CheckLevel, PathSteps
<1>11. CASE CheckEnd
  BY <1>11 DEF CheckEnd, PathSteps
<1>12. QED
  BY <1>1, <1>2, <1>3, <1>4, <1>5, <1>6, <1>7, <1>8, <1>9, <1>10, <1>11 DEF PathNext

-----------------------------------------------------------------------------
(* The theorems.                                                           *)

\* The invariant holds of a request that was just read.
LEMMA InitIInv == Init => IInv
<1> SUFFICES ASSUME Init  PROVE IInv
  OBVIOUS
<1>1. PathInv /\ at = "raw"
  BY InitPath DEF Init, PathInit
<1>2. NoResponse \in Responses
  BY EmptyTyped DEF NoResponse
<1>3. Typed
  <2>1. 0 \in 0..MaxSize
    BY RouterAssumption
  <2>2. response \in Responses /\ sent \in Responses
    BY <1>2 DEF Init, NotSent
  <2>3. /\ finding = "none" /\ route = "none" /\ length = 0 /\ size = 0
        /\ held = {} /\ starved = FALSE
    BY DEF Init
  <2>4. QED  BY <2>1, <2>2, <2>3 DEF Typed
<1>4. Held /\ Measured /\ Described /\ Accounted /\ SentWasRead
  BY <1>1 DEF Init, Held, Measured, Described, Accounted, SentWasRead, NotSent,
    NoResponse
<1>5. at \in PathSteps \cup RouteSteps
  BY <1>1 DEF PathSteps
<1>6. QED  BY <1>1, <1>3, <1>4, <1>5 DEF IInv, TypeOK, Typed, PathInv

\* Every step keeps the invariant: those of the path, those of the router, and
\* another process that writes to the file that is open.
LEMMA NextIInv == IInv /\ [Next]_vars => IInv'
<1> SUFFICES ASSUME IInv, [Next]_vars  PROVE IInv'
  OBVIOUS
<1>0. /\ PathInv /\ Typed /\ at \in PathSteps \cup RouteSteps
      /\ Held /\ Measured /\ Described /\ Accounted /\ SentWasRead
  BY DEF IInv, TypeOK, Typed
<1>1. CASE PathStep
  <2>1. PathNext /\ UNCHANGED <<finding, route, length, response, held, sent, starved, size>>
    BY <1>1 DEF PathStep, result_vars
  <2>2. at \in PathSteps /\ at' \in PathSteps
    BY <2>1, PathStays
  <2>3. PathInv'
    BY <1>0, <2>1, NextPathInv
  <2>4. Typed'
    BY <1>0, <2>1 DEF Typed
  <2>5. Held'
    <3>1. held' = {}
      BY <1>0, <2>1, <2>2 DEF Held
    <3>2. QED  BY <3>1, <2>2 DEF Held, PathSteps
  <2>6. Measured' /\ Described' /\ Accounted' /\ SentWasRead'
    BY <1>0, <2>1, <2>2
    DEF Measured, Described, Accounted, SentWasRead, PathSteps
  <2>7. QED  BY <2>2, <2>3, <2>4, <2>5, <2>6 DEF IInv, TypeOK, Typed, PathInv
<1>2. CASE RouteStep
  <2>1. PathInv' /\ Typed' /\ at' \in RouteSteps
    BY <1>0, <1>2, RoutePathInv, RouteTypes, RouteLeavesPath
  <2>2. Held' /\ Measured' /\ Described' /\ Accounted' /\ SentWasRead'
    BY <1>2, RouteKeeps
  <2>3. QED  BY <2>1, <2>2 DEF IInv, TypeOK, Typed, PathInv
<1>3. CASE Change \/ UNCHANGED vars
  <2>1. /\ UNCHANGED <<raw, line, path, body, decoded, src, dst, depth, at>>
        /\ UNCHANGED <<finding, route, length, response, held, sent, starved>>
        /\ size' \in 0..MaxSize
    BY <1>0, <1>3
    DEF Change, Typed, vars, path_vars, text_vars, buffer_vars, result_vars
  <2>2. PathInv'
    BY <1>0, <2>1 DEF PathInv, PathTypeOK, Copied, Decoding, Normalizing,
      PathAsSent,
      LoopAt, Written, Word
  <2>3. Typed'
    BY <1>0, <2>1 DEF Typed
  <2>4. Held' /\ Measured' /\ Described' /\ Accounted' /\ SentWasRead'
    BY <1>0, <2>1 DEF Held, Measured, Described, Accounted, SentWasRead
  <2>5. QED  BY <1>0, <2>1, <2>2, <2>3, <2>4 DEF IInv, TypeOK, Typed, PathInv
<1>4. QED  BY <1>1, <1>2, <1>3 DEF Next

\* For every request, every configuration and every schedule of those who write to
\* its file, the inductive invariant holds: of the loops that decode and normalize a
\* path in one buffer, and of what handle_request and what it calls hold at each step.
THEOREM RouterInvariant == Spec => []IInv
BY InitIInv, NextIInv, PTL DEF Spec

\* In particular the buffers and the pointers of the loops stay in their bounds: no
\* loop of url_decode, normalize_path or is_path_traversal leaves decoded_path.
THEOREM RouterTypes == Spec => []TypeOK
<1>1. IInv => TypeOK
  BY DEF IInv
<1>2. QED  BY <1>1, RouterInvariant, PTL

\* What the router compares is the path of the request line decoded once, ended by
\* its first NUL, with single slashes, for paths of every length.
THEOREM PathIsAsSent == Spec => []PathAsSent
<1>1. IInv => PathAsSent
  BY DEF IInv, PathInv
<1>2. QED  BY <1>1, RouterInvariant, PTL

\* What goes out as content was read, whatever fails and however the file changes,
\* but for the copy of a cached content that my_strdup has cut at a NUL byte, which
\* goes out with the size of the whole.
THEOREM SentIsRead == Spec => []SentWasRead
<1>1. IInv => SentWasRead
  BY DEF IInv
<1>2. QED  BY <1>1, RouterInvariant, PTL

\* A request that is done has closed its file and freed its memory, and was
\* answered unless there was no memory for an answer.
THEOREM DoneIsAnswered == Spec => []AnsweredWhenDone
<1>1. IInv => AnsweredWhenDone
  BY DEF IInv, Held, Accounted, AnsweredWhenDone
<1>2. QED  BY <1>1, RouterInvariant, PTL
=============================================================================
