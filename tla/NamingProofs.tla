--------------------------- MODULE NamingProofs ---------------------------
(***************************************************************************)
(* Theorems about Naming, for names of any length over any bytes.          *)
(*                                                                         *)
(* What has to be found in a name is found by Least: the cut before a byte *)
(* and the one after it, and the first separator.                          *)
(***************************************************************************)
EXTENDS Naming, SequenceTheorems, WellFoundedInduction, TLAPS

Octet == 0 .. 255
Name == Seq(Octet)

\* The order of the naturals as a set of pairs, as WFMin wants it.
Below == {pair \in Nat \X Nat : pair[1] < pair[2]}

(* Every set of naturals that is not empty has a least element ...         *)
LEMMA Least ==
  ASSUME NEW S \in SUBSET Nat, S # {}
  PROVE  \E x \in S : \A y \in S : x <= y
<1>1. IsWellFoundedOn(Below, Nat)
  BY ONLY NatLessThanWellFounded DEF OpToRel, Below
<1>2. PICK x \in S : \A y \in S : <<y, x>> \notin Below
  BY <1>1, WFMin
<1>3. \A y \in S : ~(y < x)
  BY <1>2 DEF Below
<1> QED
  BY <1>3

(* ... and if it is bounded, a greatest one: the least when counted down   *)
(* from the bound.                                                         *)
LEMMA Greatest ==
  ASSUME NEW S \in SUBSET Nat, S # {}, NEW n \in Nat, \A x \in S : x <= n
  PROVE  \E x \in S : \A y \in S : y <= x
<1> DEFINE T == {m \in 0 .. n : n - m \in S}
<1>1. \A x \in S : n - x \in T
  OBVIOUS
<1>2. T \in SUBSET Nat
  OBVIOUS
<1> HIDE DEF T
<1>3. PICK m \in T : \A k \in T : m <= k
  BY <1>1, <1>2, Least
<1>4. m \in 0 .. n /\ n - m \in S
  BY <1>3 DEF T
<1>5. \A y \in S : y <= n - m
  BY <1>1, <1>3, <1>4
<1> QED
  BY <1>4, <1>5

LEMMA FirstIsLeast ==
  ASSUME NEW S \in SUBSET Nat, S # {}
  PROVE  First(S) \in S /\ \A y \in S : First(S) <= y
<1>1. \E x \in S : \A y \in S : x <= y
  BY Least
<1> QED
  BY <1>1 DEF First

LEMMA FirstIs ==
  ASSUME NEW S \in SUBSET Nat, NEW x \in S, \A y \in S : x <= y
  PROVE  First(S) = x
<1>1. First(S) \in S /\ First(S) <= x
  BY FirstIsLeast
<1>2. x <= First(S) /\ x \in Nat /\ First(S) \in Nat
  BY <1>1
<1> QED
  BY <1>1, <1>2

---------------------------------------------------------------------------
(* The check_ functions accept what the valid_ functions accept.           *)

LEMMA RefusedIsNotOk ==
  ASSUME NEW c PROVE classify_rejected_byte(c) # "Ok"
BY DEF classify_rejected_byte

LEMMA IdentifierDiagnosis ==
  ASSUME NEW s \in Name
  PROVE  check_identifier(s) = "Ok" <=> valid_identifier(s)
<1> DEFINE bad == {i \in DOMAIN s : ~is_identifier_char(s[i])}
<1>1. valid_identifier(s) <=> s # <<>> /\ bad = {}
  BY DEF valid_identifier
<1>2. CASE s = <<>>
  BY <1>1, <1>2 DEF check_identifier
<1>3. CASE s # <<>> /\ bad # {}
  <2>1. check_identifier(s) = Refused(s, First(bad))
    BY <1>3 DEF check_identifier
  <2> QED
    BY <1>1, <1>3, <2>1, RefusedIsNotOk DEF Refused
<1>4. CASE s # <<>> /\ bad = {}
  BY <1>1, <1>4 DEF check_identifier
<1> QED
  BY <1>2, <1>3, <1>4

LEMMA FragmentDiagnosis ==
  ASSUME NEW s \in Name
  PROVE  check_fragment(s) = "Ok" <=> valid_fragment(s)
<1> DEFINE bad == {i \in DOMAIN s : ~is_fragment_char(s[i])}
           rest == IF s[1] = Slash THEN "LeadingSlash"
                   ELSE IF s[Len(s)] = Slash THEN "TrailingSlash"
                   ELSE IF \E i \in 2 .. Len(s) : s[i] = Slash /\ s[i - 1] = Slash
                        THEN "EmptyChunk"
                   ELSE "Ok"
<1>1. valid_fragment(s) <=> s # <<>> /\ bad = {} /\ rest = "Ok"
  BY DEF valid_fragment
<1>2. CASE s = <<>>
  BY <1>1, <1>2 DEF check_fragment
<1>3. CASE s # <<>> /\ bad # {}
  <2>1. check_fragment(s) = Refused(s, First(bad))
    BY <1>3 DEF check_fragment
  <2> QED
    BY <1>1, <1>3, <2>1, RefusedIsNotOk DEF Refused
<1>4. CASE s # <<>> /\ bad = {}
  <2>1. check_fragment(s) = rest
    BY <1>4 DEF check_fragment
  <2> QED
    BY <1>1, <1>4, <2>1
<1> QED
  BY <1>2, <1>3, <1>4

---------------------------------------------------------------------------
(* A fragment is a path: the cuts around a byte, and the chunks between.   *)

LEMMA CutsAround ==
  ASSUME NEW s \in Name, NEW i \in 1 .. Len(s), i \notin Cuts(s)
  PROVE  \E a, b \in Cuts(s) : a < i /\ i < b /\ Consecutive(Cuts(s), a, b)
<1>1. Cuts(s) \in SUBSET Nat /\ 0 \in Cuts(s) /\ Len(s) + 1 \in Cuts(s)
  BY DEF Cuts, Name
<1> DEFINE before == {c \in Cuts(s) : c < i}
           after == {c \in Cuts(s) : i < c}
<1>2. before \in SUBSET Nat /\ 0 \in before /\ \A c \in before : c <= i
  BY <1>1
<1>3. after \in SUBSET Nat /\ Len(s) + 1 \in after
  BY <1>1
<1>4. \A c \in Cuts(s) : c \in before \/ c \in after
  BY <1>1
<1>5. \A c \in before : c \in Cuts(s) /\ c < i
  OBVIOUS
<1>6. \A c \in after : c \in Cuts(s) /\ i < c
  OBVIOUS
<1> HIDE DEF before, after
<1>7. PICK a \in before : \A c \in before : c <= a
  <2>1. i \in Nat /\ before # {}
    BY <1>2
  <2> QED
    BY <1>2, <2>1, Greatest
<1>8. PICK b \in after : \A c \in after : b <= c
  BY <1>3, Least
<1>9. Consecutive(Cuts(s), a, b)
  BY <1>1, <1>4, <1>5, <1>6, <1>7, <1>8 DEF Consecutive
<1> QED
  BY <1>5, <1>6, <1>7, <1>8, <1>9

(* A part of a name: its length and its bytes.                             *)
LEMMA Part ==
  ASSUME NEW s \in Name, NEW m \in 1 .. Len(s) + 1, NEW n \in m - 1 .. Len(s)
  PROVE  /\ SubSeq(s, m, n) \in Name
         /\ Len(SubSeq(s, m, n)) = n - m + 1
         /\ \A k \in 1 .. n - m + 1 : SubSeq(s, m, n)[k] = s[m + k - 1]
<1>1. Len(s) \in Nat /\ m \in Int /\ n \in Int
  BY DEF Name
<1>2. \A i \in m .. n : s[i] \in Octet
  <2>1. \A i \in m .. n : i \in 1 .. Len(s)
    BY <1>1
  <2> QED
    BY <2>1 DEF Name
<1>3. (IF m <= n THEN n - m + 1 ELSE 0) = n - m + 1
  BY <1>1
<1>4. /\ SubSeq(s, m, n) \in Seq(Octet)
      /\ Len(SubSeq(s, m, n)) = IF m <= n THEN n - m + 1 ELSE 0
      /\ \A i \in 1 .. n - m + 1 : SubSeq(s, m, n)[i] = s[m + i - 1]
  BY ONLY <1>1, <1>2, SubSeqProperties
<1> QED
  BY ONLY <1>3, <1>4 DEF Name

\* What lies between two cuts.
Between(s, a, b) == SubSeq(s, a + 1, b - 1)

LEMMA ChunkOf ==
  ASSUME NEW s \in Name, NEW a \in Cuts(s), NEW b \in Cuts(s),
         Consecutive(Cuts(s), a, b)
  PROVE  /\ a \in 0 .. Len(s) /\ b \in a + 1 .. Len(s) + 1 /\ Len(s) \in Nat
         /\ Between(s, a, b) \in Name
         /\ Len(Between(s, a, b)) = b - a - 1
         /\ \A k \in 1 .. b - a - 1 : Between(s, a, b)[k] = s[a + k]
<1>1. /\ a \in 0 .. Len(s) + 1 /\ b \in 0 .. Len(s) + 1 /\ a < b
      /\ Len(s) \in Nat
  BY DEF Cuts, Name, Consecutive
<1>2. /\ a \in 0 .. Len(s) /\ b \in a + 1 .. Len(s) + 1
      /\ a + 1 \in 1 .. Len(s) + 1 /\ b - 1 \in (a + 1) - 1 .. Len(s)
      /\ (b - 1) - (a + 1) + 1 = b - a - 1
      /\ \A k \in 1 .. b - a - 1 : (a + 1) + k - 1 = a + k
  BY <1>1
<1>3. /\ Between(s, a, b) \in Name
      /\ Len(Between(s, a, b)) = (b - 1) - (a + 1) + 1
      /\ \A k \in 1 .. (b - 1) - (a + 1) + 1 : Between(s, a, b)[k] = s[(a + 1) + k - 1]
  BY <1>2, Part DEF Between
<1> QED
  BY <1>1, <1>2, <1>3

(* Either way of looking at a name finds the same chunks.                  *)
LEMMA FragmentIsPath ==
  ASSUME NEW s \in Name
  PROVE  valid_fragment(s) <=> \A chunk \in Chunks(s) : valid_identifier(chunk)
<1>1. (\A chunk \in Chunks(s) : valid_identifier(chunk))
        <=> \A a, b \in Cuts(s) :
              Consecutive(Cuts(s), a, b) => valid_identifier(Between(s, a, b))
  <2> DEFINE pairs == {q \in Cuts(s) \X Cuts(s) : Consecutive(Cuts(s), q[1], q[2])}
  <2>1. Chunks(s) = {Between(s, p[1], p[2]) : p \in pairs}
    BY DEF Chunks, Between
  <2>2. \A a, b \in Cuts(s) : Consecutive(Cuts(s), a, b) => <<a, b>> \in pairs
    OBVIOUS
  <2>3. \A p \in pairs : /\ p[1] \in Cuts(s) /\ p[2] \in Cuts(s)
                         /\ Consecutive(Cuts(s), p[1], p[2])
    OBVIOUS
  <2> HIDE DEF pairs
  <2>4. \A a, b \in Cuts(s) :
          Consecutive(Cuts(s), a, b) => Between(s, a, b) \in Chunks(s)
    <3>1. ASSUME NEW a \in Cuts(s), NEW b \in Cuts(s), Consecutive(Cuts(s), a, b)
          PROVE  Between(s, a, b) \in Chunks(s)
      <4>1. <<a, b>> \in pairs /\ <<a, b>>[1] = a /\ <<a, b>>[2] = b
        BY <2>2, <3>1
      <4> QED
        BY <2>1, <4>1
    <3> QED
      BY <3>1
  <2> QED
    BY <2>1, <2>3, <2>4
<1>2. ASSUME valid_fragment(s), NEW a \in Cuts(s), NEW b \in Cuts(s),
             Consecutive(Cuts(s), a, b)
      PROVE  valid_identifier(Between(s, a, b))
  <2>1. /\ a \in 0 .. Len(s) /\ b \in a + 1 .. Len(s) + 1 /\ Len(s) \in Nat
        /\ Between(s, a, b) \in Name
        /\ Len(Between(s, a, b)) = b - a - 1
        /\ \A k \in 1 .. b - a - 1 : Between(s, a, b)[k] = s[a + k]
    BY <1>2, ChunkOf
  <2>2. /\ Len(s) # 0 /\ s[1] # Slash /\ s[Len(s)] # Slash
        /\ \A i \in 2 .. Len(s) : ~(s[i] = Slash /\ s[i - 1] = Slash)
        /\ \A i \in 1 .. Len(s) : is_fragment_char(s[i])
    BY <1>2 DEF valid_fragment, Name
  <2>3. (a # 0 => s[a] = Slash) /\ (b # Len(s) + 1 => s[b] = Slash)
    BY <2>1 DEF Cuts
  <2>4. b # a + 1
    <3>1. CASE a = 0
      <4>1. 1 # Len(s) + 1
        BY <2>1, <2>2
      <4> QED
        BY <2>2, <2>3, <3>1, <4>1
    <3>2. CASE a # 0 /\ b = Len(s) + 1
      BY <2>1, <2>2, <2>3, <3>2
    <3>3. CASE a # 0 /\ b # Len(s) + 1
      <4>1. SUFFICES ASSUME b = a + 1 PROVE FALSE
        OBVIOUS
      <4>2. b \in 2 .. Len(s) /\ b - 1 = a
        BY <2>1, <3>3, <4>1
      <4> QED
        BY <2>2, <2>3, <3>3, <4>2
    <3> QED
      BY <3>1, <3>2, <3>3
  <2>5. ASSUME NEW k \in 1 .. b - a - 1 PROVE is_identifier_char(Between(s, a, b)[k])
    <3>1. a + k \in 1 .. Len(s) /\ a < a + k /\ a + k < b
      BY <2>1
    <3>2. a + k \notin Cuts(s)
      <4>1. \A c \in Cuts(s) : c <= a \/ b <= c
        BY <1>2 DEF Consecutive
      <4>2. a + k \in Int /\ a \in Int /\ b \in Int
        BY <2>1, <3>1
      <4> QED
        BY <3>1, <4>1, <4>2
    <3>3. s[a + k] # Slash
      BY <3>1, <3>2 DEF Cuts, Name
    <3> QED
      BY <2>1, <2>2, <3>1, <3>3 DEF is_fragment_char
  <2>6. DOMAIN Between(s, a, b) = 1 .. b - a - 1 /\ Between(s, a, b) # <<>>
    <3>1. b - a - 1 # 0
      BY <2>1, <2>4
    <3> QED
      BY <2>1, <3>1 DEF Name
  <2> QED
    BY <2>5, <2>6 DEF valid_identifier
<1>3. ASSUME \A a, b \in Cuts(s) :
               Consecutive(Cuts(s), a, b) => valid_identifier(Between(s, a, b))
      PROVE  valid_fragment(s)
  <2>1. ASSUME NEW a \in Cuts(s), a + 1 \in Cuts(s) PROVE FALSE
    <3>1. Consecutive(Cuts(s), a, a + 1)
      BY DEF Consecutive, Cuts, Name
    <3>2. /\ Between(s, a, a + 1) \in Name
          /\ Len(Between(s, a, a + 1)) = (a + 1) - a - 1
          /\ a \in 0 .. Len(s)
      BY <2>1, <3>1, ChunkOf
    <3>3. Between(s, a, a + 1) = <<>>
      <4>1. (a + 1) - a - 1 = 0
        BY <3>2
      <4> QED
        BY <3>2, <4>1 DEF Name
    <3> QED
      BY <1>3, <2>1, <3>1, <3>3 DEF valid_identifier
  <2>2. /\ 0 \in Cuts(s) /\ Len(s) + 1 \in Cuts(s) /\ Len(s) \in Nat
        /\ \A i \in 1 .. Len(s) : i \in Cuts(s) <=> s[i] = Slash
    BY DEF Cuts, Name
  <2>3. Len(s) # 0
    BY <2>1, <2>2
  <2>4. s[1] # Slash /\ s[Len(s)] # Slash
    <3>1. 1 \in 1 .. Len(s) /\ Len(s) \in 1 .. Len(s) /\ 0 + 1 = 1
      BY <2>2, <2>3
    <3>2. 1 \notin Cuts(s)
      BY <2>1, <2>2, <3>1
    <3>3. Len(s) \notin Cuts(s)
      BY <2>1, <2>2
    <3> QED
      BY <2>2, <3>1, <3>2, <3>3
  <2>5. \A i \in 2 .. Len(s) : ~(s[i] = Slash /\ s[i - 1] = Slash)
    <3>1. ASSUME NEW i \in 2 .. Len(s), s[i] = Slash, s[i - 1] = Slash PROVE FALSE
      <4>1. i - 1 \in Cuts(s) /\ (i - 1) + 1 \in Cuts(s)
        BY <2>2, <3>1
      <4> QED
        BY <2>1, <4>1
    <3> QED
      BY <3>1
  <2>6. ASSUME NEW i \in 1 .. Len(s) PROVE is_fragment_char(s[i])
    <3>1. CASE i \in Cuts(s)
      BY <2>2, <3>1 DEF is_fragment_char
    <3>2. CASE i \notin Cuts(s)
      <4>1. PICK a, b \in Cuts(s) : a < i /\ i < b /\ Consecutive(Cuts(s), a, b)
        BY <3>2, CutsAround
      <4>2. /\ i - a \in 1 .. b - a - 1 /\ a + (i - a) = i
            /\ Len(Between(s, a, b)) = b - a - 1
            /\ Between(s, a, b) \in Name
            /\ Between(s, a, b)[i - a] = s[a + (i - a)]
        <5>1. /\ a \in 0 .. Len(s) /\ b \in a + 1 .. Len(s) + 1
              /\ Len(Between(s, a, b)) = b - a - 1
              /\ Between(s, a, b) \in Name
              /\ \A k \in 1 .. b - a - 1 : Between(s, a, b)[k] = s[a + k]
          BY <4>1, ChunkOf
        <5>2. i - a \in 1 .. b - a - 1 /\ a + (i - a) = i
          BY <4>1, <5>1
        <5> QED
          BY <5>1, <5>2
      <4>3. is_identifier_char(Between(s, a, b)[i - a])
        BY <1>3, <4>1, <4>2 DEF valid_identifier
      <4> QED
        BY <4>2, <4>3 DEF is_fragment_char
    <3> QED
      BY <3>1, <3>2
  <2> QED
    BY <2>3, <2>4, <2>5, <2>6 DEF valid_fragment, Name
<1> QED
  BY <1>1, <1>2, <1>3

---------------------------------------------------------------------------
(* Composing and parsing.                                                  *)

LEMMA SeparatorPlaces ==
  ASSUME NEW s \in Name
  PROVE  /\ SeparatorsOf(s) \in SUBSET Nat
         /\ \A i : i \in SeparatorsOf(s) <=>
              i \in 1 .. Len(s) - 1 /\ s[i] = Colon /\ s[i + 1] = Colon
<1>1. ASSUME NEW i \in 1 .. Len(s) - 1
      PROVE  SubSeq(s, i, i + 1) = Separator <=> s[i] = Colon /\ s[i + 1] = Colon
  <2>1. /\ i \in 1 .. Len(s) + 1 /\ i + 1 \in i - 1 .. Len(s)
        /\ (i + 1) - i + 1 = 2
        /\ i + 1 - 1 = i /\ i + 2 - 1 = i + 1
        /\ 1 \in 1 .. 2 /\ 2 \in 1 .. 2
    BY DEF Name
  <2> DEFINE two == SubSeq(s, i, i + 1)
  <2>2. two \in Name /\ Len(two) = 2 /\ \A k \in 1 .. 2 : two[k] = s[i + k - 1]
    BY <2>1, Part
  <2> HIDE DEF two
  <2>3. two[1] = s[i] /\ two[2] = s[i + 1]
    BY <2>1, <2>2
  <2>4. two = Separator <=> two[1] = Colon /\ two[2] = Colon
    <3>1. /\ Separator \in Name /\ Len(Separator) = 2
          /\ Separator[1] = Colon /\ Separator[2] = Colon
      BY DEF Separator, Name, Octet, Colon
    <3>2. two[1] = Colon /\ two[2] = Colon => \A k \in 1 .. Len(two) : two[k] = Separator[k]
      BY <2>2, <3>1
    <3> QED
      BY ONLY <2>2, <3>1, <3>2, SeqEqual DEF Name
  <2> QED
    BY <2>3, <2>4 DEF two
<1>2. SeparatorsOf(s) = {i \in 1 .. Len(s) - 1 : s[i] = Colon /\ s[i + 1] = Colon}
  BY <1>1 DEF SeparatorsOf
<1>3. \A i \in 1 .. Len(s) - 1 : i \in Nat
  BY DEF Name
<1> QED
  BY <1>2, <1>3

(* A name is the composition of what is on either side of a separator.     *)
LEMMA SplitRestores ==
  ASSUME NEW s \in Name, NEW i \in SeparatorsOf(s)
  PROVE  /\ compose(SubSeq(s, 1, i - 1), SubSeq(s, i + 2, Len(s))) = s
         /\ SubSeq(s, 1, i - 1) \in Name /\ SubSeq(s, i + 2, Len(s)) \in Name
         /\ Len(SubSeq(s, 1, i - 1)) = i - 1
         /\ \A k \in 1 .. i - 1 : SubSeq(s, 1, i - 1)[k] = s[k]
<1> DEFINE fragment == SubSeq(s, 1, i - 1)
           node == SubSeq(s, i + 2, Len(s))
           upto == fragment \o Separator
<1>1. i \in 1 .. Len(s) - 1 /\ s[i] = Colon /\ s[i + 1] = Colon /\ Len(s) \in Nat
  BY SeparatorPlaces DEF Name
<1>2. /\ fragment \in Name /\ Len(fragment) = i - 1
      /\ \A k \in 1 .. i - 1 : fragment[k] = s[k]
  <2>1. /\ 1 \in 1 .. Len(s) + 1 /\ i - 1 \in 1 - 1 .. Len(s)
        /\ (i - 1) - 1 + 1 = i - 1
        /\ \A k \in 1 .. i - 1 : 1 + k - 1 = k
    BY <1>1
  <2>2. /\ fragment \in Name /\ Len(fragment) = (i - 1) - 1 + 1
        /\ \A k \in 1 .. (i - 1) - 1 + 1 : fragment[k] = s[1 + k - 1]
    BY <2>1, Part
  <2> QED
    BY <2>1, <2>2
<1>3. /\ node \in Name /\ Len(node) = Len(s) - i - 1
      /\ \A k \in 1 .. Len(s) - i - 1 : node[k] = s[i + 1 + k]
  <2>1. /\ i + 2 \in 1 .. Len(s) + 1 /\ Len(s) \in (i + 2) - 1 .. Len(s)
        /\ Len(s) - (i + 2) + 1 = Len(s) - i - 1
        /\ \A k \in 1 .. Len(s) - i - 1 : (i + 2) + k - 1 = i + 1 + k
    BY <1>1
  <2>2. /\ node \in Name /\ Len(node) = Len(s) - (i + 2) + 1
        /\ \A k \in 1 .. Len(s) - (i + 2) + 1 : node[k] = s[(i + 2) + k - 1]
    BY <2>1, Part
  <2> QED
    BY <2>1, <2>2
<1>4. /\ Separator \in Name /\ Len(Separator) = 2
      /\ Separator[1] = Colon /\ Separator[2] = Colon
  BY DEF Separator, Name, Octet, Colon
<1> HIDE DEF fragment, node
<1>5. /\ upto \in Name /\ Len(upto) = i + 1
      /\ \A k \in 1 .. i + 1 : upto[k] = s[k]
  <2>1. /\ upto \in Name /\ Len(upto) = Len(fragment) + Len(Separator)
        /\ \A k \in 1 .. Len(fragment) + Len(Separator) :
             upto[k] = IF k <= Len(fragment) THEN fragment[k]
                       ELSE Separator[k - Len(fragment)]
    BY ONLY <1>2, <1>4, ConcatProperties DEF Name
  <2>2. Len(fragment) + Len(Separator) = i + 1
    BY <1>1, <1>2, <1>4
  <2>3. ASSUME NEW k \in 1 .. i + 1 PROVE upto[k] = s[k]
    <3>1. CASE k <= i - 1
      BY <1>1, <1>2, <2>1, <2>2, <3>1
    <3>2. CASE k = i
      <4>1. ~(k <= i - 1) /\ k - (i - 1) = 1
        BY <1>1, <3>2
      <4> QED
        BY <1>1, <1>2, <1>4, <2>1, <2>2, <3>2, <4>1
    <3>3. CASE k = i + 1
      <4>1. ~(k <= i - 1) /\ k - (i - 1) = 2
        BY <1>1, <3>3
      <4>2. upto[k] = Separator[k - (i - 1)]
        BY <1>2, <2>1, <2>2, <4>1
      <4> QED
        BY <1>1, <1>4, <3>3, <4>1, <4>2
    <3>4. k <= i - 1 \/ k = i \/ k = i + 1
      BY <1>1
    <3> QED
      BY <3>1, <3>2, <3>3, <3>4
  <2> QED
    BY <2>1, <2>2, <2>3
<1> HIDE DEF upto
<1>6. upto \o node = s
  <2>1. /\ upto \o node \in Name /\ Len(upto \o node) = Len(upto) + Len(node)
        /\ \A k \in 1 .. Len(upto) + Len(node) :
             (upto \o node)[k] = IF k <= Len(upto) THEN upto[k]
                                 ELSE node[k - Len(upto)]
    BY ONLY <1>3, <1>5, ConcatProperties DEF Name
  <2>2. Len(upto) + Len(node) = Len(s)
    BY <1>1, <1>3, <1>5
  <2>3. ASSUME NEW k \in 1 .. Len(s) PROVE (upto \o node)[k] = s[k]
    <3>1. CASE k <= i + 1
      BY <1>1, <1>5, <2>1, <2>2, <3>1
    <3>2. CASE ~(k <= i + 1)
      <4>1. k - (i + 1) \in 1 .. Len(s) - i - 1 /\ i + 1 + (k - (i + 1)) = k
        BY <1>1, <3>2
      <4>2. (upto \o node)[k] = node[k - (i + 1)]
        BY <1>5, <2>1, <2>2, <3>2
      <4> QED
        BY <1>3, <4>1, <4>2
    <3> QED
      BY <3>1, <3>2
  <2> QED
    BY ONLY <2>1, <2>2, <2>3, SeqEqual, s \in Name DEF Name
<1> QED
  BY <1>2, <1>3, <1>6 DEF compose, fragment, node, upto

(* A separator whose first half stays free of separators, even with the    *)
(* colon that follows it, is the first one.                                *)
LEMMA SeparatorIsFirst ==
  ASSUME NEW s \in Name, NEW i \in SeparatorsOf(s),
         SeparatorsOf(Append(SubSeq(s, 1, i - 1), Colon)) = {}
  PROVE  First(SeparatorsOf(s)) = i
<1> DEFINE fragment == SubSeq(s, 1, i - 1)
           upto == Append(fragment, Colon)
<1>1. i \in 1 .. Len(s) - 1 /\ s[i] = Colon /\ Len(s) \in Nat
  BY SeparatorPlaces DEF Name
<1>2. /\ fragment \in Name /\ Len(fragment) = i - 1
      /\ \A k \in 1 .. i - 1 : fragment[k] = s[k]
  BY SplitRestores
<1> HIDE DEF fragment
<1>3. /\ upto \in Name /\ Len(upto) = Len(fragment) + 1
      /\ \A k \in 1 .. Len(fragment) : upto[k] = fragment[k]
      /\ upto[Len(fragment) + 1] = Colon
  <2>1. Colon \in Octet
    BY DEF Colon, Octet
  <2> QED
    BY ONLY <1>2, <2>1, AppendProperties DEF Name
<1>4. SeparatorsOf(upto) = {}
  BY DEF fragment
<1> HIDE DEF upto
<1>5. Len(upto) = i /\ \A k \in 1 .. i : upto[k] = s[k]
  <2>1. Len(fragment) + 1 = i
    BY <1>1, <1>2
  <2>2. \A k \in 1 .. i : k \in 1 .. i - 1 \/ k = i
    BY <1>1
  <2> QED
    BY <1>1, <1>2, <1>3, <2>1, <2>2
<1>6. ASSUME NEW j \in SeparatorsOf(s), j < i PROVE FALSE
  <2>1. j \in 1 .. Len(s) - 1 /\ s[j] = Colon /\ s[j + 1] = Colon
    BY SeparatorPlaces
  <2>2. j \in 1 .. i - 1 /\ j \in 1 .. i /\ j + 1 \in 1 .. i
    BY <1>1, <1>6, <2>1
  <2>3. j \in SeparatorsOf(upto)
    BY <1>3, <1>5, <2>1, <2>2, SeparatorPlaces
  <2> QED
    BY <1>4, <2>3
<1>7. \A j \in SeparatorsOf(s) : i <= j
  BY <1>1, <1>6, SeparatorPlaces
<1>8. SeparatorsOf(s) \in SUBSET Nat
  BY SeparatorPlaces
<1> QED
  BY ONLY <1>7, <1>8, FirstIs, i \in SeparatorsOf(s)

---------------------------------------------------------------------------
(* Every reachable state is a name.                                        *)
LEMMA Names == Spec => [](name \in Name)
<1>1. Init => name \in Name
  BY DEF Init, Name
<1>2. name \in Name /\ [Next]_name => (name \in Name)'
  <2> SUFFICES ASSUME name \in Name, [Next]_name PROVE name' \in Name
    OBVIOUS
  <2>1. ASSUME NEW c \in Byte, Extend(c) PROVE name' \in Name
    <3>1. c \in Octet
      BY ConstantsOK DEF ConstantsOK, Octet
    <3> QED
      BY <2>1, <3>1, AppendProperties DEF Extend, Name
  <2>2. CASE UNCHANGED name
    BY <2>2
  <2> QED
    BY <2>1, <2>2 DEF Next
<1> QED
  BY <1>1, <1>2, PTL DEF Spec

(* The byte scans of validate.h admit, as fragments, exactly the names of  *)
(* any length each chunk of which is an identifier, and the functions that *)
(* diagnose accept what the predicates accept.                             *)
THEOREM FragmentRule == Spec => []FragmentsArePaths
<1>1. name \in Name => FragmentsArePaths
  BY FragmentIsPath, FragmentDiagnosis, IdentifierDiagnosis DEF FragmentsArePaths
<1> QED
  BY <1>1, Names, PTL

(* What parse takes apart, compose puts together again; and it finds the   *)
(* halves of every id composed of a client without separator, and no other *)
(* (node_name.h).                                                          *)
THEOREM ComposeAndParse == Spec => []ParseUndoesCompose
<1>1. ASSUME name \in Name PROVE ParseUndoesCompose
  <2> DEFINE seps == SeparatorsOf(name)
             fragmentOf(i) == SubSeq(name, 1, i - 1)
             nodeOf(i) == SubSeq(name, i + 2, Len(name))
  <2>1. Len(Separator) = 2
    BY DEF Separator
  <2>2. \A i \in seps : /\ fragmentOf(i) \in Name /\ nodeOf(i) \in Name
                        /\ compose(fragmentOf(i), nodeOf(i)) = name
    BY <1>1, SplitRestores
  <2>3. \A i \in seps :
          Halves(name, i) =
            IF check_fragment(fragmentOf(i)) # "Ok"
              THEN Refusal(check_fragment(fragmentOf(i)))
            ELSE IF check_identifier(nodeOf(i)) # "Ok"
              THEN Refusal(check_identifier(nodeOf(i)))
            ELSE [ok |-> TRUE, error |-> "Ok",
                  fragment |-> fragmentOf(i), node |-> nodeOf(i)]
    BY <2>1 DEF Halves
  <2>4. \A e : ~Refusal(e).ok
    BY DEF Refusal
  <2>5. ASSUME parse(name).ok
        PROVE  compose(parse(name).fragment, parse(name).node) = name
    <3>1. seps # {}
      BY <2>4, <2>5 DEF parse
    <3>2. First(seps) \in seps
      BY <1>1, <3>1, SeparatorPlaces, FirstIsLeast
    <3>3. parse(name) = Halves(name, First(seps))
      BY <3>1 DEF parse
    <3>4. /\ parse(name).fragment = fragmentOf(First(seps))
          /\ parse(name).node = nodeOf(First(seps))
      BY <2>3, <2>4, <2>5, <3>2, <3>3
    <3> QED
      BY <2>2, <3>2, <3>4
  <2>6. ASSUME NEW i \in seps,
               valid_fragment(fragmentOf(i)), valid_identifier(nodeOf(i)),
               SeparatorsOf(Append(fragmentOf(i), Colon)) = {}
        PROVE  parse(name) = [ok |-> TRUE, error |-> "Ok",
                              fragment |-> fragmentOf(i), node |-> nodeOf(i)]
    <3>1. First(seps) = i
      BY <1>1, <2>6, SeparatorIsFirst
    <3>2. check_fragment(fragmentOf(i)) = "Ok" /\ check_identifier(nodeOf(i)) = "Ok"
      BY <2>2, <2>6, FragmentDiagnosis, IdentifierDiagnosis
    <3>3. parse(name) = Halves(name, i)
      BY <3>1, <2>6 DEF parse
    <3> QED
      BY <2>3, <3>2, <3>3
  <2> QED
    BY <2>5, <2>6 DEF ParseUndoesCompose
<1> QED
  BY <1>1, Names, PTL

===========================================================================
