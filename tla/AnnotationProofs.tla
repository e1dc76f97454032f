------------------------- MODULE AnnotationProofs -------------------------
(***************************************************************************)
(* Theorems about Annotation, for annotations of any length and any names  *)
(* of types.                                                               *)
(*                                                                         *)
(* The pieces of a text are found by counting its separators.  PiecesGrow  *)
(* does that once: a separator and a piece at the end of a text leave the  *)
(* pieces before them alone.                                               *)
(***************************************************************************)
EXTENDS Annotation, FiniteSetTheorems, SequenceTheorems, WellFoundedInduction, TLAPS

---------------------------------------------------------------------------
(* The least, the last and the k-th of some numbers.                       *)

\* The order of the naturals as a set of pairs, as WFMin wants it.
Below == {pair \in Nat \X Nat : pair[1] < pair[2]}

LEMMA Least ==
  ASSUME NEW S \in SUBSET Nat, S # {}
  PROVE  \E x \in S : \A y \in S : x <= y
<1>1. IsWellFoundedOn(Below, Nat)
  BY ONLY NatLessThanWellFounded DEF OpToRel, Below
<1>2. PICK x \in S : \A y \in S : <<y, x>> \notin Below
  BY <1>1, WFMin
<1>3. \A y \in S : ~(y < x)
  BY <1>2 DEF Below
<1> QED
  BY <1>3

LEMMA FirstIsLeast ==
  ASSUME NEW S \in SUBSET Nat, S # {}
  PROVE  First(S) \in S /\ \A y \in S : First(S) <= y
<1>1. \E x \in S : \A y \in S : x <= y
  BY Least
<1> QED
  BY <1>1 DEF First

LEMMA FirstIs ==
  ASSUME NEW S \in SUBSET Nat, NEW x \in S, \A y \in S : x <= y
  PROVE  First(S) = x
<1>1. First(S) \in S /\ First(S) <= x
  BY FirstIsLeast
<1>2. x <= First(S) /\ x \in Nat /\ First(S) \in Nat
  BY <1>1
<1> QED
  BY <1>1, <1>2

LEMMA LastIs ==
  ASSUME NEW S \in SUBSET Nat, NEW x \in S, \A y \in S : y <= x
  PROVE  Last(S) = x
<1>1. Last(S) \in S /\ x <= Last(S)
  BY DEF Last
<1>2. Last(S) <= x /\ x \in Nat /\ Last(S) \in Nat
  BY <1>1
<1> QED
  BY <1>1, <1>2

\* What of S comes up to i.
Upto(S, i) == {j \in S : j <= i}

LEMMA NthIsThe ==
  ASSUME NEW S, NEW k
  PROVE  Nth(S, k) = The({i \in S : Cardinality(Upto(S, i)) = k})
BY DEF Nth, Upto

(* There is a k-th: no least k lacks one, since what comes after the one   *)
(* before it has a first.                                                  *)
LEMMA NthExists ==
  ASSUME NEW S \in SUBSET Nat, IsFiniteSet(S), NEW k \in 1 .. Cardinality(S)
  PROVE  Nth(S, k) \in S /\ Cardinality(Upto(S, Nth(S, k))) = k
<1> DEFINE n == Cardinality(S)
           Has(m) == \E i \in S : Cardinality(Upto(S, i)) = m
           Lacking == {m \in 1 .. n : ~Has(m)}
<1>1. n \in Nat
  BY FS_CardinalityType
<1> HIDE DEF n
<1>2. \A m \in 1 .. n : Has(m)
  <2>1. SUFFICES ASSUME Lacking # {} PROVE FALSE
    OBVIOUS
  <2>2. Lacking \in SUBSET Nat
    OBVIOUS
  <2> HIDE DEF Lacking
  <2>3. PICK m \in Lacking : \A j \in Lacking : m <= j
    BY <2>1, <2>2, Least
  <2>4. m \in 1 .. n /\ ~Has(m)
    BY <2>3 DEF Lacking
  <2> HIDE DEF Has
  <2>5. PICK P \in SUBSET S : /\ Cardinality(P) = m - 1
                              /\ \A p \in P, j \in S \ P : p < j
    <3>1. CASE m = 1
      BY <3>1, FS_EmptySet
    <3>2. CASE m # 1
      <4>1. m - 1 \in 1 .. n /\ ~(m <= m - 1)
        BY <1>1, <2>4, <3>2
      <4>2. Has(m - 1)
        BY <2>3, <4>1 DEF Lacking
      <4>3. PICK i \in S : Cardinality(Upto(S, i)) = m - 1
        BY <4>2 DEF Has
      <4>4. Upto(S, i) \in SUBSET S /\ \A p \in Upto(S, i), j \in S \ Upto(S, i) : p < j
        BY DEF Upto
      <4> QED
        BY <4>3, <4>4
    <3> QED
      BY <3>1, <3>2
  <2>6. S \ P # {}
    <3>1. m - 1 # n
      BY <1>1, <2>4
    <3>2. P # S
      BY <2>5, <3>1 DEF n
    <3> QED
      BY <3>2
  <2>7. PICK x \in S \ P : \A j \in S \ P : x <= j
    <3>1. S \ P \in SUBSET Nat
      OBVIOUS
    <3> QED
      BY <2>6, <3>1, Least
  <2>8. Upto(S, x) = P \cup {x}
    <3>1. ASSUME NEW j \in S PROVE j <= x <=> j \in P \/ j = x
      <4>1. j \in P => j < x
        BY <2>5, <2>7
      <4>2. j \notin P => x <= j
        BY <2>7
      <4>3. j \in Nat /\ x \in Nat
        OBVIOUS
      <4> QED
        BY <4>1, <4>2, <4>3
    <3> QED
      BY <3>1, <2>5, <2>7 DEF Upto
  <2>9. Cardinality(Upto(S, x)) = m
    <3>1. IsFiniteSet(P)
      BY <2>5, FS_Subset
    <3>2. Cardinality(P \cup {x}) = Cardinality(P) + 1
      BY <2>7, <3>1, FS_AddElement
    <3> QED
      BY <1>1, <2>4, <2>5, <2>8, <3>2
  <2> QED
    BY <2>4, <2>7, <2>9 DEF Has
<1> DEFINE these == {i \in S : Cardinality(Upto(S, i)) = k}
<1>3. these # {} /\ Nth(S, k) = The(these)
  BY <1>2, NthIsThe DEF n
<1> HIDE DEF these
<1>4. Nth(S, k) \in these
  BY <1>3 DEF The
<1> QED
  BY <1>4 DEF these

(* The last is the greatest.                                               *)
LEMMA NthOfAll ==
  ASSUME NEW S \in SUBSET Nat, IsFiniteSet(S), NEW x \in S, \A y \in S : y <= x
  PROVE  Nth(S, Cardinality(S)) = x
<1> DEFINE n == Cardinality(S)
           i == Nth(S, n)
<1>1. n \in Nat /\ n # 0
  BY FS_CardinalityType, FS_EmptySet
<1>2. i \in S /\ Cardinality(Upto(S, i)) = n
  BY <1>1, NthExists
<1> HIDE DEF i
<1>3. Upto(S, i) \in SUBSET S
  BY DEF Upto
<1>4. Upto(S, i) = S
  BY <1>2, <1>3, FS_Subset
<1>5. x <= i /\ i <= x
  BY <1>2, <1>4 DEF Upto
<1>6. i = x
  BY <1>2, <1>5
<1> QED
  BY <1>6 DEF i

(* A greater number takes no one's place.                                  *)
LEMMA NthStays ==
  ASSUME NEW S \in SUBSET Nat, IsFiniteSet(S), NEW x \in Nat, \A y \in S : y < x,
         NEW k \in 1 .. Cardinality(S)
  PROVE  /\ Nth(S \cup {x}, k) = Nth(S, k)
         /\ IsFiniteSet(S \cup {x}) /\ Cardinality(S \cup {x}) = Cardinality(S) + 1
<1> DEFINE T == S \cup {x}
<1>1. x \notin S
  OBVIOUS
<1>2. IsFiniteSet(T) /\ Cardinality(T) = Cardinality(S) + 1
  BY <1>1, FS_AddElement
<1>3. Cardinality(S) \in Nat
  BY FS_CardinalityType
<1>4. ASSUME NEW i \in S PROVE Upto(T, i) = Upto(S, i)
  <2>1. ~(x <= i)
    OBVIOUS
  <2> QED
    BY <2>1 DEF Upto
<1>5. Upto(T, x) = T
  <2>1. \A j \in T : j <= x
    OBVIOUS
  <2> QED
    BY <2>1 DEF Upto
<1>6. Cardinality(Upto(T, x)) # k
  <2>1. Cardinality(Upto(T, x)) = Cardinality(T)
    BY <1>5
  <2> HIDE DEF T
  <2> QED
    BY <1>2, <1>3, <2>1
<1> HIDE DEF T
<1>7. {i \in T : Cardinality(Upto(T, i)) = k} = {i \in S : Cardinality(Upto(S, i)) = k}
  <2>1. \A i : i \in T <=> i \in S \/ i = x
    BY DEF T
  <2> QED
    BY <1>4, <1>6, <2>1
<1>8. Nth(T, k) = Nth(S, k)
  BY <1>7, NthIsThe
<1> QED
  BY <1>2, <1>8 DEF T

---------------------------------------------------------------------------
(* Pieces.                                                                 *)

\* Tokens.  That the literals are strings is not known to the provers.
Char == STRING \cup {kEncodingSeparator, Space, "=", ".", "0", "9", "tcn_schema", "quality"}
Text == Seq(Char)

Cuts(s, separator) == Places(s, separator) \cup {0, Len(s) + 1}

(* A part of a text: its length and its tokens.                            *)
LEMMA Part ==
  ASSUME NEW s \in Text, NEW m \in Int, NEW n \in Int, 1 <= m, n <= Len(s)
  PROVE  /\ SubSeq(s, m, n) \in Text
         /\ Len(SubSeq(s, m, n)) = IF m <= n THEN n - m + 1 ELSE 0
         /\ \A k \in 1 .. n - m + 1 : SubSeq(s, m, n)[k] = s[m + k - 1]
<1>1. \A i \in m .. n : s[i] \in Char
  <2>1. \A i \in m .. n : i \in 1 .. Len(s)
    BY DEF Text
  <2> QED
    BY <2>1 DEF Text
<1> QED
  BY ONLY <1>1, m \in Int, n \in Int, SubSeqProperties DEF Text

LEMMA Whole ==
  ASSUME NEW s \in Text PROVE SubSeq(s, 1, Len(s)) = s
<1> DEFINE all == SubSeq(s, 1, Len(s))
<1>1. Len(s) \in Nat
  BY DEF Text
<1>2. /\ all \in Text /\ Len(all) = IF 1 <= Len(s) THEN Len(s) - 1 + 1 ELSE 0
      /\ \A k \in 1 .. Len(s) - 1 + 1 : all[k] = s[1 + k - 1]
  BY <1>1, Part
<1> HIDE DEF all
<1>3. Len(all) = Len(s) /\ \A k \in 1 .. Len(s) : all[k] = s[k]
  BY <1>1, <1>2
<1>4. all = s
  BY <1>2, <1>3, SeqEqual DEF Text
<1> QED
  BY <1>4 DEF all

LEMMA CutsAre ==
  ASSUME NEW s \in Text, NEW separator
  PROVE  /\ Cuts(s, separator) \in SUBSET Nat /\ IsFiniteSet(Cuts(s, separator))
         /\ \A i \in Cuts(s, separator) : i \in 0 .. Len(s) + 1
         /\ 0 \in Cuts(s, separator) /\ Len(s) + 1 \in Cuts(s, separator)
         /\ Cardinality(Cuts(s, separator)) \in Nat
         /\ Cardinality(Cuts(s, separator)) >= 2
<1> DEFINE S == Cuts(s, separator)
<1>1. /\ S \in SUBSET Nat /\ \A i \in S : i \in 0 .. Len(s) + 1
      /\ 0 \in S /\ Len(s) + 1 \in S /\ Len(s) \in Nat /\ 0 # Len(s) + 1
  BY DEF Cuts, Places, Text
<1> HIDE DEF S
<1>2. IsFiniteSet(S)
  <2>1. \A i \in S : i <= Len(s) + 1
    BY <1>1
  <2> QED
    BY <1>1, <2>1, FS_BoundedSetOfNaturals
<1>3. Cardinality(S) \in Nat /\ Cardinality(S) >= 2
  <2>1. /\ IsFiniteSet({0}) /\ Cardinality({0}) = 1
        /\ Cardinality({0} \cup {Len(s) + 1}) = 2
    <3>1. IsFiniteSet({0}) /\ Cardinality({0}) = 1
      BY FS_Singleton
    <3>2. Len(s) + 1 \notin {0}
      BY <1>1
    <3>3. Cardinality({0} \cup {Len(s) + 1}) = Cardinality({0}) + 1
      BY <3>1, <3>2, FS_AddElement
    <3> QED
      BY <3>1, <3>3
  <2>2. {0} \cup {Len(s) + 1} \in SUBSET S
    BY <1>1
  <2>3. Cardinality({0} \cup {Len(s) + 1}) <= Cardinality(S)
    BY <1>2, <2>2, FS_Subset
  <2> QED
    BY <1>2, <2>1, <2>3, FS_CardinalityType
<1> QED
  BY <1>1, <1>2, <1>3 DEF S

\* What lies between two cuts.
Between(s, a, b) == SubSeq(s, a + 1, b - 1)

LEMMA PiecesAre ==
  ASSUME NEW s \in Text, NEW separator, NEW S, S = Cuts(s, separator)
  PROVE  /\ Len(Pieces(s, separator)) = Cardinality(S) - 1
         /\ Len(Pieces(s, separator)) \in Nat \ {0}
         /\ Pieces(s, separator) \in Seq(Text)
         /\ \A k \in 1 .. Cardinality(S) - 1 :
              Pieces(s, separator)[k] = Between(s, Nth(S, k), Nth(S, k + 1))
<1> DEFINE n == Cardinality(S) - 1
<1>1. /\ S \in SUBSET Nat /\ IsFiniteSet(S) /\ n \in Nat \ {0}
      /\ n + 1 = Cardinality(S)
      /\ \A i \in S : i \in 0 .. Len(s) + 1
  BY CutsAre
<1>2. Pieces(s, separator) = [k \in 1 .. n |-> Between(s, Nth(S, k), Nth(S, k + 1))]
  BY DEF Pieces, Cuts, Between
<1> HIDE DEF n
<1>3. ASSUME NEW k \in 1 .. n PROVE Between(s, Nth(S, k), Nth(S, k + 1)) \in Text
  <2>1. k \in 1 .. Cardinality(S) /\ k + 1 \in 1 .. Cardinality(S)
    BY <1>1
  <2>2. Nth(S, k) \in 0 .. Len(s) + 1 /\ Nth(S, k + 1) \in 0 .. Len(s) + 1
    BY <1>1, <2>1, NthExists
  <2>3. Len(s) \in Nat
    BY DEF Text
  <2> QED
    BY <2>2, <2>3, Part DEF Between
<1>4. Pieces(s, separator) \in Seq(Text) /\ Len(Pieces(s, separator)) = n
  BY <1>1, <1>2, <1>3
<1> QED
  BY <1>1, <1>2, <1>4 DEF n

(* Up to its end, what is appended to a text cannot be seen.               *)
LEMMA PartStays ==
  ASSUME NEW s \in Text, NEW r \in Text, NEW m \in Int, NEW n \in Int,
         1 <= m, n <= Len(s)
  PROVE  SubSeq(s \o r, m, n) = SubSeq(s, m, n)
<1>1. /\ s \o r \in Text /\ Len(s \o r) = Len(s) + Len(r) /\ Len(s) \in Nat /\ Len(r) \in Nat
      /\ \A i \in 1 .. Len(s) + Len(r) : (s \o r)[i] = IF i <= Len(s) THEN s[i] ELSE r[i - Len(s)]
  BY ConcatProperties DEF Text
<1> DEFINE t == s \o r
           old == SubSeq(s, m, n)
           new == SubSeq(t, m, n)
<1>2. \A i \in 1 .. Len(s) : t[i] = s[i]
  BY <1>1
<1>3. /\ old \in Text /\ Len(old) = IF m <= n THEN n - m + 1 ELSE 0
      /\ \A k \in 1 .. n - m + 1 : old[k] = s[m + k - 1]
  BY Part
<1>4. t \in Text /\ n <= Len(t)
  BY <1>1
<1> HIDE DEF t
<1>5. /\ new \in Text /\ Len(new) = IF m <= n THEN n - m + 1 ELSE 0
      /\ \A k \in 1 .. n - m + 1 : new[k] = t[m + k - 1]
  BY <1>4, Part
<1> HIDE DEF old, new
<1>6. ASSUME NEW k \in 1 .. Len(new) PROVE new[k] = old[k]
  <2>1. k \in 1 .. n - m + 1 /\ m + k - 1 \in 1 .. Len(s)
    BY <1>1, <1>5
  <2> QED
    BY <1>2, <1>3, <1>5, <2>1
<1>7. new = old
  BY <1>3, <1>5, <1>6, SeqEqual DEF Text
<1> QED
  BY <1>7 DEF new, old, t

\* What a text is that is another one, a separator and a piece.
Ends(t, s, c, p) ==
  /\ t \in Text /\ Len(t) = Len(s) + 1 + Len(p)
  /\ \A i \in 1 .. Len(s) : t[i] = s[i]
  /\ t[Len(s) + 1] = c
  /\ \A i \in 1 .. Len(p) : t[Len(s) + 1 + i] = p[i]
  /\ t = s \o (<<c>> \o p) /\ <<c>> \o p \in Text

LEMMA Ending ==
  ASSUME NEW s \in Text, NEW c \in Char, NEW p \in Text
  PROVE  Ends(s \o <<c>> \o p, s, c, p)
<1> DEFINE one == <<c>>
           head == s \o one
           t == s \o <<c>> \o p
<1>1. one \in Text /\ Len(one) = 1 /\ one[1] = c /\ Len(s) \in Nat /\ Len(p) \in Nat
  BY DEF Text
<1> HIDE DEF one
<1>2. /\ head \in Text /\ Len(head) = Len(s) + 1
      /\ \A i \in 1 .. Len(s) + 1 : head[i] = IF i <= Len(s) THEN s[i] ELSE one[i - Len(s)]
  <2>1. /\ head \in Text /\ Len(head) = Len(s) + Len(one)
        /\ \A i \in 1 .. Len(s) + Len(one) :
             head[i] = IF i <= Len(s) THEN s[i] ELSE one[i - Len(s)]
    BY ONLY <1>1, s \in Text, ConcatProperties DEF Text
  <2> HIDE DEF head
  <2> QED
    BY <1>1, <2>1
<1>3. t = head \o p
  BY DEF one
<1>4. t = s \o (one \o p) /\ one \o p \in Text
  <2>1. (s \o one) \o p = s \o (one \o p)
    BY ONLY <1>1, s \in Text, p \in Text, ConcatAssociative DEF Text
  <2>2. one \o p \in Text
    BY <1>1, ConcatProperties DEF Text
  <2> QED
    BY <1>3, <2>1, <2>2
<1> HIDE DEF head, t
<1>5. /\ t \in Text /\ Len(t) = Len(s) + 1 + Len(p)
      /\ \A i \in 1 .. Len(s) + 1 + Len(p) :
           t[i] = IF i <= Len(s) + 1 THEN head[i] ELSE p[i - (Len(s) + 1)]
  <2>1. /\ head \o p \in Text /\ Len(head \o p) = Len(head) + Len(p)
        /\ \A i \in 1 .. Len(head) + Len(p) :
             (head \o p)[i] = IF i <= Len(head) THEN head[i] ELSE p[i - Len(head)]
    <3>1. head \in Text /\ p \in Text
      BY <1>2
    <3> QED
      BY ONLY <3>1, ConcatProperties DEF Text
  <2> QED
    BY <1>2, <1>3, <2>1
<1>6. \A i \in 1 .. Len(s) : t[i] = s[i]
  <2>1. \A i \in 1 .. Len(s) : i \in 1 .. Len(s) + 1 + Len(p) /\ i <= Len(s) + 1
                               /\ i \in 1 .. Len(s) + 1
    BY <1>1
  <2> QED
    BY <1>2, <1>5, <2>1
<1>7. t[Len(s) + 1] = c
  <2>1. Len(s) + 1 \in 1 .. Len(s) + 1 /\ Len(s) + 1 \in 1 .. Len(s) + 1 + Len(p)
        /\ Len(s) + 1 - Len(s) = 1 /\ ~(Len(s) + 1 <= Len(s))
    BY <1>1
  <2> QED
    BY <1>1, <1>2, <1>5, <2>1
<1>8. \A i \in 1 .. Len(p) : t[Len(s) + 1 + i] = p[i]
  <2>1. ASSUME NEW i \in 1 .. Len(p) PROVE t[Len(s) + 1 + i] = p[i]
    <3>1. Len(s) + 1 + i \in 1 .. Len(s) + 1 + Len(p) /\ ~(Len(s) + 1 + i <= Len(s) + 1)
          /\ (Len(s) + 1 + i) - (Len(s) + 1) = i
      BY <1>1
    <3> QED
      BY <1>5, <3>1
  <2> QED
    BY <2>1
<1> QED
  BY <1>4, <1>5, <1>6, <1>7, <1>8 DEF one, t, Ends

(* A separator and a piece at the end add a piece, and change no other.    *)
Grown(t, s, c, p) ==
  /\ Len(Pieces(t, c)) = Len(Pieces(s, c)) + 1
  /\ Len(Pieces(s, c)) \in Nat \ {0}
  /\ \A k \in 1 .. Len(Pieces(s, c)) : Pieces(t, c)[k] = Pieces(s, c)[k]
  /\ Pieces(t, c)[Len(Pieces(s, c)) + 1] = p

LEMMA PiecesGrow ==
  ASSUME NEW s \in Text, NEW c \in Char, NEW p \in Text, Places(p, c) = {}
  PROVE  Grown(s \o <<c>> \o p, s, c, p)
<1> DEFINE t == s \o <<c>> \o p
<1>1. /\ t \in Text /\ Len(t) = Len(s) + 1 + Len(p)
      /\ \A i \in 1 .. Len(s) : t[i] = s[i]
      /\ t[Len(s) + 1] = c
      /\ \A i \in 1 .. Len(p) : t[Len(s) + 1 + i] = p[i]
      /\ t = s \o (<<c>> \o p) /\ <<c>> \o p \in Text
  <2>1. Ends(t, s, c, p)
    BY Ending
  <2> HIDE DEF t
  <2> QED
    BY <2>1 DEF Ends
<1> HIDE DEF t
<1>2. Len(s) \in Nat /\ Len(p) \in Nat /\ Len(t) \in Nat
  BY <1>1 DEF Text
<1> DEFINE S == Cuts(s, c)
           x == Len(t) + 1
           T == S \cup {x}
           n == Cardinality(S)
<1>3. Cuts(t, c) = T
  <2>1. ASSUME NEW i \in 1 .. Len(t)
        PROVE  t[i] = c <=> i = Len(s) + 1 \/ i \in Places(s, c)
    <3>1. CASE i \in 1 .. Len(s)
      <4>1. i # Len(s) + 1
        BY <1>2, <3>1
      <4> QED
        BY <1>1, <3>1, <4>1 DEF Places, Text
    <3>2. CASE i = Len(s) + 1
      BY <1>1, <3>2
    <3>3. CASE i > Len(s) + 1
      <4>1. PICK j \in 1 .. Len(p) : i = Len(s) + 1 + j
        <5>1. i - (Len(s) + 1) \in 1 .. Len(p) /\ i = Len(s) + 1 + (i - (Len(s) + 1))
          BY <1>1, <1>2, <3>3
        <5> QED
          BY <5>1
      <4>2. p[j] # c
        BY DEF Places, Text
      <4>3. i # Len(s) + 1 /\ i \notin Places(s, c)
        BY <1>2, <3>3 DEF Places, Text
      <4> QED
        BY <1>1, <4>1, <4>2, <4>3
    <3> QED
      BY <1>1, <1>2, <3>1, <3>2, <3>3
  <2>2. Places(s, c) \subseteq 1 .. Len(t) /\ Len(s) + 1 \in 1 .. Len(t)
    BY <1>1, <1>2 DEF Places, Text
  <2>3. Places(t, c) = Places(s, c) \cup {Len(s) + 1}
    <3>1. \A i : i \in Places(t, c) <=> i \in 1 .. Len(t) /\ t[i] = c
      BY <1>1 DEF Places, Text
    <3> QED
      BY <2>1, <2>2, <3>1
  <2> QED
    BY <2>3 DEF Cuts
<1>4. /\ S \in SUBSET Nat /\ IsFiniteSet(S) /\ n \in Nat /\ n >= 2
      /\ \A i \in S : i \in 0 .. Len(s) + 1
      /\ 0 \in S /\ Len(s) + 1 \in S
  BY CutsAre
<1> HIDE DEF S
<1>5. x \in Nat /\ \A y \in S : y < x
  BY <1>1, <1>2, <1>4
<1> HIDE DEF x, T, n
<1>6. /\ IsFiniteSet(T) /\ Cardinality(T) = n + 1 /\ T \in SUBSET Nat
      /\ x \in T /\ \A y \in T : y <= x
      /\ \A k \in 1 .. n : Nth(T, k) = Nth(S, k)
  <2>1. \A k \in 1 .. Cardinality(S) :
          /\ Nth(S \cup {x}, k) = Nth(S, k)
          /\ IsFiniteSet(S \cup {x}) /\ Cardinality(S \cup {x}) = Cardinality(S) + 1
    BY <1>4, <1>5, NthStays
  <2>2. n \in 1 .. Cardinality(S)
    BY <1>4 DEF n
  <2>3. T \in SUBSET Nat /\ x \in T /\ \A y \in T : y <= x
    BY <1>4, <1>5 DEF T
  <2> QED
    BY <2>1, <2>2, <2>3 DEF T, n
<1>7. /\ Len(Pieces(s, c)) = n - 1
      /\ \A k \in 1 .. n - 1 : Pieces(s, c)[k] = Between(s, Nth(S, k), Nth(S, k + 1))
  BY PiecesAre DEF S, n
<1>8. /\ Len(Pieces(t, c)) = n
      /\ \A k \in 1 .. n : Pieces(t, c)[k] = Between(t, Nth(T, k), Nth(T, k + 1))
  <2>1. /\ Len(Pieces(t, c)) = Cardinality(T) - 1
        /\ \A k \in 1 .. Cardinality(T) - 1 :
             Pieces(t, c)[k] = Between(t, Nth(T, k), Nth(T, k + 1))
    BY <1>1, <1>3, PiecesAre
  <2>2. Cardinality(T) - 1 = n
    BY <1>4, <1>6
  <2> QED
    BY <2>1, <2>2
<1>9. ASSUME NEW k \in 1 .. n - 1 PROVE Pieces(t, c)[k] = Pieces(s, c)[k]
  <2> DEFINE a == Nth(S, k)
             b == Nth(S, k + 1)
  <2>1. k \in 1 .. n /\ k + 1 \in 1 .. n
    BY <1>4
  <2>2. a \in 0 .. Len(s) + 1 /\ b \in 0 .. Len(s) + 1
    BY <1>4, <2>1, NthExists DEF n
  <2>3. Pieces(s, c)[k] = Between(s, a, b) /\ Pieces(t, c)[k] = Between(t, a, b)
    BY <1>6, <1>7, <1>8, <2>1
  <2> HIDE DEF a, b
  <2>4. SubSeq(t, a + 1, b - 1) = SubSeq(s, a + 1, b - 1)
    <3> DEFINE rest == <<c>> \o p
    <3>1. a + 1 \in Int /\ b - 1 \in Int /\ 1 <= a + 1 /\ b - 1 <= Len(s)
      BY <1>2, <2>2
    <3>2. t = s \o rest /\ rest \in Text
      BY <1>1
    <3> HIDE DEF rest
    <3>3. SubSeq(s \o rest, a + 1, b - 1) = SubSeq(s, a + 1, b - 1)
      BY ONLY s \in Text, <3>1, <3>2, PartStays
    <3> QED
      BY <3>2, <3>3
  <2> QED
    BY <2>3, <2>4 DEF Between
<1>10. Pieces(t, c)[n] = p
  <2>1. Nth(S, n) = Len(s) + 1
    <3>1. \A y \in S : y <= Len(s) + 1
      BY <1>2, <1>4
    <3> QED
      BY <1>4, <3>1, NthOfAll DEF n
  <2>2. Nth(T, n + 1) = x
    BY <1>6, NthOfAll
  <2>3. n \in 1 .. n
    BY <1>4
  <2>4. Pieces(t, c)[n] = Between(t, Len(s) + 1, x)
    BY <1>6, <1>8, <2>1, <2>2, <2>3
  <2> DEFINE m == Len(s) + 2
             last == SubSeq(t, m, Len(t))
  <2>5. Between(t, Len(s) + 1, x) = last
    <3>1. Len(s) + 1 + 1 = Len(s) + 2 /\ x - 1 = Len(t)
      BY <1>2 DEF x
    <3> QED
      BY <3>1 DEF Between
  <2>6. /\ last \in Text
        /\ Len(last) = IF m <= Len(t) THEN Len(t) - m + 1 ELSE 0
        /\ \A k \in 1 .. Len(t) - m + 1 : last[k] = t[m + k - 1]
    <3>1. t \in Text /\ m \in Int /\ Len(t) \in Int /\ 1 <= m /\ Len(t) <= Len(t)
      BY <1>1, <1>2
    <3> HIDE DEF m
    <3> QED
      BY ONLY <3>1, Part
  <2> HIDE DEF last
  <2>7. /\ Len(last) = Len(p) /\ Len(t) - m + 1 = Len(p)
        /\ \A k \in 1 .. Len(p) : m + k - 1 = Len(s) + 1 + k
    BY <1>1, <1>2, <2>6
  <2>8. \A k \in 1 .. Len(last) : last[k] = p[k]
    BY <1>1, <2>6, <2>7
  <2>9. last = p
    BY <2>6, <2>7, <2>8, SeqEqual DEF Text
  <2> QED
    BY <2>4, <2>5, <2>9
<1>11. n - 1 \in Nat \ {0} /\ (n - 1) + 1 = n
  BY <1>4
<1>12. Grown(t, s, c, p)
  BY <1>7, <1>8, <1>9, <1>10, <1>11 DEF Grown
<1> QED
  BY <1>12 DEF t

(* A text without separators is one piece.                                 *)
LEMMA PiecesAlone ==
  ASSUME NEW s \in Text, NEW c, Places(s, c) = {}
  PROVE  Len(Pieces(s, c)) = 1 /\ Pieces(s, c)[1] = s
<1> DEFINE S == Cuts(s, c)
           x == Len(s) + 1
<1>1. /\ S \in SUBSET Nat /\ IsFiniteSet(S) /\ \A y \in S : y = 0 \/ y = x
      /\ 0 \in S /\ x \in S /\ x \in Nat /\ x # 0 /\ Len(s) \in Nat
  <2>1. S = {0, x}
    BY DEF Cuts
  <2>2. Len(s) \in Nat
    BY DEF Text
  <2>3. IsFiniteSet(S)
    BY CutsAre
  <2> QED
    BY <2>1, <2>2, <2>3
<1>2. Cardinality(S) = 2
  <2>1. S = {0} \cup {x} /\ x \notin {0}
    BY <1>1
  <2>2. IsFiniteSet({0}) /\ Cardinality({0}) = 1
    BY FS_Singleton
  <2>3. Cardinality({0} \cup {x}) = Cardinality({0}) + 1
    BY <2>1, <2>2, FS_AddElement
  <2>4. Cardinality(S) = Cardinality({0} \cup {x})
    BY <2>1
  <2> QED
    BY ONLY <2>2, <2>3, <2>4
<1> HIDE DEF S, x
<1>3. Nth(S, 2) = x
  <2>1. \A y \in S : y <= x
    BY <1>1
  <2> QED
    BY <1>1, <1>2, <2>1, NthOfAll
<1>4. Nth(S, 1) = 0
  <2>1. 1 \in 1 .. Cardinality(S)
    BY <1>2
  <2>2. Nth(S, 1) \in S /\ Cardinality(Upto(S, Nth(S, 1))) = 1
    BY <1>1, <2>1, NthExists
  <2>3. Upto(S, x) = S
    <3>1. \A y \in S : y <= x
      BY <1>1
    <3> QED
      BY <3>1 DEF Upto
  <2>4. Nth(S, 1) # x
    BY <1>2, <2>2, <2>3
  <2> QED
    BY <1>1, <2>2, <2>4
<1>5. /\ Len(Pieces(s, c)) = 1
      /\ Pieces(s, c)[1] = Between(s, 0, x)
  <2>1. Cardinality(S) - 1 = 1 /\ 1 \in 1 .. Cardinality(S) - 1 /\ 1 + 1 = 2
    BY <1>2
  <2>2. /\ Len(Pieces(s, c)) = Cardinality(S) - 1
        /\ Pieces(s, c)[1] = Between(s, Nth(S, 1), Nth(S, 1 + 1))
    BY <2>1, PiecesAre DEF S
  <2> QED
    BY <1>3, <1>4, <2>1, <2>2
<1>6. Between(s, 0, x) = s
  <2>1. 0 + 1 = 1 /\ x - 1 = Len(s)
    BY <1>1 DEF x
  <2> QED
    BY <2>1, Whole DEF Between
<1> QED
  BY <1>5, <1>6

(* A text with a separator is more than one piece.                         *)
LEMMA PiecesMany ==
  ASSUME NEW s \in Text, NEW c, Places(s, c) # {}
  PROVE  Len(Pieces(s, c)) >= 2
<1> DEFINE S == Cuts(s, c)
           x == Len(s) + 1
<1>1. PICK i : i \in Places(s, c)
  OBVIOUS
<1>2. i \in 1 .. Len(s) /\ Len(s) \in Nat /\ i \in S
  BY <1>1 DEF Places, Text, Cuts
<1>3. /\ S \in SUBSET Nat /\ IsFiniteSet(S) /\ 0 \in S /\ x \in S
      /\ Cardinality(S) \in Nat
  BY CutsAre
<1> HIDE DEF S
<1>4. 0 # i /\ 0 # x /\ i # x
  BY <1>2
<1> HIDE DEF x
<1> DEFINE two == {0} \cup {i}
           three == two \cup {x}
<1>5. IsFiniteSet(two) /\ Cardinality(two) = 2
  <2>1. IsFiniteSet({0}) /\ Cardinality({0}) = 1
    BY FS_Singleton
  <2>2. i \notin {0}
    BY <1>4
  <2> QED
    BY <2>1, <2>2, FS_AddElement
<1>6. x \notin two
  BY <1>4
<1>7. three \in SUBSET S
  BY <1>2, <1>3
<1> HIDE DEF two
<1>8. Cardinality(three) = 3
  <2>1. Cardinality(two \cup {x}) = Cardinality(two) + 1
    BY <1>5, <1>6, FS_AddElement
  <2> QED
    BY <1>5, <2>1
<1> HIDE DEF three
<1>9. 3 <= Cardinality(S)
  BY <1>3, <1>7, <1>8, FS_Subset
<1>10. Len(Pieces(s, c)) = Cardinality(S) - 1
  BY PiecesAre DEF S
<1> QED
  BY <1>3, <1>9, <1>10

---------------------------------------------------------------------------
(* Types.                                                                  *)

LEMMA StringsAreText == Seq(STRING) \subseteq Text
<1>1. ASSUME NEW q \in Seq(STRING) PROVE q \in Seq(Char)
  <2>1. Len(q) \in Nat /\ DOMAIN q = 1 .. Len(q) /\ \A i \in 1 .. Len(q) : q[i] \in Char
    <3>1. Len(q) \in Nat /\ q \in [1 .. Len(q) -> STRING]
      BY LenProperties
    <3>2. STRING \subseteq Char
      BY DEF Char
    <3> QED
      BY <3>1, <3>2
  <2>2. q = [i \in 1 .. Len(q) |-> q[i]]
    OBVIOUS
  <2> QED
    BY <2>1, <2>2
<1> QED
  BY <1>1 DEF Text

LEMMA TextType == Spec => [](text \in Text)
<1> DEFINE Inv == family \in DOMAIN Family /\ text \in Text
<1>1. Seq(STRING) \subseteq Text
  BY StringsAreText
<1>2. Init => Inv
  BY <1>1, ConstantsOK DEF Init, ConstantsOK
<1>3. Inv /\ [Next]_<<family, text>> => Inv'
  <2> SUFFICES ASSUME Inv, [Next]_<<family, text>> PROVE Inv'
    OBVIOUS
  <2>1. ASSUME NEW x \in Family[family].lexeme, Extend(x) PROVE Inv'
    <3>1. x \in Text
      BY <1>1, ConstantsOK DEF ConstantsOK
    <3>2. text \o x \in Text
      BY <3>1, ConcatProperties DEF Text
    <3> QED
      BY <2>1, <3>2 DEF Extend
  <2>2. CASE UNCHANGED <<family, text>>
    BY <2>2
  <2> QED
    BY <2>1, <2>2 DEF Next
<1>4. Inv => text \in Text
  OBVIOUS
<1> QED
  BY <1>2, <1>3, <1>4, PTL DEF Spec

(* A payload is taken for one type at most, the one its annotation names   *)
(* between the first separator and the second (check_declared_type).       *)
THEOREM OneTypeAtMost == Spec => []NoPayloadOfAnotherType
<1>1. NoPayloadOfAnotherType
  <2> SUFFICES ASSUME NEW type \in Type, check_declared_type(text, type) = "Ok"
               PROVE  /\ Trim(Pieces(text, kEncodingSeparator)[2]) = type
                      /\ \A other \in Type \ {type} :
                           check_declared_type(text, other) = "WrongDeclaredType"
    BY DEF NoPayloadOfAnotherType
  <2> DEFINE parsed == parse_encoding(text)
  <2>1. /\ MediaKnown(parsed.media)
        /\ parsed.type # <<>> /\ parsed.type = type
    BY DEF check_declared_type
  <2>2. parsed.type = IF Len(Pieces(text, kEncodingSeparator)) = 1 THEN <<>>
                                                    ELSE Trim(Pieces(text, kEncodingSeparator)[2])
    BY DEF parse_encoding
  <2>3. Trim(Pieces(text, kEncodingSeparator)[2]) = type
    BY <2>1, <2>2
  <2>4. \A other \in Type \ {type} : check_declared_type(text, other) = "WrongDeclaredType"
    BY <2>1 DEF check_declared_type
  <2> QED
    BY <2>3, <2>4
<1> QED
  BY <1>1, PTL

---------------------------------------------------------------------------
(* Parameters.                                                             *)

\* The places of the tcn_schema parameters, and what is read of the pieces.
Declared(pieces) ==
  {k \in 3 .. Len(pieces) : Places(pieces[k], "=") # {} /\ Key(pieces[k]) = SchemaParam}

Parsed(pieces) ==
  [media |-> pieces[1],
   type |-> IF Len(pieces) = 1 THEN <<>> ELSE Trim(pieces[2]),
   versioned |-> Declared(pieces) # {},
   version |-> IF Declared(pieces) = {} THEN <<>>
               ELSE Value(Chosen(pieces, Declared(pieces)))]

LEMMA ParsingIsOfPieces ==
  ASSUME NEW s PROVE parse_encoding(s) = Parsed(Pieces(s, kEncodingSeparator))
BY DEF parse_encoding, Parsed, Declared

(* One more piece is read for nothing, unless it is the first tcn_schema.  *)
LEMMA OneMorePiece ==
  ASSUME NEW P, NEW Q, NEW n \in Nat, n >= 2, Len(P) = n, Len(Q) = n + 1,
         \A k \in 1 .. n : Q[k] = P[k],
         \/ Declared(P) # {}
         \/ Places(Q[n + 1], "=") = {}
         \/ Key(Q[n + 1]) # SchemaParam
  PROVE  Parsed(Q) = Parsed(P)
<1>1. P[1] = Q[1] /\ P[2] = Q[2] /\ Len(P) # 1 /\ Len(Q) # 1
  OBVIOUS
<1>2. \A k \in 3 .. n : k \in Declared(Q) <=> k \in Declared(P)
  <2>1. \A k \in 3 .. n : k \in 3 .. n + 1 /\ Q[k] = P[k]
    OBVIOUS
  <2> QED
    BY <2>1 DEF Declared
<1>3. /\ Declared(P) \subseteq 3 .. n /\ Declared(Q) \subseteq 3 .. n + 1
      /\ Declared(P) \subseteq Declared(Q)
  BY <1>2 DEF Declared
<1>4. \A k \in Declared(Q) : k \in Declared(P) \/ k = n + 1
  BY <1>2, <1>3
<1>5. Declared(P) = {} => Declared(Q) = {}
  <2>1. Declared(P) = {} => n + 1 \notin Declared(Q)
    BY DEF Declared
  <2> QED
    BY <1>4, <2>1
<1>6. Declared(P) # {} => Chosen(Q, Declared(Q)) = Chosen(P, Declared(P))
  <2> SUFFICES ASSUME Declared(P) # {}
               PROVE  Chosen(Q, Declared(Q)) = Chosen(P, Declared(P))
    OBVIOUS
  <2> DEFINE D == Declared(P)
             E == Declared(Q)
             i == First(D)
  <2>1. D \in SUBSET Nat /\ E \in SUBSET Nat /\ D # {}
    BY <1>3
  <2>2. /\ D \subseteq 3 .. n /\ D \subseteq E
        /\ \A k \in E : k \in D \/ k = n + 1
    BY <1>3, <1>4
  <2> HIDE DEF D, E
  <2>3. i \in D /\ \A k \in D : i <= k
    BY <2>1, FirstIsLeast
  <2> HIDE DEF i
  <2>4. i \in E /\ \A k \in E : i <= k
    BY <2>2, <2>3
  <2>5. First(E) = i
    BY <2>1, <2>4, FirstIs
  <2>6. Q[i] = P[i]
    BY <2>2, <2>3
  <2> QED
    BY <2>5, <2>6 DEF Chosen, i, D, E
<1>7. Declared(P) # {} <=> Declared(Q) # {}
  BY <1>3, <1>5
<1> QED
  BY <1>1, <1>6, <1>7 DEF Parsed

LEMMA VersionedIf ==
  ASSUME NEW P PROVE Parsed(P).versioned <=> Declared(P) # {}
BY Zenon DEF Parsed

LEMMA ParameterAppended ==
  ASSUME NEW s \in Text, Places(s, kEncodingSeparator) # {}, NEW p \in Text, Places(p, kEncodingSeparator) = {},
         \/ parse_encoding(s).versioned
         \/ Places(p, "=") = {}
         \/ Key(p) # SchemaParam,
         NEW type
  PROVE  check_declared_type(s \o <<kEncodingSeparator>> \o p, type) = check_declared_type(s, type)
<1> DEFINE t == s \o <<kEncodingSeparator>> \o p
           P == Pieces(s, kEncodingSeparator)
           Q == Pieces(t, kEncodingSeparator)
           n == Len(P)
<1>1. /\ Len(Q) = n + 1 /\ n \in Nat \ {0}
      /\ \A k \in 1 .. n : Q[k] = P[k]
      /\ Q[n + 1] = p
  <2>1. kEncodingSeparator \in Char
    BY DEF Char
  <2>2. Grown(t, s, kEncodingSeparator, p)
    BY <2>1, PiecesGrow
  <2> HIDE DEF t
  <2> QED
    BY <2>2 DEF Grown
<1>2. n >= 2
  BY PiecesMany
<1>3. parse_encoding(s) = Parsed(P) /\ parse_encoding(t) = Parsed(Q)
  BY ParsingIsOfPieces
<1>4. parse_encoding(s).versioned => Declared(P) # {}
  BY <1>3, VersionedIf
<1> HIDE DEF t, P, Q
<1>5. Parsed(Q) = Parsed(P)
  BY <1>1, <1>2, <1>4, OneMorePiece
<1>6. check_declared_type(t, type) = check_declared_type(s, type)
  BY <1>3, <1>5 DEF check_declared_type
<1> QED
  BY <1>6 DEF t

\* The tokens the code writes are neither separators nor blank.
LEMMA Literals ==
  /\ {"=", ".", "0", "9", "tcn_schema", "quality"} \subseteq Char \ {kEncodingSeparator, Space}
  /\ kEncodingSeparator \in Char /\ Space \in Char
<1>1. /\ kEncodingSeparator \notin {"=", ".", "0", "9", "tcn_schema", "quality"}
      /\ Space \notin {"=", ".", "0", "9", "tcn_schema", "quality"}
  BY Zenon DEF kEncodingSeparator, Space
<1> QED
  BY <1>1 DEF Char

LEMMA NoneInConcat ==
  ASSUME NEW s \in Text, NEW t \in Text, NEW c, Places(s, c) = {}, Places(t, c) = {}
  PROVE  s \o t \in Text /\ Places(s \o t, c) = {}
<1> DEFINE u == s \o t
<1>1. /\ u \in Text /\ Len(u) = Len(s) + Len(t) /\ Len(s) \in Nat /\ Len(t) \in Nat
      /\ \A i \in 1 .. Len(s) + Len(t) : u[i] = IF i <= Len(s) THEN s[i] ELSE t[i - Len(s)]
  BY ConcatProperties DEF Text
<1> HIDE DEF u
<1>2. (\A i \in 1 .. Len(s) : s[i] # c) /\ (\A i \in 1 .. Len(t) : t[i] # c)
  BY DEF Places, Text
<1>3. ASSUME NEW i \in 1 .. Len(u) PROVE u[i] # c
  <2>1. CASE i <= Len(s)
    <3>1. i \in 1 .. Len(s) /\ u[i] = s[i]
      BY <1>1, <2>1
    <3> QED
      BY <1>2, <3>1
  <2>2. CASE ~(i <= Len(s))
    <3>1. i - Len(s) \in 1 .. Len(t) /\ u[i] = t[i - Len(s)]
      BY <1>1, <2>2
    <3> QED
      BY <1>2, <3>1
  <2> QED
    BY <2>1, <2>2
<1>4. Places(u, c) = {}
  BY <1>1, <1>3 DEF Places, Text
<1> QED
  BY <1>1, <1>4 DEF u

LEMMA Few ==
  ASSUME NEW a \in Char, NEW b \in Char, NEW d \in Char, NEW c, c \notin {a, b, d}
  PROVE  /\ <<a>> \in Text /\ Places(<<a>>, c) = {}
         /\ <<a, b>> \in Text /\ Places(<<a, b>>, c) = {}
         /\ <<a, b, d>> \in Text /\ Places(<<a, b, d>>, c) = {}
<1>1. <<a>> \in Text /\ Places(<<a>>, c) = {}
  BY DEF Text, Places
<1>2. <<a, b>> \in Text /\ Places(<<a, b>>, c) = {}
  BY DEF Text, Places
<1>3. <<a, b, d>> \in Text /\ Places(<<a, b, d>>, c) = {}
  BY DEF Text, Places
<1> QED
  BY <1>1, <1>2, <1>3

(* The parameters a later release, or a relay, may append.                 *)
LEMMA Parameters ==
  ASSUME NEW p, p \in {<<"quality">>, <<"quality", "=", "9">>,
                       SchemaParam \o <<"=", "9">>, SchemaParam \o <<"=">> \o Wanted}
  PROVE  p \in Text /\ Places(p, kEncodingSeparator) = {}
<1> DEFINE Plain(q) == q \in Text /\ Places(q, kEncodingSeparator) = {}
<1>1. \A a, b, d \in {"=", ".", "0", "9", "tcn_schema", "quality"} :
        Plain(<<a>>) /\ Plain(<<a, b>>) /\ Plain(<<a, b, d>>)
  <2> DEFINE words == {"=", ".", "0", "9", "tcn_schema", "quality"}
  <2>1. words \subseteq Char \ {kEncodingSeparator, Space}
    BY Literals
  <2> HIDE DEF words
  <2>2. ASSUME NEW a \in words, NEW b \in words, NEW d \in words
        PROVE  Plain(<<a>>) /\ Plain(<<a, b>>) /\ Plain(<<a, b, d>>)
    <3>1. /\ a \in Char /\ b \in Char /\ d \in Char
          /\ kEncodingSeparator \notin {a, b, d}
      BY <2>1
    <3> QED
      BY ONLY <3>1, Few
  <2> QED
    BY <2>2 DEF words
<1>2. Plain(<<"quality">>) /\ Plain(<<"quality", "=", "9">>)
  BY <1>1
<1>3. Plain(SchemaParam) /\ Plain(<<"=", "9">>) /\ Plain(<<"=">>) /\ Plain(Wanted)
  BY <1>1 DEF SchemaParam, Wanted
<1>4. Plain(SchemaParam \o <<"=", "9">>) /\ Plain(SchemaParam \o <<"=">>)
  BY <1>3, NoneInConcat
<1>5. Plain(SchemaParam \o <<"=">> \o Wanted)
  BY <1>3, <1>4, NoneInConcat
<1> QED
  BY <1>2, <1>4, <1>5

(* A piece that neither starts nor ends in a space is as it is.            *)
LEMMA TrimKeeps ==
  ASSUME NEW s \in Text, s # <<>>, s[1] # Space, s[Len(s)] # Space
  PROVE  Trim(s) = s
<1> DEFINE inked == {i \in DOMAIN s : s[i] # Space}
<1>1. Len(s) \in Nat \ {0} /\ DOMAIN s = 1 .. Len(s)
  BY DEF Text
<1>2. inked \in SUBSET Nat /\ 1 \in inked /\ Len(s) \in inked
      /\ \A i \in inked : 1 <= i /\ i <= Len(s)
  BY <1>1
<1>3. Trim(s) = SubSeq(s, First(inked), Last(inked))
  BY <1>2 DEF Trim
<1> HIDE DEF inked
<1>4. First(inked) = 1 /\ Last(inked) = Len(s)
  BY <1>2, FirstIs, LastIs
<1> QED
  BY <1>3, <1>4, Whole

LEMMA KeyIs ==
  ASSUME NEW k \in Char \ {"=", Space}, NEW p \in Text, Len(p) >= 2, p[1] = k, p[2] = "="
  PROVE  Places(p, "=") # {} /\ First(Places(p, "=")) = 2 /\ Key(p) = <<k>>
<1>1. /\ Places(p, "=") \in SUBSET Nat /\ 2 \in Places(p, "=")
      /\ \A i \in Places(p, "=") : 2 <= i
  BY DEF Places, Text
<1>2. First(Places(p, "=")) = 2
  BY <1>1, FirstIs
<1>3. SubSeq(p, 1, 1) = <<k>> /\ <<k>> \in Text
  <2> DEFINE q == SubSeq(p, 1, 1)
             r == <<k>>
  <2>1. Len(p) \in Nat
    BY DEF Text
  <2>2. q \in Text /\ Len(q) = 1 /\ q[1] = p[1]
    BY <2>1, Part
  <2>3. r \in Text /\ Len(r) = 1 /\ r[1] = k
    BY DEF Text
  <2> HIDE DEF q, r
  <2>4. q = r
    <3>1. \A i \in 1 .. 1 : q[i] = r[i]
      BY <2>2, <2>3
    <3> QED
      BY <2>2, <2>3, <3>1, SeqEqual DEF Text
  <2> QED
    BY <2>3, <2>4 DEF q, r
<1>4. Trim(<<k>>) = <<k>>
  BY <1>3, TrimKeeps
<1>5. First(Places(p, "=")) - 1 = 1
  BY <1>2
<1>6. Key(p) = <<k>>
  BY <1>3, <1>4, <1>5 DEF Key
<1> QED
  BY <1>1, <1>2, <1>6

(* Parameters of later releases change no verdict, and neither does a      *)
(* second tcn_schema (parse_encoding).                                     *)
THEOREM LaterParameters == Spec => []LaterParametersAreIgnored
<1>1. text \in Text => LaterParametersAreIgnored
  <2> SUFFICES ASSUME text \in Text, Places(text, kEncodingSeparator) # {}, NEW type \in Type
               PROVE  LET verdict == check_declared_type(text, type)
                          With(param) == check_declared_type(text \o <<kEncodingSeparator>> \o param, type)
                      IN  /\ With(<<"quality">>) = verdict
                          /\ With(<<"quality", "=", "9">>) = verdict
                          /\ parse_encoding(text).versioned =>
                               /\ With(SchemaParam \o <<"=", "9">>) = verdict
                               /\ With(SchemaParam \o <<"=">> \o Wanted) = verdict
    BY DEF LaterParametersAreIgnored
  <2> DEFINE bare == <<"quality">>
             valued == <<"quality", "=", "9">>
             other == SchemaParam \o <<"=", "9">>
             same == SchemaParam \o <<"=">> \o Wanted
             With(param) == check_declared_type(text \o <<kEncodingSeparator>> \o param, type)
  <2>1. \A p \in {bare, valued, other, same} : p \in Text /\ Places(p, kEncodingSeparator) = {}
    BY Parameters
  <2>2. Places(bare, "=") = {}
    BY DEF Places
  <2>3. Key(valued) # SchemaParam
    <3>1. "quality" \in Char \ {"=", Space} /\ valued[1] = "quality" /\ valued[2] = "="
          /\ Len(valued) >= 2
      BY Literals
    <3>2. Key(valued) = <<"quality">>
      BY <2>1, <3>1, KeyIs
    <3> QED
      BY <3>2 DEF SchemaParam
  <2> HIDE DEF bare, valued, other, same
  <2>4. With(bare) = check_declared_type(text, type)
    BY <2>1, <2>2, ParameterAppended
  <2>5. With(valued) = check_declared_type(text, type)
    BY <2>1, <2>3, ParameterAppended
  <2>6. ASSUME parse_encoding(text).versioned
        PROVE  /\ With(other) = check_declared_type(text, type)
               /\ With(same) = check_declared_type(text, type)
    BY <2>1, <2>6, ParameterAppended
  <2> QED
    BY <2>4, <2>5, <2>6 DEF bare, valued, other, same
<1> QED
  BY <1>1, TextType, PTL

---------------------------------------------------------------------------
(* Versions.                                                               *)

\* The loop at the start of a part is at its first place without a digit
\* when the digits end.
LEMMA DigitsEndAt ==
  ASSUME NEW v \in Text, NEW i \in 1 .. Len(v) + 1
  PROVE  /\ DigitsEnd(v, i) \in i .. Len(v) + 1
         /\ \A j \in i .. DigitsEnd(v, i) - 1 : v[j] \in Digit
         /\ DigitsEnd(v, i) <= Len(v) => v[DigitsEnd(v, i)] \notin Digit
<1> DEFINE ends == {j \in i .. Len(v) + 1 : j > Len(v) \/ v[j] \notin Digit}
           e == First(ends)
<1>1. DigitsEnd(v, i) = e /\ Len(v) \in Nat
  BY DEF DigitsEnd, Text
<1>2. ends \in SUBSET Nat /\ Len(v) + 1 \in ends
  BY <1>1
<1>3. \A j : j \in ends <=> j \in i .. Len(v) + 1 /\ (j > Len(v) \/ v[j] \notin Digit)
  OBVIOUS
<1> HIDE DEF ends
<1>4. e \in ends /\ \A j \in ends : e <= j
  BY <1>2, FirstIsLeast
<1> HIDE DEF e
<1>5. ASSUME NEW j \in i .. e - 1 PROVE v[j] \in Digit
  <2>1. j \in i .. Len(v) + 1 /\ ~(e <= j)
    BY <1>1, <1>3, <1>4
  <2> QED
    BY <1>3, <1>4, <2>1
<1>6. e \in i .. Len(v) + 1 /\ (e <= Len(v) => v[e] \notin Digit)
  BY <1>1, <1>3, <1>4
<1> QED
  BY <1>1, <1>5, <1>6

LEMMA DigitsEndIs ==
  ASSUME NEW v \in Text, NEW i \in 1 .. Len(v) + 1, NEW e \in i .. Len(v) + 1,
         \A j \in i .. e - 1 : v[j] \in Digit,
         e <= Len(v) => v[e] \notin Digit
  PROVE  DigitsEnd(v, i) = e
<1> DEFINE d == DigitsEnd(v, i)
<1>1. /\ d \in i .. Len(v) + 1
      /\ \A j \in i .. d - 1 : v[j] \in Digit
      /\ d <= Len(v) => v[d] \notin Digit
  BY DigitsEndAt
<1> HIDE DEF d
<1>2. Len(v) \in Nat /\ i \in Int /\ e \in Int /\ d \in Int
  BY <1>1 DEF Text
<1>3. ~(d < e)
  <2>1. d < e => d \in i .. e - 1 /\ d <= Len(v)
    BY <1>1, <1>2
  <2> QED
    BY <1>1, <2>1
<1>4. ~(e < d)
  <2>1. e < d => e \in i .. d - 1 /\ e <= Len(v)
    BY <1>1, <1>2
  <2> QED
    BY <1>1, <2>1
<1> QED
  BY <1>2, <1>3, <1>4 DEF d

\* The loop, unwound: in its third part, in its second, in its first.
InThird(v, i, minor) ==
  /\ DigitsEnd(v, i) # i /\ DigitsEnd(v, i) > Len(v)
  /\ SubSeq(v, 1, minor - 1) = Wanted

InSecond(v, i) ==
  /\ DigitsEnd(v, i) # i
  /\ IF DigitsEnd(v, i) > Len(v) THEN SubSeq(v, 1, DigitsEnd(v, i) - 1) = Wanted
     ELSE /\ v[DigitsEnd(v, i)] = "."
          /\ InThird(v, DigitsEnd(v, i) + 1, DigitsEnd(v, i))

InFirst(v, i) ==
  /\ DigitsEnd(v, i) # i /\ ~(DigitsEnd(v, i) > Len(v))
  /\ v[DigitsEnd(v, i)] = "."
  /\ InSecond(v, DigitsEnd(v, i) + 1)

LEMMA LoopUnwinds ==
  ASSUME NEW v \in Text
  PROVE  schema_version_matches(v) <=> InFirst(v, 1)
<1> DEFINE Loop == (1 .. Len(v) + 1) \X (0 .. 2) \X (0 .. Len(v) + 1)
           End(at) == DigitsEnd(v, at[1])
           Minor(at) == IF at[2] = 1 THEN End(at) ELSE at[3]
           Next3(at) == <<End(at) + 1, at[2] + 1, Minor(at)>>
           Goes(at) == End(at) # at[1] /\ ~(End(at) > Len(v)) /\ v[End(at)] = "." /\ at[2] < 2
           Stops(at) == End(at) # at[1] /\ End(at) > Len(v) /\ at[2] >= 1
                        /\ SubSeq(v, 1, Minor(at) - 1) = Wanted
           Rule(f) == f = [at \in Loop |->
             /\ End(at) # at[1]
             /\ IF End(at) > Len(v)
                THEN at[2] >= 1 /\ SubSeq(v, 1, Minor(at) - 1) = Wanted
                ELSE v[End(at)] = "." /\ at[2] < 2 /\ f[Next3(at)]]
           loop == CHOOSE f : Rule(f)
           Is(at) == IF at[2] = 0 THEN InFirst(v, at[1])
                     ELSE IF at[2] = 1 THEN InSecond(v, at[1]) ELSE InThird(v, at[1], at[3])
           g == [at \in Loop |-> Is(at)]
<1>1. schema_version_matches(v) = loop[<<1, 0, 0>>]
  BY DEF schema_version_matches
<1>2. ASSUME NEW at \in Loop PROVE Goes(at) => Next3(at) \in Loop
  <2>1. at[1] \in 1 .. Len(v) + 1 /\ at[2] \in 0 .. 2 /\ at[3] \in 0 .. Len(v) + 1
        /\ Len(v) \in Nat
    BY DEF Text
  <2>2. End(at) \in at[1] .. Len(v) + 1
    BY <2>1, DigitsEndAt
  <2> HIDE DEF End
  <2>3. SUFFICES ASSUME Goes(at) PROVE Next3(at) \in Loop
    OBVIOUS
  <2>4. /\ End(at) + 1 \in 1 .. Len(v) + 1 /\ at[2] + 1 \in 0 .. 2
        /\ Minor(at) \in 0 .. Len(v) + 1
    BY <2>1, <2>2, <2>3
  <2> QED
    BY <2>4
<1>3. ASSUME NEW at \in Loop
      PROVE  Is(at) <=> Stops(at) \/ (Goes(at) /\ Is(Next3(at)))
  <2>1. at[1] \in 1 .. Len(v) + 1 /\ at[2] \in 0 .. 2 /\ at[3] \in 0 .. Len(v) + 1
        /\ Len(v) \in Nat
    BY DEF Text
  <2>2. Next3(at)[1] = End(at) + 1 /\ Next3(at)[2] = at[2] + 1 /\ Next3(at)[3] = Minor(at)
    OBVIOUS
  <2> HIDE DEF Next3
  <2>3. CASE at[2] = 0
    BY <2>1, <2>2, <2>3 DEF InFirst
  <2>4. CASE at[2] = 1
    BY <2>1, <2>2, <2>4 DEF InSecond
  <2>5. CASE at[2] = 2
    BY <2>1, <2>2, <2>5 DEF InThird
  <2> QED
    BY <2>1, <2>3, <2>4, <2>5
<1>4. Rule(g)
  <2> DEFINE Body(at) ==
        /\ End(at) # at[1]
        /\ IF End(at) > Len(v)
           THEN at[2] >= 1 /\ SubSeq(v, 1, Minor(at) - 1) = Wanted
           ELSE v[End(at)] = "." /\ at[2] < 2 /\ g[Next3(at)]
  <2>1. ASSUME NEW at \in Loop PROVE Is(at) <=> Body(at)
    <3>1. Goes(at) => (g[Next3(at)] <=> Is(Next3(at)))
      BY <1>2
    <3> QED
      BY <1>3, <3>1
  <2>2. ASSUME NEW at \in Loop PROVE Is(at) = Body(at)
    <3>1. (Is(at) <=> Body(at)) => Is(at) = Body(at)
      <4> HIDE DEF End, Minor, Next3, g
      <4> QED
        BY DEF InFirst, InSecond, InThird
    <3> QED
      BY <2>1, <3>1
  <2> HIDE DEF Body, Is
  <2>3. g = [at \in Loop |-> Body(at)]
    BY <2>2
  <2> QED
    BY <2>3 DEF Body
<1>5. Rule(loop)
  <2> HIDE DEF Rule, g
  <2> QED
    BY <1>4
<1> HIDE DEF loop
<1>6. ASSUME NEW at \in Loop
      PROVE  loop[at] <=> Stops(at) \/ (Goes(at) /\ loop[Next3(at)])
  BY <1>5
<1> DEFINE Known(k) == \A at \in Loop : at[2] = k => (loop[at] <=> Is(at))
<1>7. \A at \in Loop : at[2] \in 0 .. 2 /\ Next3(at)[2] = at[2] + 1
  OBVIOUS
<1> HIDE DEF Loop, Is, Next3
<1>8. Known(2)
  BY <1>3, <1>6
<1>9. ASSUME NEW k \in 0 .. 1, Known(k + 1) PROVE Known(k)
  <2>1. ASSUME NEW at \in Loop, at[2] = k PROVE loop[at] <=> Is(at)
    <3>1. Goes(at) => (loop[Next3(at)] <=> Is(Next3(at)))
      BY <1>2, <1>7, <1>9, <2>1
    <3> QED
      BY <1>3, <1>6, <3>1
  <2> QED
    BY <2>1
<1>10. Known(0)
  <2>1. 0 \in 0 .. 1 /\ 1 \in 0 .. 1 /\ 0 + 1 = 1 /\ 1 + 1 = 2
    OBVIOUS
  <2> HIDE DEF Known
  <2>2. Known(1)
    BY <1>8, <1>9, <2>1
  <2> QED
    BY <1>9, <2>1, <2>2
<1>11. loop[<<1, 0, 0>>] <=> Is(<<1, 0, 0>>)
  <2>1. <<1, 0, 0>> \in Loop /\ <<1, 0, 0>>[2] = 0
    BY DEF Loop, Text
  <2> QED
    BY <1>10, <2>1
<1>12. Is(<<1, 0, 0>>) <=> InFirst(v, 1)
  BY DEF Is
<1> QED
  BY <1>1, <1>11, <1>12

\* A part of a version, and what a version is that matches.
Numeral(c) == c \in Text /\ c # <<>> /\ \A i \in 1 .. Len(c) : c[i] \in Digit

IsRelease(v) == v = Wanted \/ \E c \in Text : Numeral(c) /\ v = Wanted \o <<".">> \o c

LEMMA WantedIs ==
  /\ Wanted \in Text /\ Len(Wanted) = 3
  /\ Wanted[1] = "0" /\ Wanted[2] = "." /\ Wanted[3] = "9"
BY Literals DEF Wanted, Text

(* A text is what stands before a place, what stands there, and the rest.  *)
LEMMA Cutting ==
  ASSUME NEW v \in Text, NEW i \in 1 .. Len(v)
  PROVE  /\ v = SubSeq(v, 1, i - 1) \o <<v[i]>> \o SubSeq(v, i + 1, Len(v))
         /\ SubSeq(v, 1, i - 1) \in Text
         /\ SubSeq(v, i + 1, Len(v)) \in Text
         /\ Len(SubSeq(v, i + 1, Len(v))) = Len(v) - i
         /\ \A k \in 1 .. Len(v) - i : SubSeq(v, i + 1, Len(v))[k] = v[i + k]
<1> DEFINE s == SubSeq(v, 1, i - 1)
           p == SubSeq(v, i + 1, Len(v))
           t == s \o <<v[i]>> \o p
<1>1. Len(v) \in Nat /\ v[i] \in Char
  BY DEF Text
<1>2. s \in Text /\ Len(s) = i - 1 /\ \A k \in 1 .. i - 1 : s[k] = v[k]
  <2>1. /\ s \in Text /\ Len(s) = IF 1 <= i - 1 THEN i - 1 - 1 + 1 ELSE 0
        /\ \A k \in 1 .. i - 1 - 1 + 1 : s[k] = v[1 + k - 1]
    BY <1>1, Part
  <2> HIDE DEF s
  <2> QED
    BY <1>1, <2>1
<1>3. p \in Text /\ Len(p) = Len(v) - i /\ \A k \in 1 .. Len(v) - i : p[k] = v[i + k]
  <2> DEFINE m == i + 1
  <2>1. m \in Int /\ Len(v) \in Int /\ 1 <= m /\ Len(v) <= Len(v)
    BY <1>1
  <2> HIDE DEF m
  <2>2. /\ SubSeq(v, m, Len(v)) \in Text
        /\ Len(SubSeq(v, m, Len(v))) = IF m <= Len(v) THEN Len(v) - m + 1 ELSE 0
        /\ \A k \in 1 .. Len(v) - m + 1 : SubSeq(v, m, Len(v))[k] = v[m + k - 1]
    BY ONLY <2>1, v \in Text, Part
  <2>3. p = SubSeq(v, m, Len(v))
    BY DEF m
  <2> HIDE DEF p
  <2>4. (IF m <= Len(v) THEN Len(v) - m + 1 ELSE 0) = Len(v) - i
        /\ Len(v) - m + 1 = Len(v) - i
        /\ \A k \in 1 .. Len(v) - i : m + k - 1 = i + k
    BY <1>1 DEF m
  <2> QED
    BY <2>2, <2>3, <2>4
<1> HIDE DEF s, p
<1>4. Ends(t, s, v[i], p)
  BY <1>1, <1>2, <1>3, Ending
<1> HIDE DEF t
<1>5. t \in Text /\ Len(t) = Len(v)
  BY <1>1, <1>2, <1>3, <1>4 DEF Ends
<1>6. ASSUME NEW j \in 1 .. Len(t) PROVE t[j] = v[j]
  <2>1. CASE j \in 1 .. i - 1
    BY <1>2, <1>4, <2>1 DEF Ends
  <2>2. CASE j = i
    <3>1. Len(s) + 1 = i
      BY <1>2
    <3> QED
      BY <1>4, <2>2, <3>1 DEF Ends
  <2>3. CASE j > i
    <3>1. /\ j - i \in 1 .. Len(p) /\ j - i \in 1 .. Len(v) - i
          /\ Len(s) + 1 + (j - i) = j /\ i + (j - i) = j
      BY <1>1, <1>2, <1>3, <1>5, <2>3
    <3> QED
      BY <1>3, <1>4, <3>1 DEF Ends
  <2> QED
    BY <1>1, <1>5, <2>1, <2>2, <2>3
<1>7. t = v
  BY <1>5, <1>6, SeqEqual DEF Text
<1> QED
  BY <1>2, <1>3, <1>7 DEF s, p, t

(* A text with a separator ends in a piece.                                *)
LEMMA LastCut ==
  ASSUME NEW v \in Text, NEW c, Places(v, c) # {}
  PROVE  \E s \in Text, p \in Text : v = s \o <<c>> \o p /\ Places(p, c) = {}
<1> DEFINE fromEnd == {Len(v) - i : i \in Places(v, c)}
<1>1. Len(v) \in Nat /\ Places(v, c) \subseteq 1 .. Len(v)
  BY DEF Text, Places
<1>2. fromEnd \in SUBSET Nat /\ fromEnd # {}
  BY <1>1
<1>3. PICK d \in fromEnd : \A e \in fromEnd : d <= e
  BY <1>2, Least
<1>4. PICK i \in Places(v, c) : d = Len(v) - i
  OBVIOUS
<1>5. \A j \in Places(v, c) : Len(v) - j \in fromEnd
  OBVIOUS
<1> HIDE DEF fromEnd
<1>6. \A j \in Places(v, c) : j <= i
  BY <1>1, <1>3, <1>4, <1>5
<1>7. i \in 1 .. Len(v) /\ v[i] = c
  BY <1>1, <1>4 DEF Places
<1> DEFINE s == SubSeq(v, 1, i - 1)
           p == SubSeq(v, i + 1, Len(v))
<1>8. /\ v = s \o <<c>> \o p /\ s \in Text /\ p \in Text
      /\ Len(p) = Len(v) - i
      /\ \A k \in 1 .. Len(v) - i : p[k] = v[i + k]
  BY <1>7, Cutting
<1> HIDE DEF s, p
<1>9. ASSUME NEW k \in 1 .. Len(p) PROVE p[k] # c
  <2>1. i + k \in 1 .. Len(v) /\ ~(i + k <= i) /\ k \in 1 .. Len(v) - i
    BY <1>1, <1>7, <1>8
  <2>2. i + k \notin Places(v, c)
    BY <1>6, <2>1
  <2> QED
    BY <1>8, <2>1, <2>2 DEF Places, Text
<1>10. Places(p, c) = {}
  BY <1>8, <1>9 DEF Places, Text
<1> QED
  BY <1>8, <1>10

LEMMA DigitsAre == "0" \in Digit /\ "9" \in Digit /\ "." \notin Digit /\ "." \in Char
BY Literals DEF Digit

(* A release with a patch number after it, token by token.                 *)
LEMMA PatchIs ==
  ASSUME NEW c \in Text, NEW v, v = Wanted \o <<".">> \o c
  PROVE  /\ v \in Text /\ Len(v) = 4 + Len(c)
         /\ v[1] = "0" /\ v[2] = "." /\ v[3] = "9" /\ v[4] = "."
         /\ \A i \in 1 .. Len(c) : v[4 + i] = c[i]
         /\ SubSeq(v, 1, 3) = Wanted
<1>1. Ends(v, Wanted, ".", c)
  BY Ending, WantedIs, DigitsAre
<1>2. SubSeq(v, 1, 3) = Wanted
  <2> DEFINE rest == <<".">> \o c
  <2>1. v = Wanted \o rest /\ rest \in Text
    BY <1>1 DEF Ends
  <2> HIDE DEF rest
  <2>2. SubSeq(Wanted \o rest, 1, 3) = SubSeq(Wanted, 1, 3)
    <3>1. Wanted \in Text /\ 3 <= Len(Wanted) /\ 1 \in Int /\ 3 \in Int /\ 1 <= 1
      BY WantedIs
    <3> QED
      BY ONLY <2>1, <3>1, PartStays
  <2> QED
    BY <2>1, <2>2, WantedIs, Whole
<1>3. Len(Wanted) + 1 = 4 /\ 1 \in 1 .. 3 /\ 2 \in 1 .. 3 /\ 3 \in 1 .. 3
  BY WantedIs
<1>4. v[1] = Wanted[1] /\ v[2] = Wanted[2] /\ v[3] = Wanted[3]
  BY <1>1, <1>3, WantedIs DEF Ends
<1> QED
  BY <1>1, <1>2, <1>3, <1>4, WantedIs DEF Ends

LEMMA ReleasesMatch ==
  ASSUME NEW v \in Text, IsRelease(v)
  PROVE  InFirst(v, 1)
<1>1. CASE v = Wanted
  <2>1. Len(v) = 3 /\ v[1] = "0" /\ v[2] = "." /\ v[3] = "9"
    BY <1>1, WantedIs
  <2>2. DigitsEnd(v, 1) = 2
    <3>1. \A j \in 1 .. 2 - 1 : v[j] \in Digit
      BY <2>1, DigitsAre
    <3> QED
      BY <2>1, <3>1, DigitsAre, DigitsEndIs
  <2>3. DigitsEnd(v, 3) = 4
    <3>1. \A j \in 3 .. 4 - 1 : v[j] \in Digit
      BY <2>1, DigitsAre
    <3>2. 3 \in 1 .. Len(v) + 1 /\ 4 \in 3 .. Len(v) + 1 /\ ~(4 <= Len(v))
      BY <2>1
    <3> QED
      BY <3>1, <3>2, DigitsEndIs
  <2>4. SubSeq(v, 1, 4 - 1) = Wanted
    <3>1. 4 - 1 = Len(v)
      BY <2>1
    <3> QED
      BY <1>1, <3>1, Whole
  <2>5. InSecond(v, 3)
    BY <2>1, <2>3, <2>4 DEF InSecond
  <2>6. 2 + 1 = 3
    OBVIOUS
  <2> QED
    BY <2>1, <2>2, <2>5, <2>6 DEF InFirst
<1>2. ASSUME NEW c \in Text, Numeral(c), v = Wanted \o <<".">> \o c
      PROVE  InFirst(v, 1)
  <2>1. /\ Len(v) = 4 + Len(c)
        /\ v[1] = "0" /\ v[2] = "." /\ v[3] = "9" /\ v[4] = "."
        /\ \A i \in 1 .. Len(c) : v[4 + i] = c[i]
        /\ SubSeq(v, 1, 3) = Wanted
    BY <1>2, PatchIs
  <2>2. Len(c) \in Nat \ {0} /\ \A i \in 1 .. Len(c) : c[i] \in Digit
    BY <1>2 DEF Numeral, Text
  <2>3. DigitsEnd(v, 1) = 2
    <3>1. \A j \in 1 .. 2 - 1 : v[j] \in Digit
      BY <2>1, DigitsAre
    <3>2. 1 \in 1 .. Len(v) + 1 /\ 2 \in 1 .. Len(v) + 1
      BY <2>1, <2>2
    <3> QED
      BY <2>1, <3>1, <3>2, DigitsAre, DigitsEndIs
  <2>4. DigitsEnd(v, 3) = 4
    <3>1. \A j \in 3 .. 4 - 1 : v[j] \in Digit
      BY <2>1, DigitsAre
    <3>2. 3 \in 1 .. Len(v) + 1 /\ 4 \in 3 .. Len(v) + 1
      BY <2>1, <2>2
    <3> QED
      BY <2>1, <3>1, <3>2, DigitsAre, DigitsEndIs
  <2>5. DigitsEnd(v, 5) = Len(v) + 1
    <3> DEFINE e == Len(v) + 1
    <3>1. ASSUME NEW j \in 5 .. e - 1 PROVE v[j] \in Digit
      <4>1. j - 4 \in 1 .. Len(c) /\ 4 + (j - 4) = j
        BY <2>1, <2>2
      <4> QED
        BY <2>1, <2>2, <4>1
    <3>2. 5 \in 1 .. Len(v) + 1 /\ e \in 5 .. Len(v) + 1 /\ ~(e <= Len(v))
      BY <2>1, <2>2
    <3> HIDE DEF e
    <3>3. DigitsEnd(v, 5) = e
      BY <3>1, <3>2, DigitsEndIs
    <3> QED
      BY <3>3 DEF e
  <2>6. InThird(v, 5, 4)
    <3>1. Len(v) + 1 # 5 /\ Len(v) + 1 > Len(v) /\ 4 - 1 = 3
      BY <2>1, <2>2
    <3> QED
      BY <2>1, <2>5, <3>1 DEF InThird
  <2>7. 2 + 1 = 3 /\ 4 + 1 = 5 /\ ~(4 > Len(v)) /\ ~(2 > Len(v))
    BY <2>1, <2>2
  <2>8. InSecond(v, 3)
    BY <2>1, <2>4, <2>6, <2>7 DEF InSecond
  <2> QED
    BY <2>1, <2>3, <2>7, <2>8 DEF InFirst
<1> QED
  BY <1>1, <1>2 DEF IsRelease

LEMMA MatchesAreReleases ==
  ASSUME NEW v \in Text, InFirst(v, 1)
  PROVE  IsRelease(v)
<1> DEFINE d == DigitsEnd(v, 1)
           e == DigitsEnd(v, d + 1)
           f == DigitsEnd(v, e + 1)
<1>1. Len(v) \in Nat
  BY DEF Text
<1>2. d \in 1 .. Len(v) /\ InSecond(v, d + 1)
  <2>1. 1 \in 1 .. Len(v) + 1
    BY <1>1
  <2>2. d \in 1 .. Len(v) + 1
    BY <2>1, DigitsEndAt
  <2> HIDE DEF d
  <2>3. ~(d > Len(v)) /\ InSecond(v, d + 1)
    BY DEF InFirst, d
  <2> QED
    BY <1>1, <2>2, <2>3
<1> HIDE DEF d
<1>3. e \in d + 1 .. Len(v) + 1 /\ e # d + 1
  <2>1. d + 1 \in 1 .. Len(v) + 1
    BY <1>1, <1>2
  <2> QED
    BY <1>2, <2>1, DigitsEndAt DEF InSecond
<1>4. /\ e > Len(v) => SubSeq(v, 1, e - 1) = Wanted
      /\ ~(e > Len(v)) => v[e] = "." /\ InThird(v, e + 1, e)
  BY <1>2 DEF InSecond
<1> HIDE DEF e
<1>5. CASE e > Len(v)
  <2>1. e - 1 = Len(v)
    BY <1>1, <1>2, <1>3, <1>5
  <2> QED
    BY <1>4, <1>5, <2>1, Whole DEF IsRelease
<1>6. CASE ~(e > Len(v))
  <2>1. e \in 1 .. Len(v) /\ e + 1 \in 1 .. Len(v) + 1 /\ v[e] = "."
    BY <1>1, <1>2, <1>3, <1>4, <1>6
  <2>2. f # e + 1 /\ f > Len(v) /\ SubSeq(v, 1, e - 1) = Wanted
    BY <1>4, <1>6 DEF InThird
  <2>3. f \in e + 1 .. Len(v) + 1 /\ \A j \in e + 1 .. f - 1 : v[j] \in Digit
    BY <2>1, DigitsEndAt
  <2> HIDE DEF f
  <2> DEFINE c == SubSeq(v, e + 1, Len(v))
  <2>4. /\ v = SubSeq(v, 1, e - 1) \o <<v[e]>> \o c /\ c \in Text
        /\ Len(c) = Len(v) - e
        /\ \A k \in 1 .. Len(v) - e : c[k] = v[e + k]
    BY <2>1, Cutting
  <2> HIDE DEF c
  <2>5. v = Wanted \o <<".">> \o c
    BY <2>1, <2>2, <2>4
  <2>6. f = Len(v) + 1 /\ Len(c) # 0
    <3>1. /\ f \in e + 1 .. Len(v) + 1 /\ f > Len(v) /\ f # e + 1
          /\ Len(c) = Len(v) - e
      BY <2>2, <2>3, <2>4
    <3> QED
      BY ONLY <1>1, <2>1, <3>1
  <2>7. ASSUME NEW k \in 1 .. Len(c) PROVE c[k] \in Digit
    <3>1. e + k \in e + 1 .. f - 1 /\ k \in 1 .. Len(v) - e
      BY <1>1, <2>1, <2>4, <2>6
    <3> QED
      BY <2>3, <2>4, <3>1
  <2>8. Numeral(c)
    BY <2>4, <2>6, <2>7 DEF Numeral, Text
  <2> QED
    BY <2>4, <2>5, <2>8 DEF IsRelease
<1> QED
  BY <1>5, <1>6

\* The pieces of a text that has grown by one, of one or two before.
LEMMA GrownFromOne ==
  ASSUME NEW t, NEW s, NEW c, NEW p, Grown(t, s, c, p)
  PROVE  /\ Len(Pieces(s, c)) = 1 <=> Len(Pieces(t, c)) = 2
         /\ Len(Pieces(s, c)) = 1 =>
              Pieces(t, c)[1] = Pieces(s, c)[1] /\ Pieces(t, c)[2] = p
<1> DEFINE P == Pieces(t, c)
           Q == Pieces(s, c)
<1>1. Len(P) = Len(Q) + 1 /\ Len(Q) \in Nat
      /\ (\A k \in 1 .. Len(Q) : P[k] = Q[k]) /\ P[Len(Q) + 1] = p
  BY DEF Grown
<1> HIDE DEF P, Q
<1>2. /\ Len(Q) = 1 <=> Len(P) = 2
      /\ Len(Q) = 1 => P[1] = Q[1] /\ P[2] = p
  <2>1. Len(Q) = 1 <=> Len(P) = 2
    BY ONLY <1>1
  <2>2. Len(Q) = 1 => 1 \in 1 .. Len(Q) /\ Len(Q) + 1 = 2
    OBVIOUS
  <2> QED
    BY <1>1, <2>1, <2>2
<1> QED
  BY <1>2 DEF P, Q

LEMMA GrownFromTwo ==
  ASSUME NEW t, NEW s, NEW c, NEW p, Grown(t, s, c, p)
  PROVE  /\ Len(Pieces(s, c)) = 2 <=> Len(Pieces(t, c)) = 3
         /\ Len(Pieces(s, c)) = 2 =>
              /\ Pieces(t, c)[1] = Pieces(s, c)[1] /\ Pieces(t, c)[2] = Pieces(s, c)[2]
              /\ Pieces(t, c)[3] = p
<1> DEFINE P == Pieces(t, c)
           Q == Pieces(s, c)
<1>1. Len(P) = Len(Q) + 1 /\ Len(Q) \in Nat
      /\ (\A k \in 1 .. Len(Q) : P[k] = Q[k]) /\ P[Len(Q) + 1] = p
  BY DEF Grown
<1> HIDE DEF P, Q
<1>2. /\ Len(Q) = 2 <=> Len(P) = 3
      /\ Len(Q) = 2 => P[1] = Q[1] /\ P[2] = Q[2] /\ P[3] = p
  <2>1. Len(Q) = 2 <=> Len(P) = 3
    BY ONLY <1>1
  <2>2. Len(Q) = 2 => 1 \in 1 .. Len(Q) /\ 2 \in 1 .. Len(Q) /\ Len(Q) + 1 = 3
    OBVIOUS
  <2> QED
    BY <1>1, <2>1, <2>2
<1> QED
  BY <1>2 DEF P, Q

LEMMA WantedPieces ==
  /\ Len(Pieces(Wanted, ".")) = 2
  /\ Pieces(Wanted, ".")[1] = <<"0">> /\ Pieces(Wanted, ".")[2] = <<"9">>
<1> DEFINE zero == <<"0">>
           nine == <<"9">>
           both == zero \o <<".">> \o nine
<1>1. /\ zero \in Text /\ Len(zero) = 1 /\ zero[1] = "0" /\ Places(zero, ".") = {}
      /\ nine \in Text /\ Len(nine) = 1 /\ nine[1] = "9" /\ Places(nine, ".") = {}
  BY Literals DEF Text, Places
<1> HIDE DEF zero, nine
<1>2. both = Wanted
  <2>1. Ends(both, zero, ".", nine)
    BY <1>1, DigitsAre, Ending
  <2> HIDE DEF both
  <2>2. both \in Text /\ Len(both) = 3
    BY <1>1, <2>1 DEF Ends
  <2>3. both[1] = "0" /\ both[2] = "." /\ both[3] = "9"
    <3>1. 1 \in 1 .. Len(zero) /\ Len(zero) + 1 = 2 /\ 1 \in 1 .. Len(nine)
          /\ Len(zero) + 1 + 1 = 3
      BY <1>1
    <3> QED
      BY <1>1, <2>1, <3>1 DEF Ends
  <2>4. \A i \in 1 .. 3 : both[i] = Wanted[i]
    <3>1. \A i \in 1 .. 3 : i = 1 \/ i = 2 \/ i = 3
      OBVIOUS
    <3> QED
      BY <2>3, <3>1, WantedIs
  <2> QED
    BY <2>2, <2>4, WantedIs, SeqEqual DEF Text
<1>3. Grown(both, zero, ".", nine)
  BY <1>1, DigitsAre, PiecesGrow
<1> HIDE DEF both
<1>4. Len(Pieces(zero, ".")) = 1 /\ Pieces(zero, ".")[1] = zero
  BY <1>1, PiecesAlone
<1>5. /\ Len(Pieces(both, ".")) = 2
      /\ Pieces(both, ".")[1] = zero /\ Pieces(both, ".")[2] = nine
  BY <1>3, <1>4, GrownFromOne
<1> QED
  BY <1>2, <1>5 DEF zero, nine

\* The pieces are one or two more than a version's first numeral.
LEMMA TwoPieces ==
  ASSUME NEW v \in Text, NEW c \in Char, Len(Pieces(v, c)) = 2
  PROVE  v = Pieces(v, c)[1] \o <<c>> \o Pieces(v, c)[2]
<1>1. Places(v, c) # {}
  BY PiecesAlone
<1>2. PICK s \in Text, p \in Text : v = s \o <<c>> \o p /\ Places(p, c) = {}
  BY <1>1, LastCut
<1>3. Grown(v, s, c, p)
  BY <1>2, PiecesGrow
<1>4. Len(Pieces(s, c)) = 1
  BY <1>3, GrownFromOne
<1>5. Places(s, c) = {}
  <2>1. Places(s, c) # {} => Len(Pieces(s, c)) >= 2
    BY PiecesMany
  <2> QED
    BY <1>4, <2>1
<1>6. Pieces(s, c)[1] = s
  BY <1>5, PiecesAlone
<1>7. Pieces(v, c)[1] = s /\ Pieces(v, c)[2] = p
  BY <1>3, <1>4, <1>6, GrownFromOne
<1> QED
  BY <1>2, <1>7

\* The numbers between the dots, as VersionsMatchByRelease asks.
TwoOrThree(parts) ==
  /\ Len(parts) \in {2, 3}
  /\ \A k \in DOMAIN parts :
       parts[k] # <<>> /\ \A i \in DOMAIN parts[k] : parts[k][i] \in Digit
  /\ parts[1] \o <<".">> \o parts[2] = Wanted

LEMMA ReleasesByPieces ==
  ASSUME NEW v \in Text
  PROVE  IsRelease(v) <=> TwoOrThree(Pieces(v, "."))
<1> DEFINE P == Pieces(v, ".")
<1>1. DOMAIN P = 1 .. Len(P) /\ \A k \in 1 .. Len(P) : P[k] \in Text
  <2>1. P \in Seq(Text)
    BY PiecesAre
  <2> QED
    BY <2>1
<1>2. ASSUME v = Wanted PROVE TwoOrThree(P)
  <2>1. Len(P) = 2 /\ P[1] = <<"0">> /\ P[2] = <<"9">>
    BY <1>2, WantedPieces
  <2>2. P[1] \o <<".">> \o P[2] = Wanted
    BY <1>2, <2>1, TwoPieces, DigitsAre
  <2> HIDE DEF P
  <2>3. \A k \in 1 .. 2 : k = 1 \/ k = 2
    OBVIOUS
  <2> QED
    BY <1>1, <2>1, <2>2, <2>3, DigitsAre DEF TwoOrThree
<1>3. ASSUME NEW c \in Text, Numeral(c), v = Wanted \o <<".">> \o c PROVE TwoOrThree(P)
  <2>1. Places(c, ".") = {}
    BY <1>3, DigitsAre DEF Numeral, Places, Text
  <2>2. Grown(v, Wanted, ".", c)
    BY <1>3, <2>1, WantedIs, DigitsAre, PiecesGrow
  <2>3. /\ Len(P) = 3 /\ P[3] = c
        /\ P[1] = <<"0">> /\ P[2] = <<"9">>
    BY <2>2, WantedPieces, GrownFromTwo
  <2>4. P[1] \o <<".">> \o P[2] = Wanted
    BY <2>3, WantedPieces, WantedIs, TwoPieces, DigitsAre
  <2> HIDE DEF P
  <2>5. \A k \in 1 .. 3 : k = 1 \/ k = 2 \/ k = 3
    OBVIOUS
  <2>6. c # <<>> /\ \A i \in DOMAIN c : c[i] \in Digit
    BY <1>3 DEF Numeral, Text
  <2> QED
    BY <1>1, <2>3, <2>4, <2>5, <2>6, DigitsAre DEF TwoOrThree
<1>4. ASSUME TwoOrThree(P), Len(P) = 2 PROVE v = Wanted
  BY <1>4, TwoPieces, DigitsAre DEF TwoOrThree
<1>5. ASSUME TwoOrThree(P), Len(P) = 3
      PROVE  \E c \in Text : Numeral(c) /\ v = Wanted \o <<".">> \o c
  <2>1. Places(v, ".") # {}
    BY <1>5, PiecesAlone
  <2>2. PICK s \in Text, p \in Text : v = s \o <<".">> \o p /\ Places(p, ".") = {}
    BY <2>1, LastCut
  <2>3. Grown(v, s, ".", p)
    BY <2>2, PiecesGrow, DigitsAre
  <2>4. /\ Len(Pieces(s, ".")) = 2
        /\ P[1] = Pieces(s, ".")[1] /\ P[2] = Pieces(s, ".")[2] /\ P[3] = p
    BY <1>5, <2>3, GrownFromTwo
  <2>5. s = Wanted
    BY <1>5, <2>4, TwoPieces, DigitsAre DEF TwoOrThree
  <2>6. Numeral(p)
    <3>1. 3 \in DOMAIN P /\ DOMAIN p = 1 .. Len(p)
      BY <1>1, <1>5 DEF Text
    <3> QED
      BY <1>5, <2>4, <3>1 DEF TwoOrThree, Numeral
  <2> QED
    BY <2>2, <2>5, <2>6
<1>6. TwoOrThree(P) => Len(P) = 2 \/ Len(P) = 3
  BY DEF TwoOrThree
<1> QED
  BY <1>2, <1>3, <1>4, <1>5, <1>6 DEF IsRelease

LEMMA MatchIsRelease ==
  ASSUME NEW v \in Text
  PROVE  schema_version_matches(v) <=> IsRelease(v)
BY LoopUnwinds, ReleasesMatch, MatchesAreReleases

(* The loop over the parts takes a version if and only if it is two or     *)
(* three numbers, the first two as in kWireSchemaVersion                   *)
(* (schema_version_matches).                                               *)
THEOREM VersionsMatch == Spec => []VersionsMatchByRelease
<1>1. text \in Text => VersionsMatchByRelease
  <2> SUFFICES ASSUME text \in Text PROVE VersionsMatchByRelease
    OBVIOUS
  <2>1. schema_version_matches(text) <=> TwoOrThree(Pieces(text, "."))
    BY MatchIsRelease, ReleasesByPieces
  <2> QED
    BY <2>1 DEF VersionsMatchByRelease, TwoOrThree
<1> QED
  BY <1>1, TextType, PTL

---------------------------------------------------------------------------
(* What this library writes.                                               *)

\* The parameter join_encoding writes, and how it is read.
Declaration == SchemaParam \o <<"=">> \o Wanted

LEMMA DeclarationIs ==
  /\ Declaration \in Text /\ Places(Declaration, kEncodingSeparator) = {}
  /\ Places(Declaration, "=") # {} /\ Key(Declaration) = SchemaParam
  /\ Value(Declaration) = Wanted
<1> DEFINE d == Declaration
<1>1. d \in Text /\ Places(d, kEncodingSeparator) = {}
  BY Parameters DEF Declaration
<1>2. SchemaParam \in Text /\ Len(SchemaParam) = 1 /\ SchemaParam[1] = "tcn_schema"
  BY Literals DEF SchemaParam, Text
<1>3. Ends(d, SchemaParam, "=", Wanted)
  BY <1>2, WantedIs, Literals, Ending DEF Declaration
<1> HIDE DEF d
<1>4. /\ Len(d) = 5 /\ d[1] = "tcn_schema" /\ d[2] = "="
      /\ \A i \in 1 .. 3 : d[2 + i] = Wanted[i]
  <2>1. Len(SchemaParam) + 1 = 2 /\ 1 \in 1 .. Len(SchemaParam) /\ Len(Wanted) = 3
    BY <1>2, WantedIs
  <2> QED
    BY <1>2, <1>3, <2>1 DEF Ends
<1>5. /\ Places(d, "=") # {} /\ First(Places(d, "=")) = 2
      /\ Key(d) = <<"tcn_schema">>
  <2>1. "tcn_schema" \in Char \ {"=", Space} /\ Len(d) >= 2
    BY <1>4, Literals
  <2> QED
    BY <1>1, <1>4, <2>1, KeyIs
<1>6. SubSeq(d, 3, 5) = Wanted
  <2> DEFINE w == SubSeq(d, 3, 5)
  <2>1. /\ w \in Text /\ Len(w) = IF 3 <= 5 THEN 5 - 3 + 1 ELSE 0
        /\ \A k \in 1 .. 5 - 3 + 1 : w[k] = d[3 + k - 1]
    <3>1. d \in Text /\ 3 \in Int /\ 5 \in Int /\ 1 <= 3 /\ 5 <= Len(d)
      BY <1>1, <1>4
    <3> QED
      BY ONLY <3>1, Part
  <2> HIDE DEF w
  <2>2. Len(w) = 3 /\ \A k \in 1 .. 3 : w[k] = d[2 + k]
    <3>1. \A k \in 1 .. 3 : 3 + k - 1 = 2 + k /\ k \in 1 .. 5 - 3 + 1
      OBVIOUS
    <3> QED
      BY <2>1, <3>1
  <2>3. w = Wanted
    BY <1>4, <2>1, <2>2, WantedIs, SeqEqual DEF Text
  <2> QED
    BY <2>3 DEF w
<1>7. Trim(Wanted) = Wanted
  <2>1. Wanted # <<>> /\ Wanted[1] # Space /\ Wanted[Len(Wanted)] # Space
    <3>1. Wanted # <<>>
      BY DEF Wanted
    <3>2. Wanted[1] = "0" /\ Wanted[Len(Wanted)] = "9"
      BY WantedIs
    <3> QED
      BY <3>1, <3>2, Literals
  <2> QED
    BY <2>1, WantedIs, TrimKeeps
<1>8. Value(d) = Wanted
  <2>1. First(Places(d, "=")) + 1 = 3
    BY <1>5
  <2> QED
    BY <1>4, <1>6, <1>7, <2>1 DEF Value
<1> QED
  BY <1>1, <1>5, <1>8 DEF d, SchemaParam

LEMMA TypeNames ==
  ASSUME NEW type \in Type
  PROVE  /\ type \in Text /\ type # <<>>
         /\ Places(type, kEncodingSeparator) = {} /\ Trim(type) = type
<1>1. type \in Text /\ type # <<>>
  <2>1. Seq(STRING) \subseteq Text
    BY StringsAreText
  <2> QED
    BY <2>1, ConstantsOK DEF ConstantsOK
<1>2. \A i \in DOMAIN type : type[i] # kEncodingSeparator /\ type[i] # Space
  BY TypeNamesOK DEF TypeNamesOK
<1>3. 1 \in DOMAIN type /\ Len(type) \in DOMAIN type
  BY <1>1 DEF Text
<1>4. Trim(type) = type
  BY <1>1, <1>2, <1>3, TrimKeeps
<1> QED
  BY <1>1, <1>2, <1>4 DEF Places

\* Three pieces: the media type, the type and the release.
LEMMA JoinIs ==
  ASSUME NEW media \in Text, Places(media, kEncodingSeparator) = {}, NEW type \in Type
  PROVE  LET parsed == parse_encoding(join_encoding(media, type))
         IN  /\ parsed.media = media /\ parsed.type = type
             /\ parsed.version = Wanted
<1> DEFINE sep == kEncodingSeparator
           first == media \o <<sep>> \o type
           all == first \o <<sep>> \o Declaration
           P == Pieces(all, sep)
<1>1. /\ type \in Text /\ Places(type, sep) = {} /\ Trim(type) = type
      /\ sep \in Char
  BY TypeNames, Literals
<1>2. Grown(first, media, sep, type) /\ first \in Text
  <2>1. Ends(first, media, sep, type)
    BY <1>1, Ending
  <2> QED
    BY <1>1, <2>1, PiecesGrow DEF Ends
<1>3. Len(Pieces(media, sep)) = 1 /\ Pieces(media, sep)[1] = media
  BY PiecesAlone
<1> HIDE DEF first
<1>4. Grown(all, first, sep, Declaration)
  BY <1>1, <1>2, DeclarationIs, PiecesGrow
<1> HIDE DEF all
<1>5. Len(P) = 3 /\ P[1] = media /\ P[2] = type /\ P[3] = Declaration
  BY <1>2, <1>3, <1>4, GrownFromOne, GrownFromTwo
<1> HIDE DEF P
<1>6. Declared(P) = {3}
  <2>1. 3 .. Len(P) = {3}
    BY <1>5
  <2> QED
    BY <1>5, <2>1, DeclarationIs DEF Declared
<1>7. Chosen(P, {3}) = Declaration
  <2>1. First({3}) = 3
    BY FirstIs
  <2> QED
    BY <1>5, <2>1 DEF Chosen
<1>8. /\ Parsed(P).media = media /\ Parsed(P).type = type /\ Parsed(P).version = Wanted
  BY <1>1, <1>5, <1>6, <1>7, DeclarationIs DEF Parsed
<1>9. join_encoding(media, type) = all
  <2> DEFINE head == first \o <<sep>>
  <2>1. /\ head \in Text /\ SchemaParam \in Text /\ <<"=">> \in Text
        /\ SchemaParam \o <<"=">> \in Text
    BY <1>1, <1>2, Literals, ConcatProperties DEF Text, SchemaParam
  <2>2. join_encoding(media, type) = ((head \o SchemaParam) \o <<"=">>) \o Wanted
    BY DEF join_encoding, first
  <2>3. all = head \o ((SchemaParam \o <<"=">>) \o Wanted)
    BY DEF all, Declaration
  <2> HIDE DEF head
  <2>4. (head \o SchemaParam) \o <<"=">> = head \o (SchemaParam \o <<"=">>)
    BY ONLY <2>1, ConcatAssociative DEF Text
  <2> DEFINE param == SchemaParam \o <<"=">>
  <2>5. param \in Text /\ head \in Text /\ Wanted \in Text
    BY <2>1, WantedIs
  <2> HIDE DEF param
  <2>6. (head \o param) \o Wanted = head \o (param \o Wanted)
    BY ONLY <2>5, ConcatAssociative DEF Text
  <2> QED
    BY <2>2, <2>3, <2>4, <2>6 DEF param
<1> QED
  BY <1>8, <1>9, ParsingIsOfPieces DEF P

LEMMA KnownMedia ==
  ASSUME NEW media, NEW i \in DOMAIN media, media[i] \in {"cdr", "CDR", "json", "JSON"}
  PROVE  MediaKnown(media)
<1>1. ascii_lower(media[i]) \in {"cdr", "json"}
  BY DEF ascii_lower
<1> QED
  BY <1>1 DEF MediaKnown, contains_ascii_ci

(* What this library writes it accepts, and a reader of another type does  *)
(* not (join_encoding against check_declared_type).                        *)
THEOREM OwnAnnotations == Spec => []OwnAnnotationsAreAccepted
<1>1. text \in Text => OwnAnnotationsAreAccepted
  <2> SUFFICES ASSUME text \in Text, Places(text, kEncodingSeparator) = {},
                      NEW i \in DOMAIN text, text[i] \in {"cdr", "CDR", "json", "JSON"},
                      NEW type \in Type, NEW other \in Type
               PROVE  check_declared_type(join_encoding(text, type), other) =
                        IF other = type THEN "Ok" ELSE "WrongDeclaredType"
    BY DEF OwnAnnotationsAreAccepted
  <2> DEFINE parsed == parse_encoding(join_encoding(text, type))
  <2>1. parsed.media = text /\ parsed.type = type /\ parsed.version = Wanted
    BY JoinIs
  <2>2. MediaKnown(text)
    BY KnownMedia
  <2>3. type # <<>>
    BY TypeNames
  <2>4. schema_version_matches(Wanted)
    BY WantedIs, MatchIsRelease DEF IsRelease
  <2> QED
    BY <2>1, <2>2, <2>3, <2>4 DEF check_declared_type
<1> QED
  BY <1>1, TextType, PTL

===========================================================================
