---------------------------- MODULE KeysProofs ----------------------------
(***************************************************************************)
(* Theorems about Keys, for keys of any length and numbers of any width:   *)
(* that of the code's epochs, 2^64 - 1, among them.                        *)
(*                                                                         *)
(* The loops over digits are recursive functions.  Recursion and Induction *)
(* are about sets and functions, so that they can be cited for each loop.  *)
(***************************************************************************)
EXTENDS Keys, SequenceTheorems, WellFoundedInduction, TLAPS

\* The order of the naturals as a set of pairs, as WFMin wants it.
Below == {pair \in Nat \X Nat : pair[1] < pair[2]}

LEMMA Least ==
  ASSUME NEW S \in SUBSET Nat, S # {}
  PROVE  \E x \in S : \A y \in S : x <= y
<1>1. IsWellFoundedOn(Below, Nat)
  BY ONLY NatLessThanWellFounded DEF OpToRel, Below
<1>2. PICK x \in S : \A y \in S : <<y, x>> \notin Below
  BY <1>1, WFMin
<1>3. \A y \in S : ~(y < x)
  BY <1>2 DEF Below
<1> QED
  BY <1>3

LEMMA FirstIs ==
  ASSUME NEW S \in SUBSET Nat, NEW x \in S, \A y \in S : x <= y
  PROVE  First(S) = x
<1>1. First(S) \in S /\ \A y \in S : First(S) <= y
  BY DEF First
<1>2. First(S) <= x /\ x <= First(S) /\ x \in Nat /\ First(S) \in Nat
  BY <1>1
<1> QED
  BY <1>2

(* A set that has 0, and n + 1 with n as long as n < top, has all numbers  *)
(* up to top: there is no least one it has not.                            *)
LEMMA Induction ==
  ASSUME NEW top \in Nat, NEW S, 0 \in S,
         \A n \in Nat : n < top /\ n \in S => n + 1 \in S
  PROVE  \A n \in 0 .. top : n \in S
<1> DEFINE T == {n \in 0 .. top : n \notin S}
<1>1. SUFFICES ASSUME T # {} PROVE FALSE
  OBVIOUS
<1>2. T \in SUBSET Nat
  OBVIOUS
<1>3. PICK n \in T : \A m \in T : n <= m
  BY <1>1, <1>2, Least
<1>4. n \in 0 .. top /\ n \notin S /\ n # 0
  BY <1>3
<1>5. n - 1 \in 0 .. top /\ n - 1 < top /\ (n - 1) + 1 = n /\ ~(n <= n - 1)
  BY <1>4
<1>6. n - 1 \in S
  BY <1>3, <1>5
<1> QED
  BY <1>4, <1>5, <1>6

(* There is a function for every first value and every step.               *)
LEMMA Recursion ==
  ASSUME NEW V, NEW first \in V, NEW top \in Nat,
         NEW step \in [1 .. top -> [V -> V]]
  PROVE  \E f \in [0 .. top -> V] :
           f[0] = first /\ \A i \in 1 .. top : f[i] = step[i][f[i - 1]]
<1> DEFINE Upto(n) == \E f \in [0 .. n -> V] :
             f[0] = first /\ \A i \in 1 .. n : f[i] = step[i][f[i - 1]]
           S == {n \in 0 .. top : Upto(n)}
<1>1. 0 \in S
  <2> DEFINE f == [i \in 0 .. 0 |-> first]
  <2>1. f \in [0 .. 0 -> V] /\ f[0] = first
    OBVIOUS
  <2> HIDE DEF f
  <2>2. \A i \in 1 .. 0 : f[i] = step[i][f[i - 1]]
    OBVIOUS
  <2>3. Upto(0)
    BY <2>1, <2>2
  <2> QED
    BY <2>3
<1>2. ASSUME NEW n \in Nat, n < top, n \in S PROVE n + 1 \in S
  <2>1. PICK f \in [0 .. n -> V] :
          f[0] = first /\ \A i \in 1 .. n : f[i] = step[i][f[i - 1]]
    BY <1>2
  <2> DEFINE g == [i \in 0 .. n + 1 |-> IF i <= n THEN f[i] ELSE step[n + 1][f[n]]]
  <2>2. n + 1 \in 1 .. top /\ f[n] \in V
    BY <1>2, <2>1
  <2>3. step[n + 1][f[n]] \in V
    BY <2>2
  <2>4. g \in [0 .. n + 1 -> V] /\ \A i \in 0 .. n : g[i] = f[i]
    BY <2>1, <2>3
  <2>5. g[n + 1] = step[n + 1][f[n]]
    OBVIOUS
  <2> HIDE DEF g
  <2>6. \A i \in 1 .. n + 1 : g[i] = step[i][g[i - 1]]
    <3>1. ASSUME NEW i \in 1 .. n PROVE g[i] = step[i][g[i - 1]]
      <4>1. i \in 0 .. n /\ i - 1 \in 0 .. n
        OBVIOUS
      <4> QED
        BY <2>1, <2>4, <4>1
    <3>2. g[n + 1] = step[n + 1][g[(n + 1) - 1]]
      BY <2>4, <2>5
    <3>3. \A i \in 1 .. n + 1 : i \in 1 .. n \/ i = n + 1
      OBVIOUS
    <3> QED
      BY <3>1, <3>2, <3>3
  <2>7. g[0] = first
    BY <2>1, <2>4
  <2>8. Upto(n + 1)
    BY <2>4, <2>6, <2>7
  <2> QED
    BY <1>2, <2>8
<1> HIDE DEF S
<1>3. \A n \in 0 .. top : n \in S
  BY <1>1, <1>2, Induction
<1>4. top \in S
  BY <1>3
<1> QED
  BY <1>4 DEF S

---------------------------------------------------------------------------
(* The loop of parse_engine_alive_key, and the number digits write.        *)

\* Tokens.  That the literals are strings is not known to the provers.
\* The words the code's own keys are made of.
Word ==
  {"sis", "join", "leave", "alive", "component", "relation", "stream", "graph",
   "pattern", "target", "update", "remove", "start", "stop", "query", "cfg", "str",
   "desc", "trk", "marker", "sqe", "rel", "status", "targets", "changed", "*"}
Char == STRING \cup {"/"} \cup Word \cup Digit
Text == Seq(Char)
Word64 == 0 .. MaxEpoch \cup {Nothing}    \* a uint64, or no value

LEMMA Digits == \A d \in Digit : DigitOf[d] \in 0 .. 9
BY DEF Digit, DigitOf

LEMMA AdvanceType ==
  ASSUME NEW e \in Word64, NEW c PROVE Advance(e, c) \in Word64
<1>1. MaxEpoch \in Nat
  BY ConstantsOK DEF ConstantsOK
<1>2. ASSUME e # Nothing, c \in Digit
      PROVE  (e * 10 + DigitOf[c]) % (MaxEpoch + 1) \in 0 .. MaxEpoch
  <2>1. e * 10 + DigitOf[c] \in Int /\ MaxEpoch + 1 > 0
    BY <1>1, <1>2, Digits DEF Word64
  <2> QED
    BY <1>1, <2>1
<1> QED
  BY <1>2 DEF Advance, Word64

(* What the loop has read of s, after each of its characters.              *)
LEMMA LoopRuns ==
  ASSUME NEW s \in Text
  PROVE  \E read \in [0 .. Len(s) -> Word64] :
           /\ ReadEpoch(s) = read[Len(s)] /\ read[0] = 0
           /\ \A i \in 1 .. Len(s) : read[i] = Advance(read[i - 1], s[i])
<1> DEFINE Rule(f) ==
      f = [i \in 0 .. Len(s) |-> IF i = 0 THEN 0 ELSE Advance(f[i - 1], s[i])]
           loop == CHOOSE f : Rule(f)
           step == [i \in 1 .. Len(s) |-> [e \in Word64 |-> Advance(e, s[i])]]
<1>0. Len(s) \in Nat /\ 0 \in Word64
  BY ConstantsOK DEF Text, Word64, ConstantsOK
<1>1. ReadEpoch(s) = loop[Len(s)]
  BY DEF ReadEpoch
<1>2. \E f : Rule(f)
  <2>1. step \in [1 .. Len(s) -> [Word64 -> Word64]]
    BY AdvanceType
  <2>2. \A i \in 1 .. Len(s) : \A e \in Word64 : step[i][e] = Advance(e, s[i])
    OBVIOUS
  <2> HIDE DEF step
  <2>3. PICK f \in [0 .. Len(s) -> Word64] :
          f[0] = 0 /\ \A i \in 1 .. Len(s) : f[i] = step[i][f[i - 1]]
    BY <1>0, <2>1, Recursion
  <2>4. \A i \in 1 .. Len(s) : f[i] = Advance(f[i - 1], s[i])
    <3>1. \A i \in 1 .. Len(s) : f[i - 1] \in Word64
      BY <1>0, <2>3
    <3> QED
      BY <2>2, <2>3, <3>1
  <2>5. Rule(f)
    BY <1>0, <2>3, <2>4
  <2> QED
    BY <2>5
<1>3. Rule(loop)
  BY <1>2
<1> HIDE DEF loop
<1>4. loop[0] = 0 /\ \A i \in 1 .. Len(s) : loop[i] = Advance(loop[i - 1], s[i])
  <2>1. \A i \in 0 .. Len(s) :
          loop[i] = IF i = 0 THEN 0 ELSE Advance(loop[i - 1], s[i])
    BY <1>3
  <2> QED
    BY <1>0, <2>1
<1>5. \A i \in 0 .. Len(s) : loop[i] \in Word64
  <2> DEFINE S == {i \in 0 .. Len(s) : loop[i] \in Word64}
  <2>1. 0 \in S
    BY <1>0, <1>4
  <2>2. ASSUME NEW n \in Nat, n < Len(s), n \in S PROVE n + 1 \in S
    <3>1. n + 1 \in 1 .. Len(s) /\ (n + 1) - 1 = n /\ n + 1 \in 0 .. Len(s)
      BY <1>0, <2>2
    <3>2. loop[n + 1] = Advance(loop[n], s[n + 1])
      BY <1>4, <3>1
    <3> QED
      BY <2>2, <3>1, <3>2, AdvanceType
  <2> HIDE DEF S
  <2>3. \A i \in 0 .. Len(s) : i \in S
    BY <1>0, <2>1, <2>2, Induction
  <2> QED
    BY <2>3 DEF S
<1>6. loop \in [0 .. Len(s) -> Word64]
  BY <1>3, <1>5
<1> QED
  BY <1>1, <1>4, <1>6

LEMMA ValueRuns ==
  ASSUME NEW s \in Text, \A i \in 1 .. Len(s) : s[i] \in Digit
  PROVE  \E value \in [0 .. Len(s) -> Nat] :
           /\ Value(s) = value[Len(s)] /\ value[0] = 0
           /\ \A i \in 1 .. Len(s) : value[i] = value[i - 1] * 10 + DigitOf[s[i]]
<1> DEFINE Rule(f) ==
      f = [i \in 0 .. Len(s) |-> IF i = 0 THEN 0 ELSE f[i - 1] * 10 + DigitOf[s[i]]]
           sum == CHOOSE f : Rule(f)
           V == Nat
           step == [i \in 1 .. Len(s) |-> [v \in V |-> v * 10 + DigitOf[s[i]]]]
<1>0. Len(s) \in Nat /\ 0 \in V
  BY DEF Text
<1>1. Value(s) = sum[Len(s)]
  BY DEF Value
<1>2. \E f : Rule(f)
  <2>1. step \in [1 .. Len(s) -> [V -> V]]
    BY Digits
  <2>2. \A i \in 1 .. Len(s) : \A v \in V : step[i][v] = v * 10 + DigitOf[s[i]]
    OBVIOUS
  <2> HIDE DEF step, V
  <2>3. PICK f \in [0 .. Len(s) -> V] :
          f[0] = 0 /\ \A i \in 1 .. Len(s) : f[i] = step[i][f[i - 1]]
    BY ONLY <1>0, <2>1, Recursion, SMTT(20)
  <2>4. \A i \in 1 .. Len(s) : f[i] = f[i - 1] * 10 + DigitOf[s[i]]
    <3>1. \A i \in 1 .. Len(s) : f[i - 1] \in V
      BY <1>0, <2>3
    <3> QED
      BY <2>2, <2>3, <3>1
  <2>5. Rule(f)
    BY <1>0, <2>3, <2>4
  <2> QED
    BY <2>5
<1>3. Rule(sum)
  BY <1>2
<1> HIDE DEF sum
<1>4. sum[0] = 0 /\ \A i \in 1 .. Len(s) : sum[i] = sum[i - 1] * 10 + DigitOf[s[i]]
  <2>1. \A i \in 0 .. Len(s) :
          sum[i] = IF i = 0 THEN 0 ELSE sum[i - 1] * 10 + DigitOf[s[i]]
    BY <1>3
  <2> QED
    BY <1>0, <2>1
<1>5. \A i \in 0 .. Len(s) : sum[i] \in Nat
  <2> DEFINE S == {i \in 0 .. Len(s) : sum[i] \in Nat}
  <2>1. 0 \in S
    BY <1>0, <1>4
  <2>2. ASSUME NEW n \in Nat, n < Len(s), n \in S PROVE n + 1 \in S
    <3>1. n + 1 \in 1 .. Len(s) /\ (n + 1) - 1 = n /\ n + 1 \in 0 .. Len(s)
      BY <1>0, <2>2
    <3>2. sum[n + 1] = sum[n] * 10 + DigitOf[s[n + 1]] /\ DigitOf[s[n + 1]] \in Nat
      BY <1>4, <3>1, Digits
    <3> QED
      BY <2>2, <3>1, <3>2
  <2> HIDE DEF S
  <2>3. \A i \in 0 .. Len(s) : i \in S
    BY <1>0, <2>1, <2>2, Induction
  <2> QED
    BY <2>3 DEF S
<1>6. sum \in [0 .. Len(s) -> Nat]
  BY <1>3, <1>5
<1> QED
  BY <1>1, <1>4, <1>6

(* The guard in front of the multiplication refuses exactly what does not  *)
(* fit, so that nothing ever wraps around.                                 *)
LEMMA AdvanceIsExact ==
  ASSUME NEW e \in 0 .. MaxEpoch, NEW c \in Digit
  PROVE  Advance(e, c) = IF e * 10 + DigitOf[c] <= MaxEpoch THEN e * 10 + DigitOf[c]
                                                            ELSE Nothing
<1>1. PICK d \in 0 .. 9 : d = DigitOf[c]
  BY Digits
<1>2. MaxEpoch \in Nat /\ e \in Nat /\ e # Nothing
  BY ConstantsOK DEF ConstantsOK, Nothing
<1>3. Overflows(e, d) <=> e * 10 + d > MaxEpoch
  <2> DEFINE q == (MaxEpoch - d) \div 10
             r == (MaxEpoch - d) % 10
  <2>1. q \in Int /\ r \in 0 .. 9 /\ MaxEpoch - d = 10 * q + r
    BY <1>1, <1>2
  <2> HIDE DEF q, r
  <2>2. e > q <=> e * 10 + d > MaxEpoch
    BY <1>1, <1>2, <2>1
  <2> QED
    BY <2>2 DEF Overflows, q
<1>4. e * 10 + d <= MaxEpoch => (e * 10 + d) % (MaxEpoch + 1) = e * 10 + d
  <2> DEFINE v == e * 10 + d
  <2>1. v \in Nat
    BY <1>1, <1>2
  <2> HIDE DEF v
  <2>2. v <= MaxEpoch => v % (MaxEpoch + 1) = v
    BY <1>2, <2>1
  <2> QED
    BY <2>2 DEF v
<1>5. ~(e * 10 + d > MaxEpoch) <=> e * 10 + d <= MaxEpoch
  BY <1>1, <1>2
<1> QED
  BY <1>1, <1>2, <1>3, <1>4, <1>5 DEF Advance

(* What the loop returns: the number, if digits wrote it and it fits.      *)
LEMMA EpochIsValue ==
  ASSUME NEW s \in Text
  PROVE  /\ (\A i \in 1 .. Len(s) : s[i] \in Digit)
              => /\ Value(s) \in Nat
                 /\ ReadEpoch(s) = IF Value(s) <= MaxEpoch THEN Value(s) ELSE Nothing
         /\ (\E i \in 1 .. Len(s) : s[i] \notin Digit) => ReadEpoch(s) = Nothing
<1>0. Len(s) \in Nat /\ MaxEpoch \in Nat
  BY ConstantsOK DEF Text, ConstantsOK
<1>1. PICK read \in [0 .. Len(s) -> Word64] :
        /\ ReadEpoch(s) = read[Len(s)] /\ read[0] = 0
        /\ \A i \in 1 .. Len(s) : read[i] = Advance(read[i - 1], s[i])
  BY LoopRuns
<1>2. ASSUME \A i \in 1 .. Len(s) : s[i] \in Digit
      PROVE  /\ Value(s) \in Nat
             /\ ReadEpoch(s) = IF Value(s) <= MaxEpoch THEN Value(s) ELSE Nothing
  <2>1. PICK value \in [0 .. Len(s) -> Nat] :
          /\ Value(s) = value[Len(s)] /\ value[0] = 0
          /\ \A i \in 1 .. Len(s) : value[i] = value[i - 1] * 10 + DigitOf[s[i]]
    BY <1>2, ValueRuns
  <2> DEFINE Agree(i) ==
        read[i] = IF value[i] <= MaxEpoch THEN value[i] ELSE Nothing
             S == {i \in 0 .. Len(s) : Agree(i)}
  <2>2. 0 \in S
    BY <1>0, <1>1, <2>1
  <2>3. ASSUME NEW n \in Nat, n < Len(s), n \in S PROVE n + 1 \in S
    <3>1. n + 1 \in 1 .. Len(s) /\ (n + 1) - 1 = n /\ n + 1 \in 0 .. Len(s)
      BY <1>0, <2>3
    <3>2. PICK d \in 0 .. 9 : d = DigitOf[s[n + 1]]
      BY <1>2, <3>1, Digits
    <3>3. value[n] \in Nat /\ value[n + 1] = value[n] * 10 + d
      BY <2>1, <2>3, <3>1, <3>2
    <3>4. read[n + 1] = Advance(read[n], s[n + 1])
      BY <1>1, <3>1
    <3>5. CASE value[n] <= MaxEpoch
      <4>1. read[n] = value[n] /\ value[n] \in 0 .. MaxEpoch
        BY <1>0, <2>3, <3>3, <3>5
      <4> QED
        BY <1>2, <3>1, <3>2, <3>3, <3>4, <4>1, AdvanceIsExact
    <3>6. CASE ~(value[n] <= MaxEpoch)
      <4>1. read[n + 1] = Nothing
        BY <2>3, <3>4, <3>6 DEF Advance
      <4>2. ~(value[n + 1] <= MaxEpoch)
        <5>1. \A v \in Nat : ~(v <= MaxEpoch) => ~(v * 10 + d <= MaxEpoch)
          BY <1>0
        <5> QED
          BY <3>3, <3>6, <5>1
      <4> QED
        BY <3>1, <4>1, <4>2
    <3> QED
      BY <3>5, <3>6
  <2> HIDE DEF S
  <2>4. \A i \in 0 .. Len(s) : i \in S
    BY <1>0, <2>2, <2>3, Induction
  <2>5. Agree(Len(s))
    BY <1>0, <2>4 DEF S
  <2> QED
    BY <1>0, <1>1, <2>1, <2>5
<1>3. ASSUME NEW k \in 1 .. Len(s), s[k] \notin Digit PROVE ReadEpoch(s) = Nothing
  <2> DEFINE S == {i \in 0 .. Len(s) - k : read[k + i] = Nothing}
  <2>1. 0 \in S
    <3>1. read[k] = Nothing
      BY <1>1, <1>3 DEF Advance
    <3>2. k + 0 = k /\ 0 \in 0 .. Len(s) - k
      BY <1>0
    <3> QED
      BY <3>1, <3>2
  <2>2. ASSUME NEW n \in Nat, n < Len(s) - k, n \in S PROVE n + 1 \in S
    <3>1. /\ k + (n + 1) \in 1 .. Len(s) /\ (k + (n + 1)) - 1 = k + n
          /\ n + 1 \in 0 .. Len(s) - k
      BY <1>0, <2>2
    <3>2. read[k + (n + 1)] = Advance(read[k + n], s[k + (n + 1)])
      BY <1>1, <3>1
    <3>3. read[k + n] = Nothing
      BY <2>2
    <3>4. read[k + (n + 1)] = Nothing
      BY <3>2, <3>3 DEF Advance
    <3> QED
      BY <3>1, <3>4
  <2> HIDE DEF S
  <2>3. Len(s) - k \in Nat
    BY <1>0
  <2>4. \A i \in 0 .. Len(s) - k : i \in S
    BY <2>1, <2>2, <2>3, Induction
  <2>5. read[k + (Len(s) - k)] = Nothing /\ k + (Len(s) - k) = Len(s)
    BY <1>0, <2>3, <2>4 DEF S
  <2> QED
    BY <1>1, <2>5
<1> QED
  BY <1>2, <1>3

---------------------------------------------------------------------------
(* Keys by their places.                                                   *)

LEMMA Part ==
  ASSUME NEW s \in Text, NEW m \in 1 .. Len(s) + 1, NEW n \in m - 1 .. Len(s)
  PROVE  /\ SubSeq(s, m, n) \in Text
         /\ Len(SubSeq(s, m, n)) = n - m + 1
         /\ \A k \in 1 .. n - m + 1 : SubSeq(s, m, n)[k] = s[m + k - 1]
<1>1. Len(s) \in Nat /\ m \in Int /\ n \in Int
  BY DEF Text
<1>2. \A i \in m .. n : s[i] \in Char
  <2>1. \A i \in m .. n : i \in 1 .. Len(s)
    BY <1>1
  <2> QED
    BY <2>1 DEF Text
<1>3. (IF m <= n THEN n - m + 1 ELSE 0) = n - m + 1
  BY <1>1
<1>4. /\ SubSeq(s, m, n) \in Seq(Char)
      /\ Len(SubSeq(s, m, n)) = IF m <= n THEN n - m + 1 ELSE 0
      /\ \A i \in 1 .. n - m + 1 : SubSeq(s, m, n)[i] = s[m + i - 1]
  BY ONLY <1>1, <1>2, SubSeqProperties
<1> QED
  BY ONLY <1>3, <1>4 DEF Text

LEMMA UnderIs ==
  ASSUME NEW p \in Text, NEW t \in Text
  PROVE  /\ Under(p, t) \in Text
         /\ Len(Under(p, t)) = Len(p) + 1 + Len(t)
         /\ \A i \in 1 .. Len(p) : Under(p, t)[i] = p[i]
         /\ Under(p, t)[Len(p) + 1] = "/"
         /\ \A i \in 1 .. Len(t) : Under(p, t)[Len(p) + 1 + i] = t[i]
<1> DEFINE slash == <<"/">>
           ps == p \o slash
<1>1. slash \in Text /\ Len(slash) = 1 /\ slash[1] = "/"
  BY DEF Text, Char
<1>2. Len(p) \in Nat /\ Len(t) \in Nat
  BY DEF Text
<1>3. /\ ps \in Text /\ Len(ps) = Len(p) + Len(slash)
      /\ \A i \in 1 .. Len(p) + Len(slash) :
           ps[i] = IF i <= Len(p) THEN p[i] ELSE slash[i - Len(p)]
  BY ONLY <1>1, p \in Text, ConcatProperties DEF Text
<1> HIDE DEF slash
<1>4. Len(ps) = Len(p) + 1 /\ (\A i \in 1 .. Len(p) : ps[i] = p[i]) /\ ps[Len(p) + 1] = "/"
  <2>1. Len(p) + Len(slash) = Len(p) + 1
    BY <1>1
  <2>2. ASSUME NEW i \in 1 .. Len(p) PROVE ps[i] = p[i]
    <3>1. i \in 1 .. Len(p) + 1 /\ i <= Len(p)
      BY <1>2
    <3> QED
      BY <1>3, <2>1, <3>1
  <2>3. ps[Len(p) + 1] = "/"
    <3>1. /\ Len(p) + 1 \in 1 .. Len(p) + 1 /\ ~(Len(p) + 1 <= Len(p))
          /\ (Len(p) + 1) - Len(p) = 1
      BY <1>2
    <3> QED
      BY <1>1, <1>3, <2>1, <3>1
  <2> QED
    BY <1>3, <2>1, <2>2, <2>3
<1> HIDE DEF ps
<1>5. /\ ps \o t \in Text /\ Len(ps \o t) = Len(ps) + Len(t)
      /\ \A i \in 1 .. Len(ps) + Len(t) :
           (ps \o t)[i] = IF i <= Len(ps) THEN ps[i] ELSE t[i - Len(ps)]
  <2>1. ps \in Text /\ t \in Text
    BY <1>3
  <2> QED
    BY ONLY <2>1, ConcatProperties DEF Text
<1>6. \A i \in 1 .. Len(p) + 1 : (ps \o t)[i] = ps[i]
  <2>1. ASSUME NEW i \in 1 .. Len(p) + 1 PROVE (ps \o t)[i] = ps[i]
    <3>1. i \in 1 .. Len(ps) + Len(t) /\ i <= Len(ps)
      BY <1>2, <1>4
    <3> QED
      BY <1>5, <3>1
  <2> QED
    BY <2>1
<1>7. \A i \in 1 .. Len(t) : (ps \o t)[Len(p) + 1 + i] = t[i]
  <2>1. ASSUME NEW i \in 1 .. Len(t) PROVE (ps \o t)[Len(p) + 1 + i] = t[i]
    <3> DEFINE j == Len(p) + 1 + i
    <3>1. j \in 1 .. Len(ps) + Len(t) /\ ~(j <= Len(ps)) /\ j - Len(ps) = i
      BY <1>2, <1>4
    <3> HIDE DEF j
    <3>2. (ps \o t)[j] = t[i]
      BY <1>5, <3>1
    <3> QED
      BY <3>2 DEF j
  <2> QED
    BY <2>1
<1>8. Under(p, t) = ps \o t
  BY DEF Under, ps, slash
<1>9. \A i \in 1 .. Len(p) + 1 : i \in 1 .. Len(p) \/ i = Len(p) + 1
  BY <1>2
<1>10. Len(p) + 1 \in 1 .. Len(p) + 1 /\ \A i \in 1 .. Len(p) : i \in 1 .. Len(p) + 1
  BY <1>2
<1> QED
  BY <1>4, <1>5, <1>6, <1>7, <1>8, <1>10

\* The engine's liveliness key for the text t in the place of the epoch.
Token(e, t) == engine_key(e, Under(<<"alive">>, t))

\* What stands where in it.
Places(k, e, t) ==
  /\ k \in Text /\ Len(k) = Len(e) + 5 + Len(t)
  /\ k[1] = "sqe" /\ k[2] = "/"
  /\ \A i \in 1 .. Len(e) : k[2 + i] = e[i]
  /\ k[Len(e) + 3] = "/" /\ k[Len(e) + 4] = "alive" /\ k[Len(e) + 5] = "/"
  /\ \A i \in 1 .. Len(t) : k[Len(e) + 5 + i] = t[i]

LEMMA TokenIs ==
  ASSUME NEW e \in Text, NEW t \in Text
  PROVE  Places(Token(e, t), e, t)
<1> DEFINE head == Under(<<"sqe">>, e)
           last == Under(<<"alive">>, t)
<1>0. Len(e) \in Nat /\ Len(t) \in Nat
  BY DEF Text
<1>1. /\ head \in Text /\ Len(head) = Len(e) + 2
      /\ head[1] = "sqe" /\ head[2] = "/" /\ \A i \in 1 .. Len(e) : head[2 + i] = e[i]
  <2> DEFINE word == <<"sqe">>
  <2>1. word \in Text /\ Len(word) = 1 /\ word[1] = "sqe"
    BY DEF Text, Char, Word
  <2> HIDE DEF word
  <2>2. /\ Under(word, e) \in Text
        /\ Len(Under(word, e)) = Len(word) + 1 + Len(e)
        /\ \A i \in 1 .. Len(word) : Under(word, e)[i] = word[i]
        /\ Under(word, e)[Len(word) + 1] = "/"
        /\ \A i \in 1 .. Len(e) : Under(word, e)[Len(word) + 1 + i] = e[i]
    BY <2>1, UnderIs
  <2>3. 1 \in 1 .. Len(word) /\ Len(word) + 1 = 2 /\ Len(word) + 1 + Len(e) = Len(e) + 2
    BY <1>0, <2>1
  <2> QED
    BY <2>1, <2>2, <2>3 DEF word
<1>2. /\ last \in Text /\ Len(last) = Len(t) + 2
      /\ last[1] = "alive" /\ last[2] = "/" /\ \A i \in 1 .. Len(t) : last[2 + i] = t[i]
  <2> DEFINE word == <<"alive">>
  <2>1. word \in Text /\ Len(word) = 1 /\ word[1] = "alive"
    BY DEF Text, Char, Word
  <2> HIDE DEF word
  <2>2. /\ Under(word, t) \in Text
        /\ Len(Under(word, t)) = Len(word) + 1 + Len(t)
        /\ \A i \in 1 .. Len(word) : Under(word, t)[i] = word[i]
        /\ Under(word, t)[Len(word) + 1] = "/"
        /\ \A i \in 1 .. Len(t) : Under(word, t)[Len(word) + 1 + i] = t[i]
    BY <2>1, UnderIs
  <2>3. 1 \in 1 .. Len(word) /\ Len(word) + 1 = 2 /\ Len(word) + 1 + Len(t) = Len(t) + 2
    BY <1>0, <2>1
  <2> QED
    BY <2>1, <2>2, <2>3 DEF word
<1> HIDE DEF head, last
<1>3. /\ Under(head, last) \in Text
      /\ Len(Under(head, last)) = Len(head) + 1 + Len(last)
      /\ \A i \in 1 .. Len(head) : Under(head, last)[i] = head[i]
      /\ Under(head, last)[Len(head) + 1] = "/"
      /\ \A i \in 1 .. Len(last) : Under(head, last)[Len(head) + 1 + i] = last[i]
  BY <1>1, <1>2, UnderIs
<1>4. Token(e, t) = Under(head, last)
  BY DEF Token, engine_key, head, last
<1>5. Len(Token(e, t)) = Len(e) + 5 + Len(t)
  BY <1>0, <1>1, <1>2, <1>3, <1>4
<1>6. Token(e, t)[1] = "sqe" /\ Token(e, t)[2] = "/"
  <2>1. 1 \in 1 .. Len(head) /\ 2 \in 1 .. Len(head)
    BY <1>0, <1>1
  <2> QED
    BY <1>1, <1>3, <1>4, <2>1
<1>7. \A i \in 1 .. Len(e) : Token(e, t)[2 + i] = e[i]
  <2>1. \A i \in 1 .. Len(e) : 2 + i \in 1 .. Len(head)
    BY <1>0, <1>1
  <2> QED
    BY <1>1, <1>3, <1>4, <2>1
<1>8. /\ Token(e, t)[Len(e) + 3] = "/" /\ Token(e, t)[Len(e) + 4] = "alive"
      /\ Token(e, t)[Len(e) + 5] = "/"
  <2>1. /\ Len(e) + 3 = Len(head) + 1 /\ Len(e) + 4 = Len(head) + 1 + 1
        /\ Len(e) + 5 = Len(head) + 1 + 2
        /\ 1 \in 1 .. Len(last) /\ 2 \in 1 .. Len(last)
    BY <1>0, <1>1, <1>2
  <2> QED
    BY <1>2, <1>3, <1>4, <2>1
<1>9. ASSUME NEW i \in 1 .. Len(t) PROVE Token(e, t)[Len(e) + 5 + i] = t[i]
  <2>1. Len(e) + 5 + i = Len(head) + 1 + (2 + i) /\ 2 + i \in 1 .. Len(last)
    BY <1>0, <1>1, <1>2
  <2> QED
    BY <1>2, <1>3, <1>4, <1>9, <2>1
<1> QED
  BY <1>3, <1>4, <1>5, <1>6, <1>7, <1>8, <1>9 DEF Places

\* The places of a token of which the engine's chunk ends at a ...
Marked(s, a) ==
  /\ s[1] = "sqe" /\ s[2] = "/"
  /\ s[a + 1] = "/" /\ s[a + 2] = "alive" /\ s[a + 3] = "/"

\* ... and is one chunk.
TokenAt(s, a) ==
  a \in 3 .. Len(s) - 4 /\ Marked(s, a) /\ \A i \in 3 .. a : s[i] # "/"

EngineIn(s, a) == SubSeq(s, 3, a)
EpochIn(s, a) == SubSeq(s, a + 4, Len(s))

LEMMA PartsOfToken ==
  ASSUME NEW s \in Text, NEW a \in 3 .. Len(s) - 4
  PROVE  /\ EngineIn(s, a) \in Text /\ Len(EngineIn(s, a)) = a - 2
         /\ \A k \in 1 .. a - 2 : EngineIn(s, a)[k] = s[2 + k]
         /\ EpochIn(s, a) \in Text /\ Len(EpochIn(s, a)) = Len(s) - a - 3
         /\ \A k \in 1 .. Len(s) - a - 3 : EpochIn(s, a)[k] = s[a + 3 + k]
<1>0. Len(s) \in Nat
  BY DEF Text
<1>1. /\ 3 \in 1 .. Len(s) + 1 /\ a \in 3 - 1 .. Len(s) /\ a - 3 + 1 = a - 2
      /\ \A k \in 1 .. a - 2 : 3 + k - 1 = 2 + k
  BY <1>0
<1>2. /\ EngineIn(s, a) \in Text /\ Len(EngineIn(s, a)) = a - 3 + 1
      /\ \A k \in 1 .. a - 3 + 1 : EngineIn(s, a)[k] = s[3 + k - 1]
  BY <1>1, Part DEF EngineIn
<1>3. /\ a + 4 \in 1 .. Len(s) + 1 /\ Len(s) \in (a + 4) - 1 .. Len(s)
      /\ Len(s) - (a + 4) + 1 = Len(s) - a - 3
      /\ \A k \in 1 .. Len(s) - a - 3 : (a + 4) + k - 1 = a + 3 + k
  BY <1>0
<1>4. /\ EpochIn(s, a) \in Text /\ Len(EpochIn(s, a)) = Len(s) - (a + 4) + 1
      /\ \A k \in 1 .. Len(s) - (a + 4) + 1 : EpochIn(s, a)[k] = s[(a + 4) + k - 1]
  BY <1>3, Part DEF EpochIn
<1> QED
  BY <1>1, <1>2, <1>3, <1>4

LEMMA TokenShape ==
  ASSUME NEW s \in Text, NEW a \in 3 .. Len(s) - 4
  PROVE  s = Token(EngineIn(s, a), EpochIn(s, a)) <=> Marked(s, a)
<1> DEFINE e == EngineIn(s, a)
           t == EpochIn(s, a)
           k == Token(e, t)
<1>0. Len(s) \in Nat
  BY DEF Text
<1>1. /\ e \in Text /\ Len(e) = a - 2 /\ \A i \in 1 .. a - 2 : e[i] = s[2 + i]
      /\ t \in Text /\ Len(t) = Len(s) - a - 3
      /\ \A i \in 1 .. Len(s) - a - 3 : t[i] = s[a + 3 + i]
  BY PartsOfToken
<1> HIDE DEF e, t
<1>2. Places(k, e, t)
  BY <1>1, TokenIs
<1> HIDE DEF k
<1>3. /\ Len(e) + 3 = a + 1 /\ Len(e) + 4 = a + 2 /\ Len(e) + 5 = a + 3
      /\ Len(e) + 5 + Len(t) = Len(s)
  BY <1>0, <1>1
<1>4. Marked(k, a) /\ Len(k) = Len(s)
  BY <1>2, <1>3 DEF Marked, Places
<1>5. ASSUME Marked(s, a) PROVE s = k
  <2>1. ASSUME NEW i \in 1 .. Len(s) PROVE s[i] = k[i]
    <3>1. CASE i \in 3 .. a
      <4>1. PICK j \in 1 .. a - 2 : i = 2 + j
        <5>1. i - 2 \in 1 .. a - 2 /\ i = 2 + (i - 2)
          BY <1>0, <3>1
        <5> QED
          BY <5>1
      <4>2. s[2 + j] = e[j] /\ k[2 + j] = e[j]
        BY <1>1, <1>2 DEF Places
      <4> QED
        BY <4>1, <4>2
    <3>2. CASE i \in a + 4 .. Len(s)
      <4>1. PICK j \in 1 .. Len(s) - a - 3 : i = a + 3 + j
        <5>1. i - a - 3 \in 1 .. Len(s) - a - 3 /\ i = a + 3 + (i - a - 3)
          BY <1>0, <3>2
        <5> QED
          BY <5>1
      <4>2. s[a + 3 + j] = t[j] /\ k[a + 3 + j] = t[j]
        BY <1>1, <1>2, <1>3 DEF Places
      <4> QED
        BY <4>1, <4>2
    <3>3. CASE i \in {1, 2, a + 1, a + 2, a + 3}
      BY <1>4, <1>5, <3>3 DEF Marked
    <3>4. i \in 3 .. a \/ i \in a + 4 .. Len(s) \/ i \in {1, 2, a + 1, a + 2, a + 3}
      BY <1>0
    <3> QED
      BY <3>1, <3>2, <3>3, <3>4
  <2> QED
    BY ONLY <1>2, <1>4, <2>1, SeqEqual, s \in Text DEF Text, Places
<1> QED
  BY <1>4, <1>5 DEF k, e, t

\* The engine's chunk ends where its first slash is.
LEMMA OneToken ==
  ASSUME NEW s \in Text, NEW a, TokenAt(s, a), NEW b, TokenAt(s, b)
  PROVE  a = b
<1>1. a \in Int /\ b \in Int /\ a >= 3 /\ b >= 3
  BY DEF TokenAt, Text
<1>2. ~(a < b)
  <2>1. a < b => a + 1 \in 3 .. b
    BY <1>1
  <2> QED
    BY <2>1 DEF TokenAt, Marked
<1>3. ~(b < a)
  <2>1. b < a => b + 1 \in 3 .. a
    BY <1>1
  <2> QED
    BY <2>1 DEF TokenAt, Marked
<1> QED
  BY <1>1, <1>2, <1>3

(* Behind a word and its slash is the rest, token by token.                *)
LEMMA BehindIs ==
  ASSUME NEW s \in Text, NEW word, StartsWith(s, word)
  PROVE  /\ Behind(s) \in Text /\ Len(Behind(s)) = Len(s) - 2 /\ Len(s) >= 2
         /\ \A k \in 1 .. Len(s) - 2 : Behind(s)[k] = s[2 + k]
<1>0. Len(s) \in Nat /\ Len(s) >= 2
  BY DEF Text, StartsWith
<1>1. /\ 3 \in 1 .. Len(s) + 1 /\ Len(s) \in 3 - 1 .. Len(s)
      /\ Len(s) - 3 + 1 = Len(s) - 2 /\ \A k \in 1 .. Len(s) - 2 : 3 + k - 1 = 2 + k
  BY <1>0
<1>2. /\ Behind(s) \in Text /\ Len(Behind(s)) = Len(s) - 3 + 1
      /\ \A k \in 1 .. Len(s) - 3 + 1 : Behind(s)[k] = s[3 + k - 1]
  BY <1>1, Part DEF Behind
<1> QED
  BY <1>0, <1>1, <1>2

(* The first chunk of what is behind the namespace, and the rest of it.    *)
LEMMA ChunkAndRest ==
  ASSUME NEW s \in Text, Len(s) >= 2, NEW tail \in Text, Len(tail) = Len(s) - 2,
         \A k \in 1 .. Len(s) - 2 : tail[k] = s[2 + k],
         NEW slash \in 1 .. Len(tail)
  PROVE  /\ SubSeq(tail, 1, slash - 1) = EngineIn(s, slash + 1)
         /\ SubSeq(tail, slash + 1, Len(tail)) \in Text
         /\ Len(SubSeq(tail, slash + 1, Len(tail))) = Len(tail) - slash
         /\ \A k \in 1 .. Len(tail) - slash :
              SubSeq(tail, slash + 1, Len(tail))[k] = s[2 + slash + k]
<1>0. Len(s) \in Nat /\ Len(tail) \in Nat /\ slash \in Nat
  BY DEF Text
<1> DEFINE chunk == SubSeq(tail, 1, slash - 1)
           engine == EngineIn(s, slash + 1)
           rest == SubSeq(tail, slash + 1, Len(tail))
<1>1. /\ chunk \in Text /\ Len(chunk) = slash - 1
      /\ \A k \in 1 .. slash - 1 : chunk[k] = s[2 + k]
  <2>1. /\ 1 \in 1 .. Len(tail) + 1 /\ slash - 1 \in 1 - 1 .. Len(tail)
        /\ (slash - 1) - 1 + 1 = slash - 1
        /\ \A k \in 1 .. slash - 1 : 1 + k - 1 = k /\ k \in 1 .. Len(s) - 2
    BY <1>0
  <2>2. /\ chunk \in Text /\ Len(chunk) = (slash - 1) - 1 + 1
        /\ \A k \in 1 .. (slash - 1) - 1 + 1 : chunk[k] = tail[1 + k - 1]
    BY <2>1, Part
  <2> QED
    BY <2>1, <2>2
<1>2. /\ engine \in Text /\ Len(engine) = slash - 1
      /\ \A k \in 1 .. slash - 1 : engine[k] = s[2 + k]
  <2>1. /\ 3 \in 1 .. Len(s) + 1 /\ slash + 1 \in 3 - 1 .. Len(s)
        /\ (slash + 1) - 3 + 1 = slash - 1
        /\ \A k \in 1 .. slash - 1 : 3 + k - 1 = 2 + k
    BY <1>0
  <2>2. /\ engine \in Text /\ Len(engine) = (slash + 1) - 3 + 1
        /\ \A k \in 1 .. (slash + 1) - 3 + 1 : engine[k] = s[3 + k - 1]
    BY <2>1, Part DEF EngineIn
  <2> QED
    BY <2>1, <2>2
<1>3. /\ rest \in Text /\ Len(rest) = Len(tail) - slash
      /\ \A k \in 1 .. Len(tail) - slash : rest[k] = s[2 + slash + k]
  <2>1. /\ slash + 1 \in 1 .. Len(tail) + 1 /\ Len(tail) \in (slash + 1) - 1 .. Len(tail)
        /\ Len(tail) - (slash + 1) + 1 = Len(tail) - slash
        /\ \A k \in 1 .. Len(tail) - slash :
             /\ (slash + 1) + k - 1 = slash + k /\ slash + k \in 1 .. Len(s) - 2
             /\ 2 + (slash + k) = 2 + slash + k
    BY <1>0
  <2>2. /\ rest \in Text /\ Len(rest) = Len(tail) - (slash + 1) + 1
        /\ \A k \in 1 .. Len(tail) - (slash + 1) + 1 : rest[k] = tail[(slash + 1) + k - 1]
    BY <2>1, Part
  <2> QED
    BY <2>1, <2>2
<1> HIDE DEF chunk, engine, rest
<1>4. chunk = engine
  <2>1. Len(chunk) = Len(engine) /\ \A k \in 1 .. Len(chunk) : chunk[k] = engine[k]
    BY <1>1, <1>2
  <2>2. chunk \in Seq(Char) /\ engine \in Seq(Char)
    BY <1>1, <1>2 DEF Text
  <2> QED
    BY ONLY <2>1, <2>2, SeqEqual
<1> QED
  BY <1>3, <1>4 DEF chunk, engine, rest

(* A key is parsed if and only if it is a token, of an engine the caller   *)
(* did not exclude, and then to what is in the place of the epoch.         *)
LEMMA ParseIs ==
  ASSUME NEW s \in Text, NEW wanted
  PROVE  /\ \A a : TokenAt(s, a) =>
              parse_engine_alive_key(s, wanted) =
                IF OtherEngine(wanted, EngineIn(s, a)) THEN Nothing
                                                       ELSE ReadEpoch(EpochIn(s, a))
         /\ (~ \E a : TokenAt(s, a)) => parse_engine_alive_key(s, wanted) = Nothing
<1> DEFINE tail == Behind(s)
           slashes == {i \in DOMAIN tail : tail[i] = "/"}
           slash == First(slashes)
           rest == SubSeq(tail, slash + 1, Len(tail))
           chunk == SubSeq(tail, 1, slash - 1)
           early == ~StartsWith(s, "sqe") \/ slashes = {} \/ 1 \in slashes
<1>1. parse_engine_alive_key(s, wanted) =
        IF early THEN Nothing
        ELSE IF OtherEngine(wanted, chunk) THEN Nothing
        ELSE IF ~StartsWith(rest, "alive") \/ Behind(rest) = <<>> THEN Nothing
        ELSE ReadEpoch(Behind(rest))
  BY DEF parse_engine_alive_key
<1>2. ASSUME NEW a, TokenAt(s, a) PROVE ~early /\ slash = a - 1
  <2>1. /\ a \in 3 .. Len(s) - 4 /\ Len(s) \in Nat /\ s[1] = "sqe" /\ s[2] = "/"
        /\ s[a + 1] = "/" /\ \A i \in 3 .. a : s[i] # "/"
    BY <1>2 DEF TokenAt, Marked, Text
  <2>2. StartsWith(s, "sqe")
    BY <2>1 DEF StartsWith
  <2>3. /\ tail \in Text /\ Len(tail) = Len(s) - 2
        /\ \A k \in 1 .. Len(s) - 2 : tail[k] = s[2 + k]
    BY <2>2, BehindIs
  <2> HIDE DEF tail
  <2>4. DOMAIN tail = 1 .. Len(s) - 2
    BY <2>3 DEF Text
  <2>5. a - 1 \in 1 .. Len(s) - 2 /\ 2 + (a - 1) = a + 1
    BY <2>1
  <2>6. a - 1 \in slashes
    BY <2>1, <2>3, <2>4, <2>5
  <2>7. ASSUME NEW k \in slashes PROVE a - 1 <= k
    <3>1. k \in 1 .. Len(s) - 2 /\ s[2 + k] = "/"
      BY <2>3, <2>4, <2>7
    <3>2. k < a - 1 => 2 + k \in 3 .. a
      BY <2>1, <3>1
    <3> QED
      BY <2>1, <3>1, <3>2
  <2>8. slashes \in SUBSET Nat
    BY <2>4
  <2>9. slash = a - 1
    <3> HIDE DEF slashes
    <3> QED
      BY ONLY <2>6, <2>7, <2>8, FirstIs
  <2>10. 1 \notin slashes
    BY <2>1, <2>7
  <2> QED
    BY <2>2, <2>6, <2>9, <2>10
<1>3. ASSUME ~early
      PROVE  /\ slash \in Nat /\ slash >= 2 /\ slash + 3 <= Len(s) + 1 /\ Len(s) \in Nat
             /\ s[1] = "sqe" /\ s[2] = "/" /\ s[slash + 2] = "/"
             /\ \A i \in 3 .. slash + 1 : s[i] # "/"
             /\ chunk = EngineIn(s, slash + 1)
             /\ rest \in Text /\ Len(rest) = Len(s) - 2 - slash
             /\ \A k \in 1 .. Len(s) - 2 - slash : rest[k] = s[2 + slash + k]
  <2>1. StartsWith(s, "sqe") /\ slashes # {} /\ 1 \notin slashes
    BY <1>3
  <2>2. s[1] = "sqe" /\ s[2] = "/" /\ Len(s) \in Nat
    BY <2>1 DEF StartsWith, Text
  <2>3. /\ tail \in Text /\ Len(tail) = Len(s) - 2 /\ Len(s) >= 2
        /\ \A k \in 1 .. Len(s) - 2 : tail[k] = s[2 + k]
    BY <2>1, BehindIs
  <2> HIDE DEF tail
  <2>4. DOMAIN tail = 1 .. Len(s) - 2
    BY <2>3 DEF Text
  <2>5. slashes \in SUBSET Nat
    BY <2>4
  <2>6. slash \in slashes /\ \A k \in slashes : slash <= k
    <3>1. \E x \in slashes : \A y \in slashes : x <= y
      BY <2>1, <2>5, Least
    <3> QED
      BY <3>1 DEF First
  <2>7. slash \in 1 .. Len(s) - 2 /\ tail[slash] = "/" /\ slash # 1
    BY <2>1, <2>4, <2>6
  <2>8. \A i \in 3 .. slash + 1 : s[i] # "/"
    <3>1. ASSUME NEW i \in 3 .. slash + 1, s[i] = "/" PROVE FALSE
      <4>1. /\ i - 2 \in 1 .. Len(s) - 2 /\ 2 + (i - 2) = i /\ ~(slash <= i - 2)
        BY <2>2, <2>7
      <4>2. i - 2 \in slashes
        BY <2>3, <2>4, <3>1, <4>1
      <4> QED
        BY <2>6, <4>1, <4>2
    <3> QED
      BY <3>1
  <2>9. s[slash + 2] = "/"
    BY <2>2, <2>3, <2>7
  <2> HIDE DEF slash
  <2>10. slash \in 1 .. Len(tail) /\ Len(tail) - slash = Len(s) - 2 - slash
    BY <2>2, <2>3, <2>7
  <2>11. /\ chunk = EngineIn(s, slash + 1)
         /\ rest \in Text /\ Len(rest) = Len(tail) - slash
         /\ \A k \in 1 .. Len(tail) - slash : rest[k] = s[2 + slash + k]
    BY <2>3, <2>10, ChunkAndRest
  <2>12. slash \in Nat /\ slash >= 2 /\ slash + 3 <= Len(s) + 1
    BY <2>2, <2>7
  <2> QED
    BY <2>2, <2>8, <2>9, <2>10, <2>11, <2>12
<1> HIDE DEF tail, slashes, slash, rest, chunk, early
<1>4. ASSUME ~early, StartsWith(rest, "alive")
      PROVE  /\ Behind(rest) = <<>> <=> Len(s) < slash + 5
             /\ Len(s) >= slash + 5 =>
                  TokenAt(s, slash + 1) /\ Behind(rest) = EpochIn(s, slash + 1)
  <2>0. /\ slash \in Nat /\ slash >= 2 /\ Len(s) \in Nat
        /\ Len(rest) = Len(s) - 2 - slash
    BY <1>3, <1>4
  <2>1. /\ Len(rest) >= 2 /\ rest[1] = "alive" /\ rest[2] = "/"
        /\ Behind(rest) \in Text /\ Len(Behind(rest)) = Len(rest) - 2
        /\ \A k \in 1 .. Len(rest) - 2 : Behind(rest)[k] = rest[2 + k]
    BY <1>3, <1>4, BehindIs DEF StartsWith
  <2>2. Len(Behind(rest)) = Len(s) - 4 - slash /\ Len(s) >= slash + 4
    BY <1>3, <1>4, <2>1
  <2>3. Behind(rest) = <<>> <=> Len(Behind(rest)) = 0
    BY <2>1 DEF Text
  <2>4. ASSUME Len(s) >= slash + 5
        PROVE  TokenAt(s, slash + 1) /\ Behind(rest) = EpochIn(s, slash + 1)
    <3>1. /\ slash + 1 \in 3 .. Len(s) - 4
          /\ (slash + 1) + 1 = slash + 2 /\ (slash + 1) + 2 = 2 + slash + 1
          /\ (slash + 1) + 3 = 2 + slash + 2
          /\ 1 \in 1 .. Len(s) - 2 - slash /\ 2 \in 1 .. Len(s) - 2 - slash
      BY <2>0, <2>4
    <3>2. s[2 + slash + 1] = "alive" /\ s[2 + slash + 2] = "/"
      BY <1>3, <1>4, <2>1, <3>1
    <3>3. TokenAt(s, slash + 1)
      BY <1>3, <1>4, <3>1, <3>2 DEF TokenAt, Marked
    <3> DEFINE epoch == EpochIn(s, slash + 1)
               behind == Behind(rest)
    <3>4. /\ epoch \in Text /\ Len(epoch) = Len(s) - (slash + 1) - 3
          /\ \A k \in 1 .. Len(s) - (slash + 1) - 3 : epoch[k] = s[(slash + 1) + 3 + k]
      BY <3>1, PartsOfToken
    <3>5. Len(epoch) = Len(behind) /\ Len(epoch) = Len(s) - 4 - slash
      <4>1. Len(epoch) = Len(s) - (slash + 1) - 3 /\ Len(behind) = Len(s) - 4 - slash
        BY <2>2, <3>4
      <4> HIDE DEF epoch, behind
      <4> QED
        BY <2>0, <4>1
    <3>6. ASSUME NEW k \in 1 .. Len(s) - 4 - slash PROVE epoch[k] = behind[k]
      <4>1. /\ k \in 1 .. Len(s) - (slash + 1) - 3
            /\ k \in 1 .. Len(rest) - 2 /\ 2 + k \in 1 .. Len(s) - 2 - slash
            /\ (slash + 1) + 3 + k = 2 + slash + (2 + k)
        BY <2>0
      <4>2. epoch[k] = s[(slash + 1) + 3 + k]
        BY <3>4, <4>1
      <4>3. behind[k] = rest[2 + k]
        BY <2>1, <4>1
      <4>4. rest[2 + k] = s[2 + slash + (2 + k)]
        BY <1>3, <1>4, <4>1
      <4> QED
        BY <4>1, <4>2, <4>3, <4>4
    <3>7. epoch \in Seq(Char) /\ behind \in Seq(Char)
      BY <2>1, <3>4 DEF Text
    <3>8. \A k \in 1 .. Len(epoch) : epoch[k] = behind[k]
      BY <3>5, <3>6
    <3> HIDE DEF epoch, behind
    <3>9. epoch = behind
      BY ONLY <3>5, <3>7, <3>8, SeqEqual
    <3> QED
      BY <3>3, <3>9 DEF epoch, behind
  <2> QED
    BY <1>3, <1>4, <2>2, <2>3, <2>4
<1>5. ASSUME NEW a, TokenAt(s, a)
      PROVE  parse_engine_alive_key(s, wanted) =
               IF OtherEngine(wanted, EngineIn(s, a)) THEN Nothing
                                                      ELSE ReadEpoch(EpochIn(s, a))
  <2>1. ~early /\ slash = a - 1 /\ a \in Int /\ Len(s) \in Nat /\ Len(s) >= a + 4
    BY <1>2, <1>5 DEF TokenAt, Text
  <2>2. slash + 1 = a /\ Len(s) >= slash + 5
    BY <2>1
  <2>3. StartsWith(rest, "alive")
    <3>1. s[a + 2] = "alive" /\ s[a + 3] = "/"
      BY <1>5 DEF TokenAt, Marked
    <3>2. /\ a + 2 = 2 + slash + 1 /\ a + 3 = 2 + slash + 2
          /\ 1 \in 1 .. Len(s) - 2 - slash /\ 2 \in 1 .. Len(s) - 2 - slash
      BY <2>1
    <3>3. Len(rest) >= 2
      BY <1>3, <2>1
    <3> QED
      BY <1>3, <2>1, <3>1, <3>2, <3>3 DEF StartsWith
  <2>4. ~(Len(s) < slash + 5)
    BY <2>1
  <2>5. Behind(rest) # <<>> /\ Behind(rest) = EpochIn(s, a)
    BY <1>4, <2>1, <2>2, <2>3, <2>4
  <2>6. chunk = EngineIn(s, a)
    BY <1>3, <2>1, <2>2
  <2> QED
    BY <1>1, <2>1, <2>3, <2>5, <2>6
<1>6. ASSUME ~ \E a : TokenAt(s, a) PROVE parse_engine_alive_key(s, wanted) = Nothing
  <2>1. ~early /\ StartsWith(rest, "alive") => Behind(rest) = <<>>
    <3>1. SUFFICES ASSUME ~early, StartsWith(rest, "alive") PROVE Behind(rest) = <<>>
      OBVIOUS
    <3>2. Len(s) < slash + 5 \/ Len(s) >= slash + 5
      BY <1>3, <3>1
    <3> QED
      BY <1>4, <1>6, <3>1, <3>2
  <2> QED
    BY <1>1, <2>1
<1> QED
  BY <1>5, <1>6

---------------------------------------------------------------------------
(* Every reachable state is a key.                                         *)
LEMMA StringsAreText ==
  ASSUME NEW s \in Seq(STRING) PROVE s \in Text
BY DEF Text, Char

LEMMA Keyed == Spec => [](key \in Text)
<1> DEFINE Inv == family \in DOMAIN Family /\ key \in Text
<1>1. Init => Inv
  BY ConstantsOK, StringsAreText DEF Init, ConstantsOK
<1>2. Inv /\ [Next]_<<family, key>> => Inv'
  <2> SUFFICES ASSUME Inv, [Next]_<<family, key>> PROVE Inv'
    OBVIOUS
  <2>1. ASSUME NEW piece \in Family[family].piece, Extend(piece) PROVE Inv'
    <3>1. piece \in Text
      BY ConstantsOK, StringsAreText DEF ConstantsOK
    <3>2. key \o piece \in Text
      BY <3>1, ConcatProperties DEF Text
    <3> QED
      BY <2>1, <3>2 DEF Extend
  <2>2. CASE UNCHANGED <<family, key>>
    BY <2>2
  <2> QED
    BY <2>1, <2>2 DEF Next
<1>3. Inv => key \in Text
  OBVIOUS
<1> QED
  BY <1>1, <1>2, <1>3, PTL DEF Spec

(* A key is read as an epoch exactly when it is a token whose last chunks  *)
(* are digits of a number up to MaxEpoch, and as that number: the guard    *)
(* against overflow loses none and lets none wrap, for an unsigned of any  *)
(* width (parse_engine_alive_key).                                         *)
THEOREM EpochsRead == Spec => []EpochsAreExact
<1>1. ASSUME key \in Text PROVE EpochsAreExact
  <2> SUFFICES ASSUME NEW wanted \in EngineId \cup {<<>>}
               PROVE
        LET Splits(a) ==
              /\ key = engine_key(SubSeq(key, 3, a),
                                  Under(<<"alive">>, SubSeq(key, a + 4, Len(key))))
              /\ \A i \in 3 .. a : key[i] # "/"
              /\ \A i \in a + 4 .. Len(key) : key[i] \in Digit
              /\ wanted \in {<<>>, SubSeq(key, 3, a)}
            written == {Value(SubSeq(key, a + 4, Len(key))) :
                          a \in {b \in 3 .. Len(key) - 4 : Splits(b)}}
        IN  parse_engine_alive_key(key, wanted) =
              IF written \cap 0 .. MaxEpoch = {} THEN Nothing ELSE First(written)
    BY DEF EpochsAreExact
  <2> DEFINE Splits(a) ==
        /\ key = engine_key(SubSeq(key, 3, a),
                            Under(<<"alive">>, SubSeq(key, a + 4, Len(key))))
        /\ \A i \in 3 .. a : key[i] # "/"
        /\ \A i \in a + 4 .. Len(key) : key[i] \in Digit
        /\ wanted \in {<<>>, SubSeq(key, 3, a)}
             at == {b \in 3 .. Len(key) - 4 : Splits(b)}
             written == {Value(SubSeq(key, a + 4, Len(key))) : a \in at}
             parsed == parse_engine_alive_key(key, wanted)
  <2>1. \A a : a \in at <=>
          /\ TokenAt(key, a) /\ ~OtherEngine(wanted, EngineIn(key, a))
          /\ \A i \in a + 4 .. Len(key) : key[i] \in Digit
    <3>1. ASSUME NEW a \in 3 .. Len(key) - 4
          PROVE  key = engine_key(SubSeq(key, 3, a),
                                  Under(<<"alive">>, SubSeq(key, a + 4, Len(key))))
                   <=> Marked(key, a)
      BY <1>1, TokenShape DEF Token, EngineIn, EpochIn
    <3>2. ASSUME NEW a
          PROVE  wanted \in {<<>>, SubSeq(key, 3, a)}
                   <=> ~OtherEngine(wanted, EngineIn(key, a))
      BY DEF OtherEngine, EngineIn
    <3> QED
      BY <3>1, <3>2 DEF TokenAt
  <2>2. written = {Value(EpochIn(key, a)) : a \in at}
    BY DEF EpochIn
  <2> HIDE DEF at, written
  <2>3. ASSUME NEW a, TokenAt(key, a)
        PROVE  parsed = IF written \cap 0 .. MaxEpoch = {} THEN Nothing ELSE First(written)
    <3> DEFINE epoch == EpochIn(key, a)
               other == OtherEngine(wanted, EngineIn(key, a))
               digits == \A i \in a + 4 .. Len(key) : key[i] \in Digit
    <3>1. parsed = IF other THEN Nothing ELSE ReadEpoch(epoch)
      BY <1>1, <2>3, ParseIs
    <3>2. at = IF other \/ ~digits THEN {} ELSE {a}
      <4>1. \A b \in at : b = a
        BY <1>1, <2>1, <2>3, OneToken
      <4>2. a \in at <=> ~other /\ digits
        BY <2>1, <2>3
      <4> HIDE DEF other, digits
      <4> QED
        BY <4>1, <4>2
    <3>3. /\ a \in 3 .. Len(key) - 4 /\ Len(key) \in Nat
          /\ epoch \in Text /\ Len(epoch) = Len(key) - a - 3
          /\ \A k \in 1 .. Len(key) - a - 3 : epoch[k] = key[a + 3 + k]
      BY <1>1, <2>3, PartsOfToken DEF TokenAt, Text
    <3>4. digits <=> \A i \in 1 .. Len(epoch) : epoch[i] \in Digit
      <4>1. \A i \in 1 .. Len(epoch) :
              a + 3 + i \in a + 4 .. Len(key) /\ epoch[i] = key[a + 3 + i]
        BY <3>3
      <4>2. \A i \in a + 4 .. Len(key) :
              /\ i - a - 3 \in 1 .. Len(epoch) /\ a + 3 + (i - a - 3) = i
        BY <3>3
      <4>3. \A i \in a + 4 .. Len(key) : epoch[i - a - 3] = key[i]
        BY <4>1, <4>2
      <4> QED
        BY <4>1, <4>2, <4>3
    <3> HIDE DEF epoch, other, digits
    <3>5. CASE other \/ ~digits
      <4>1. written = {}
        BY <2>2, <3>2, <3>5
      <4>2. ~digits => ReadEpoch(epoch) = Nothing
        BY <3>3, <3>4, EpochIsValue
      <4> QED
        BY <3>1, <3>5, <4>1, <4>2
    <3>6. CASE ~other /\ digits
      <4>1. written = {Value(epoch)}
        BY <2>2, <3>2, <3>6 DEF epoch
      <4>2. /\ Value(epoch) \in Nat
            /\ ReadEpoch(epoch) = IF Value(epoch) <= MaxEpoch THEN Value(epoch) ELSE Nothing
        BY <3>3, <3>4, <3>6, EpochIsValue
      <4>3. MaxEpoch \in Nat
        BY ConstantsOK DEF ConstantsOK
      <4>4. First(written) = Value(epoch)
        <5> DEFINE v == Value(epoch)
        <5>1. v \in Nat /\ v <= v
          BY <4>2
        <5> HIDE DEF v
        <5>2. {v} \in SUBSET Nat /\ v \in {v} /\ \A y \in {v} : v <= y
          BY <5>1
        <5>3. First({v}) = v
          BY <5>2, FirstIs
        <5> QED
          BY <4>1, <5>3 DEF v
      <4>5. written \cap 0 .. MaxEpoch = {} <=> ~(Value(epoch) <= MaxEpoch)
        BY <4>1, <4>2, <4>3
      <4> QED
        BY <3>1, <3>6, <4>2, <4>4, <4>5
    <3> QED
      BY <3>5, <3>6
  <2>4. ASSUME ~ \E a : TokenAt(key, a)
        PROVE  parsed = IF written \cap 0 .. MaxEpoch = {} THEN Nothing ELSE First(written)
    <3>1. parsed = Nothing
      BY <1>1, <2>4, ParseIs
    <3>2. written = {}
      BY <2>1, <2>2, <2>4
    <3> QED
      BY <3>1, <3>2
  <2> QED
    BY <2>3, <2>4 DEF written, at
<1> QED
  BY <1>1, Keyed, PTL

---------------------------------------------------------------------------
(* Writing a number, and reading it back.                                  *)

\* What a recursion over the naturals is made of, and what solves it.
Descending(V, low, base, step, down) ==
  /\ base \in [Nat -> V] /\ step \in [Nat -> [V -> V]]
  /\ low \in Nat /\ down \in [Nat -> Nat]
  /\ \A n \in Nat : n >= low => down[n] < n

Solves(f, V, low, base, step, down) ==
  /\ f \in [Nat -> V]
  /\ \A n \in Nat : f[n] = IF n < low THEN base[n] ELSE step[n][f[down[n]]]

(* There is a function for a recursion that goes down to a smaller number  *)
(* until there is a base: one on each 0 .. n, and they agree.              *)
LEMMA Descent ==
  ASSUME NEW V, NEW low, NEW base, NEW step, NEW down,
         Descending(V, low, base, step, down)
  PROVE  \E f : Solves(f, V, low, base, step, down)
<1> USE DEF Descending
<1> DEFINE Rule(f, i) == f[i] = IF i < low THEN base[i] ELSE step[i][f[down[i]]]
           Runs(n) == {f \in [0 .. n -> V] : \A i \in 0 .. n : Rule(f, i)}
           S == {n \in Nat : Runs(n) # {}}
<1>1. ASSUME NEW n \in Nat, NEW m \in Nat, NEW f \in Runs(n), NEW h \in Runs(m),
             NEW k \in 0 .. n, k \in 0 .. m
      PROVE  f[k] = h[k]
  <2> DEFINE T == {i \in Nat : i \in 0 .. n /\ i \in 0 .. m /\ f[i] # h[i]}
  <2>0. k \in Nat
    OBVIOUS
  <2>1. SUFFICES ASSUME T # {} PROVE FALSE
    BY <1>1, <2>0
  <2>2. T \in SUBSET Nat
    OBVIOUS
  <2> HIDE DEF T
  <2>3. PICK i \in T : \A j \in T : i <= j
    BY <2>1, <2>2, Least
  <2>4. i \in Nat /\ i \in 0 .. n /\ i \in 0 .. m /\ f[i] # h[i]
    BY <2>3 DEF T
  <2>5. Rule(f, i) /\ Rule(h, i)
    BY <1>1, <2>4
  <2>6. i >= low
    BY <2>4, <2>5
  <2>7. down[i] \in Nat /\ down[i] < i
    BY <2>4, <2>6, SMTT(20)
  <2>8. down[i] \in 0 .. n /\ down[i] \in 0 .. m /\ ~(i <= down[i])
    BY <2>4, <2>7, SMTT(20)
  <2>9. f[down[i]] = h[down[i]]
    BY <2>3, <2>7, <2>8 DEF T
  <2> QED
    BY <2>4, <2>5, <2>9
<1>2. 0 \in S
  <2> DEFINE f == [i \in 0 .. 0 |-> IF 0 < low THEN base[0] ELSE step[0][base[0]]]
  <2>1. low > 0
    <3>1. low = 0 => down[0] < 0 /\ down[0] \in Nat
      OBVIOUS
    <3> QED
      BY <3>1
  <2>2. f \in [0 .. 0 -> V] /\ f[0] = base[0]
    BY <2>1
  <2> HIDE DEF f
  <2>3. \A i \in 0 .. 0 : Rule(f, i)
    BY <2>1, <2>2
  <2> QED
    BY <2>2, <2>3
<1>3. ASSUME NEW n \in Nat, n \in S PROVE n + 1 \in S
  <2>1. PICK f \in Runs(n) : TRUE
    BY <1>3
  <2>2. f \in [0 .. n -> V] /\ \A i \in 0 .. n : Rule(f, i)
    BY <2>1
  <2> DEFINE new == IF n + 1 < low THEN base[n + 1] ELSE step[n + 1][f[down[n + 1]]]
             g == [i \in 0 .. n + 1 |-> IF i <= n THEN f[i] ELSE new]
  <2>3. n + 1 >= low => down[n + 1] \in 0 .. n
    <3>1. n + 1 \in Nat
      OBVIOUS
    <3>2. n + 1 >= low => down[n + 1] < n + 1 /\ down[n + 1] \in Nat
      BY <3>1
    <3> QED
      BY <3>2
  <2>4. new \in V
    <3>1. CASE n + 1 < low
      BY <3>1
    <3>2. CASE ~(n + 1 < low)
      <4>1. f[down[n + 1]] \in V
        BY <2>2, <2>3, <3>2
      <4> QED
        BY <3>2, <4>1
    <3> QED
      BY <3>1, <3>2
  <2> HIDE DEF new
  <2>5. g \in [0 .. n + 1 -> V] /\ (\A i \in 0 .. n : g[i] = f[i]) /\ g[n + 1] = new
    BY <2>2, <2>4
  <2> HIDE DEF g
  <2>6. ASSUME NEW i \in 0 .. n PROVE Rule(g, i)
    <3>1. i >= low => down[i] \in 0 .. n
      <4>1. i >= low => down[i] < i /\ down[i] \in Nat
        OBVIOUS
      <4> QED
        BY <4>1
    <3>2. i < low \/ i >= low
      OBVIOUS
    <3> QED
      BY <2>2, <2>5, <3>1, <3>2
  <2>7. Rule(g, n + 1)
    <3>1. CASE n + 1 < low
      BY <2>5, <3>1 DEF new
    <3>2. CASE ~(n + 1 < low)
      <4>1. g[down[n + 1]] = f[down[n + 1]]
        BY <2>3, <2>5, <3>2
      <4> QED
        BY <2>5, <3>2, <4>1 DEF new
    <3> QED
      BY <3>1, <3>2
  <2>8. \A i \in 0 .. n + 1 : Rule(g, i)
    <3>1. \A i \in 0 .. n + 1 : i \in 0 .. n \/ i = n + 1
      OBVIOUS
    <3> HIDE DEF Rule
    <3> QED
      BY <2>6, <2>7, <3>1
  <2>9. g \in Runs(n + 1) /\ n + 1 \in Nat
    BY <2>5, <2>8
  <2> HIDE DEF Runs
  <2> QED
    BY <2>9
<1>4. \A n \in Nat : Runs(n) # {}
  <2>1. ASSUME NEW n \in Nat PROVE Runs(n) # {}
    <3> HIDE DEF S
    <3>1. \A i \in 0 .. n : i \in S
      BY <1>2, <1>3, Induction
    <3>2. n \in S
      BY <3>1
    <3> QED
      BY <3>2 DEF S
  <2> QED
    BY <2>1
<1> DEFINE run(n) == CHOOSE f \in Runs(n) : TRUE
           F == [n \in Nat |-> run(n)[n]]
<1>5. ASSUME NEW n \in Nat PROVE run(n) \in Runs(n)
  BY <1>4
<1> HIDE DEF run
<1>6. F \in [Nat -> V]
  <2>1. ASSUME NEW n \in Nat PROVE run(n)[n] \in V
    BY <1>5
  <2> QED
    BY <2>1
<1>7. ASSUME NEW n \in Nat
      PROVE  F[n] = IF n < low THEN base[n] ELSE step[n][F[down[n]]]
  <2>1. Rule(run(n), n) /\ F[n] = run(n)[n]
    BY <1>5
  <2>2. CASE n < low
    BY <2>1, <2>2
  <2>3. CASE ~(n < low)
    <3>1. down[n] \in Nat /\ down[n] < n
      BY <2>3
    <3>2. down[n] \in 0 .. n /\ down[n] \in 0 .. down[n]
      BY <3>1
    <3>3. run(n)[down[n]] = run(down[n])[down[n]]
      <4> HIDE DEF Runs
      <4> QED
        BY <1>1, <1>5, <3>1, <3>2
    <3>4. F[down[n]] = run(down[n])[down[n]]
      BY <3>1
    <3> QED
      BY <2>1, <2>3, <3>3, <3>4
  <2> QED
    BY <2>2, <2>3
<1> QED
  BY <1>6, <1>7 DEF Solves

\* The digit that stands for a number below ten.
Numeral(m) == CHOOSE d \in Digit : DigitOf[d] = m

LEMMA Numerals ==
  /\ \A m \in 0 .. 9 : Numeral(m) \in Digit
  /\ \A d \in Digit : Numeral(DigitOf[d]) = d
<1>1. \A m \in 0 .. 9 : \E d \in Digit : DigitOf[d] = m
  BY DEF Digit, DigitOf
<1>2. \A c, d \in Digit : DigitOf[c] = DigitOf[d] => c = d
  BY DEF Digit, DigitOf
<1>3. \A m \in 0 .. 9 : Numeral(m) \in Digit /\ DigitOf[Numeral(m)] = m
  BY <1>1 DEF Numeral
<1> QED
  BY <1>2, <1>3, Digits

LEMMA DecimalIs ==
  \A n \in Nat :
    /\ Decimal[n] \in Text
    /\ Decimal[n] = IF n < 10 THEN <<Numeral(n % 10)>>
                    ELSE Decimal[n \div 10] \o <<Numeral(n % 10)>>
<1> DEFINE Rule(f) ==
      f = [n \in Nat |-> IF n < 10 THEN <<Numeral(n % 10)>>
                         ELSE f[n \div 10] \o <<Numeral(n % 10)>>]
           base == [n \in Nat |-> <<Numeral(n % 10)>>]
           step == [n \in Nat |-> [t \in Text |-> t \o <<Numeral(n % 10)>>]]
           down == [n \in Nat |-> n \div 10]
           low == 10
<1>1. Decimal = CHOOSE f : Rule(f)
  BY DEF Decimal, Numeral
<1>2. \A n \in Nat : <<Numeral(n % 10)>> \in Text
  <2>1. ASSUME NEW n \in Nat PROVE Numeral(n % 10) \in Char
    <3>1. n % 10 \in 0 .. 9
      OBVIOUS
    <3> QED
      BY <3>1, Numerals DEF Char
  <2> QED
    BY <2>1 DEF Text
<1>3. base \in [Nat -> Text]
  BY <1>2
<1>4. step \in [Nat -> [Text -> Text]]
  <2>1. ASSUME NEW n \in Nat, NEW t \in Text PROVE t \o <<Numeral(n % 10)>> \in Text
    <3> DEFINE last == <<Numeral(n % 10)>>
    <3>1. last \in Text
      BY <1>2
    <3> HIDE DEF last
    <3>2. t \o last \in Text
      BY ONLY <3>1, t \in Text, ConcatProperties DEF Text
    <3> QED
      BY <3>2 DEF last
  <2> QED
    BY <2>1
<1>5. low \in Nat /\ down \in [Nat -> Nat] /\ \A n \in Nat : n >= low => down[n] < n
  OBVIOUS
<1>6. /\ \A n \in Nat : base[n] = <<Numeral(n % 10)>> /\ down[n] = n \div 10
      /\ \A n \in Nat : \A t \in Text : step[n][t] = t \o <<Numeral(n % 10)>>
  OBVIOUS
<1> HIDE DEF base, step, down, low
<1>7. PICK f : Solves(f, Text, low, base, step, down)
  <2>1. Descending(Text, low, base, step, down)
    BY <1>3, <1>4, <1>5 DEF Descending
  <2> QED
    BY <2>1, Descent
<1>8. Rule(f)
  <2>1. ASSUME NEW n \in Nat
        PROVE  f[n] = IF n < 10 THEN <<Numeral(n % 10)>>
                      ELSE f[n \div 10] \o <<Numeral(n % 10)>>
    <3>1. down[n] \in Nat /\ f[down[n]] \in Text
      BY <1>5, <1>7 DEF Solves
    <3>2. step[n][f[down[n]]] = f[n \div 10] \o <<Numeral(n % 10)>>
      BY <1>6, <3>1
    <3> QED
      BY <1>6, <1>7, <3>2 DEF low, Solves
  <2> QED
    BY <1>7, <2>1 DEF Solves
<1>9. Rule(Decimal)
  BY <1>1, <1>8
<1>10. ASSUME NEW n \in Nat
       PROVE  Decimal[n] = IF n < 10 THEN <<Numeral(n % 10)>>
                           ELSE Decimal[n \div 10] \o <<Numeral(n % 10)>>
  BY <1>9
<1> HIDE DEF Rule
<1> DEFINE T == {n \in Nat : Decimal[n] \notin Text}
<1>11. T = {}
  <2>1. SUFFICES ASSUME T # {} PROVE FALSE
    OBVIOUS
  <2>2. T \in SUBSET Nat
    OBVIOUS
  <2> HIDE DEF T
  <2>3. PICK n \in T : \A m \in T : n <= m
    BY <2>1, <2>2, Least
  <2>4. n \in Nat /\ Decimal[n] \notin Text
    BY <2>3 DEF T
  <2>5. CASE n < 10
    BY <1>2, <1>10, <2>4, <2>5
  <2>6. CASE ~(n < 10)
    <3>1. n \div 10 \in Nat /\ ~(n <= n \div 10)
      BY <2>4, <2>6
    <3>2. Decimal[n \div 10] \in Text
      BY <2>3, <3>1 DEF T
    <3>3. step[n][Decimal[n \div 10]] \in Text
      BY <1>4, <2>4, <3>2
    <3> QED
      BY <1>6, <1>10, <2>4, <2>6, <3>2, <3>3
  <2> QED
    BY <2>5, <2>6
<1> QED
  BY <1>10, <1>11

(* Digits without a leading zero are what to_string makes of their number. *)
LEMMA DecimalOfValue ==
  ASSUME NEW t \in Text, Len(t) >= 1, \A i \in 1 .. Len(t) : t[i] \in Digit,
         t[1] # "zero"
  PROVE  Decimal[Value(t)] = t
<1>0. Len(t) \in Nat /\ 1 \in 1 .. Len(t)
  BY DEF Text
<1>1. PICK value \in [0 .. Len(t) -> Nat] :
        /\ Value(t) = value[Len(t)] /\ value[0] = 0
        /\ \A i \in 1 .. Len(t) : value[i] = value[i - 1] * 10 + DigitOf[t[i]]
  BY ValueRuns
<1> DEFINE upto(i) == SubSeq(t, 1, i)
           S == {n \in 0 .. Len(t) - 1 :
                   value[n + 1] >= 1 /\ Decimal[value[n + 1]] = upto(n + 1)}
<1>2. ASSUME NEW i \in 1 .. Len(t)
      PROVE  /\ upto(i) \in Text /\ Len(upto(i)) = i
             /\ \A k \in 1 .. i : upto(i)[k] = t[k]
  <2>1. /\ 1 \in 1 .. Len(t) + 1 /\ i \in 1 - 1 .. Len(t) /\ i - 1 + 1 = i
        /\ \A k \in 1 .. i : 1 + k - 1 = k
    BY <1>0
  <2>2. /\ upto(i) \in Text /\ Len(upto(i)) = i - 1 + 1
        /\ \A k \in 1 .. i - 1 + 1 : upto(i)[k] = t[1 + k - 1]
    BY <2>1, Part
  <2> QED
    BY <2>1, <2>2
<1> HIDE DEF upto
<1>3. ASSUME NEW i \in 1 .. Len(t) PROVE <<t[i]>> \in Text /\ t[i] \in Char
  BY DEF Text
<1>4. 0 \in S
  <2>1. PICK d \in 0 .. 9 : d = DigitOf[t[1]]
    BY <1>0, Digits
  <2>2. d # 0
    BY <1>0, <2>1 DEF Digit, DigitOf
  <2>3. value[1] = d
    BY <1>0, <1>1, <2>1
  <2>4. Decimal[d] = <<Numeral(d % 10)>> /\ d % 10 = d
    <3>1. d \in Nat /\ d < 10 /\ d % 10 = d
      OBVIOUS
    <3> QED
      BY <3>1, DecimalIs
  <2>5. Decimal[value[1]] = <<t[1]>>
    BY <1>0, <2>1, <2>3, <2>4, Numerals
  <2>6. <<t[1]>> = upto(1)
    <3> DEFINE one == <<t[1]>>
    <3>1. one \in Text /\ Len(one) = 1 /\ one[1] = t[1]
      BY <1>0, <1>3
    <3>2. upto(1) \in Text /\ Len(upto(1)) = 1 /\ upto(1)[1] = t[1]
      <4>1. 1 \in 1 .. 1
        OBVIOUS
      <4> QED
        BY <1>0, <1>2, <4>1
    <3> HIDE DEF one
    <3>3. \A k \in 1 .. Len(one) : one[k] = upto(1)[k]
      BY <3>1, <3>2
    <3>4. one = upto(1)
      BY ONLY <3>1, <3>2, <3>3, SeqEqual DEF Text
    <3> QED
      BY <3>4 DEF one
  <2> QED
    BY <1>0, <2>1, <2>2, <2>3, <2>5, <2>6
<1>5. ASSUME NEW n \in Nat, n < Len(t) - 1, n \in S PROVE n + 1 \in S
  <2> DEFINE i == n + 1
             j == n + 2
  <2>1. i \in 1 .. Len(t) /\ j \in 1 .. Len(t) /\ j - 1 = i /\ i + 1 = j /\ i \in Nat
    BY <1>0, <1>5
  <2>2. value[i] \in Nat /\ value[i] >= 1 /\ Decimal[value[i]] = upto(i)
    <3>1. value[n + 1] >= 1 /\ Decimal[value[n + 1]] = upto(n + 1)
      BY <1>5
    <3>2. i \in 0 .. Len(t)
      BY <1>0, <2>1
    <3>3. value[i] \in Nat
      BY ONLY <3>2, value \in [0 .. Len(t) -> Nat]
    <3> QED
      BY <3>1, <3>3
  <2> HIDE DEF i, j
  <2>3. PICK d \in 0 .. 9 : d = DigitOf[t[j]]
    BY <2>1, Digits
  <2> DEFINE v == value[i]
             w == value[j]
  <2>4. w = v * 10 + d
    BY <1>1, <2>1, <2>3
  <2>5. v \in Nat /\ v >= 1
    BY <2>2
  <2> HIDE DEF v, w
  <2>6. w \in Nat /\ ~(w < 10) /\ w \div 10 = v /\ w % 10 = d
    BY <2>4, <2>5
  <2>7. Decimal[w] = Decimal[v] \o <<Numeral(d)>>
    BY <2>6, DecimalIs
  <2>8. Numeral(d) = t[j]
    BY <2>1, <2>3, Numerals
  <2>9. Decimal[w] = upto(i) \o <<t[j]>>
    BY <2>2, <2>7, <2>8 DEF v
  <2>10. upto(i) \o <<t[j]>> = upto(j)
    <3> DEFINE last == <<t[j]>>
               both == upto(i) \o last
    <3>1. last \in Text /\ Len(last) = 1 /\ last[1] = t[j]
      BY <1>3, <2>1
    <3>2. /\ upto(i) \in Text /\ Len(upto(i)) = i /\ upto(j) \in Text /\ Len(upto(j)) = j
          /\ (\A k \in 1 .. i : upto(i)[k] = t[k])
          /\ \A k \in 1 .. j : upto(j)[k] = t[k]
      BY <1>2, <2>1
    <3> HIDE DEF last
    <3>3. /\ both \in Text /\ Len(both) = Len(upto(i)) + Len(last)
          /\ \A k \in 1 .. Len(upto(i)) + Len(last) :
               both[k] = IF k <= Len(upto(i)) THEN upto(i)[k] ELSE last[k - Len(upto(i))]
      <4>1. upto(i) \in Text /\ last \in Text
        BY <3>1, <3>2
      <4> QED
        BY ONLY <4>1, ConcatProperties DEF Text
    <3> HIDE DEF both
    <3>4. Len(both) = j /\ Len(upto(i)) + Len(last) = j
      BY <2>1, <3>1, <3>2, <3>3
    <3>5. ASSUME NEW k \in 1 .. j PROVE both[k] = upto(j)[k]
      <4>1. CASE k \in 1 .. i
        <5>1. k <= i
          BY <4>1
        <5> QED
          BY <3>2, <3>3, <3>4, <4>1, <5>1
      <4>2. CASE k = j
        <5>1. ~(j <= i) /\ j - i = 1
          BY <2>1
        <5>2. both[j] = last[j - i]
          BY <3>2, <3>3, <3>4, <4>2, <5>1
        <5> QED
          BY <3>1, <3>2, <4>2, <5>1, <5>2
      <4>3. k \in 1 .. i \/ k = j
        BY <2>1
      <4> QED
        BY <4>1, <4>2, <4>3
    <3>6. \A k \in 1 .. Len(both) : both[k] = upto(j)[k]
      BY <3>4, <3>5
    <3>7. Len(both) = Len(upto(j))
      BY <3>2, <3>4
    <3>8. both = upto(j)
      BY ONLY <3>2, <3>3, <3>6, <3>7, SeqEqual DEF Text
    <3> QED
      BY <3>8 DEF both, last
  <2>11. w >= 1
    BY <2>4, <2>5
  <2>12. (n + 1) + 1 = j /\ n + 1 \in 0 .. Len(t) - 1
    BY <1>0, <1>5 DEF j
  <2> QED
    BY <2>9, <2>10, <2>11, <2>12 DEF w
<1> HIDE DEF S
<1>6. \A n \in 0 .. Len(t) - 1 : n \in S
  <2>1. Len(t) - 1 \in Nat
    BY <1>0
  <2> QED
    BY <1>4, <1>5, <2>1, Induction
<1>7. Decimal[value[Len(t)]] = upto(Len(t))
  <2>1. Len(t) - 1 \in 0 .. Len(t) - 1 /\ (Len(t) - 1) + 1 = Len(t)
    BY <1>0
  <2>2. Decimal[value[(Len(t) - 1) + 1]] = upto((Len(t) - 1) + 1)
    BY <1>6, <2>1 DEF S
  <2> QED
    BY <2>1, <2>2
<1>8. upto(Len(t)) = t
  <2>1. /\ upto(Len(t)) \in Text /\ Len(upto(Len(t))) = Len(t)
        /\ \A k \in 1 .. Len(t) : upto(Len(t))[k] = t[k]
    <3>1. Len(t) \in 1 .. Len(t)
      BY <1>0
    <3> QED
      BY <1>2, <3>1
  <2> QED
    BY ONLY <2>1, t \in Text, SeqEqual DEF Text
<1> QED
  BY <1>1, <1>7, <1>8

---------------------------------------------------------------------------
(* Keys chunk by chunk, from the end.                                      *)

\* A chunk: tokens none of which is a slash.
Plain(t) == t \in Text /\ \A i \in 1 .. Len(t) : t[i] # "/"

LEMMA Lone ==
  ASSUME NEW w \in Word
  PROVE  <<w>> \in Text /\ Len(<<w>>) = 1 /\ <<w>>[1] = w /\ Plain(<<w>>)
<1>1. w # "/"
  BY DEF Word
<1>2. <<w>> \in Text /\ Len(<<w>>) = 1 /\ <<w>>[1] = w
  BY DEF Text, Char
<1> QED
  BY <1>1, <1>2 DEF Plain

\* What is behind the last slash of a key, and what is before it.
LEMMA LastChunk ==
  ASSUME NEW p \in Text, NEW q \in Text, NEW t, Plain(t), NEW u, Plain(u),
         Under(p, t) = Under(q, u)
  PROVE  p = q /\ t = u
<1> DEFINE k == Under(p, t)
<1>0. Len(p) \in Nat /\ Len(q) \in Nat /\ Len(t) \in Nat /\ Len(u) \in Nat
  BY DEF Text, Plain
<1>1. /\ Len(k) = Len(p) + 1 + Len(t)
      /\ \A i \in 1 .. Len(p) : k[i] = p[i]
      /\ k[Len(p) + 1] = "/"
      /\ \A i \in 1 .. Len(t) : k[Len(p) + 1 + i] = t[i]
  BY UnderIs DEF Plain
<1>2. /\ Len(k) = Len(q) + 1 + Len(u)
      /\ \A i \in 1 .. Len(q) : k[i] = q[i]
      /\ k[Len(q) + 1] = "/"
      /\ \A i \in 1 .. Len(u) : k[Len(q) + 1 + i] = u[i]
  <2>1. k = Under(q, u) /\ u \in Text
    BY DEF Plain
  <2> HIDE DEF k
  <2> QED
    BY <2>1, UnderIs, ZenonT(30)
<1> HIDE DEF k
<1>3. ~(Len(p) < Len(q))
  <2> SUFFICES ASSUME Len(p) < Len(q) PROVE FALSE
    OBVIOUS
  <2> DEFINE j == Len(q) - Len(p)
  <2>1. j \in 1 .. Len(t) /\ Len(p) + 1 + j = Len(q) + 1
    BY <1>0, <1>1, <1>2
  <2> HIDE DEF j
  <2>2. t[j] = "/"
    BY <1>1, <1>2, <2>1
  <2> QED
    BY <2>1, <2>2 DEF Plain
<1>4. ~(Len(q) < Len(p))
  <2> SUFFICES ASSUME Len(q) < Len(p) PROVE FALSE
    OBVIOUS
  <2> DEFINE j == Len(p) - Len(q)
  <2>1. j \in 1 .. Len(u) /\ Len(q) + 1 + j = Len(p) + 1
    BY <1>0, <1>1, <1>2
  <2> HIDE DEF j
  <2>2. u[j] = "/"
    BY <1>1, <1>2, <2>1
  <2> QED
    BY <2>1, <2>2 DEF Plain
<1>5. Len(p) = Len(q) /\ Len(t) = Len(u)
  BY <1>0, <1>1, <1>2, <1>3, <1>4
<1>6. p = q
  <2>1. \A i \in 1 .. Len(p) : p[i] = q[i]
    BY <1>1, <1>2, <1>5
  <2> QED
    BY ONLY <1>5, <2>1, SeqEqual, p \in Text, q \in Text DEF Text
<1>7. t = u
  <2>1. \A i \in 1 .. Len(t) : t[i] = u[i]
    BY <1>1, <1>2, <1>5
  <2>2. t \in Text /\ u \in Text
    BY DEF Plain
  <2> QED
    BY ONLY <1>5, <2>1, <2>2, SeqEqual DEF Text
<1> QED
  BY <1>6, <1>7

\* A chunk has nothing before it.
LEMMA NotAlone ==
  ASSUME NEW p \in Text, NEW t \in Text, NEW w \in Word
  PROVE  Under(p, t) # <<w>>
<1> SUFFICES ASSUME Under(p, t) = <<w>> PROVE FALSE
  OBVIOUS
<1> DEFINE k == Under(p, t)
<1>1. Len(k) = Len(p) + 1 + Len(t) /\ k[Len(p) + 1] = "/"
  BY UnderIs
<1>2. Len(k) = 1 /\ k[1] = w /\ w # "/"
  BY Lone DEF Word
<1> HIDE DEF k
<1>3. Len(p) \in Nat /\ Len(t) \in Nat
  BY DEF Text
<1>4. Len(p) + 1 + Len(t) = 1
  BY <1>1, <1>2
<1>5. Len(p) + 1 = 1
  BY ONLY <1>3, <1>4
<1> QED
  BY <1>1, <1>2, <1>5

LEMMA JoinedIsText ==
  ASSUME NEW s \in Text, NEW t \in Text PROVE s \o t \in Text
BY ConcatProperties DEF Text

\* Named, so that a step that cites the fact for three texts does not unfold
\* it for others.
Regrouped(s, t, u) == (s \o t) \o u = s \o (t \o u)

LEMMA Joined ==
  ASSUME NEW s \in Text, NEW t \in Text, NEW u \in Text
  PROVE  Regrouped(s, t, u)
BY ConcatAssociative DEF Text, Regrouped

LEMMA UnderUnder ==
  ASSUME NEW p \in Text, NEW a \in Text, NEW b \in Text
  PROVE  Under(p, Under(a, b)) = Under(Under(p, a), b)
<1> DEFINE slash == <<"/">>
           ps == p \o slash
           as == a \o slash
<1>1. slash \in Text
  BY DEF Text, Char
<1>2. Under(p, Under(a, b)) = ps \o (as \o b) /\ Under(Under(p, a), b) = ((ps \o a) \o slash) \o b
  BY DEF Under
<1> HIDE DEF slash
<1>3. ps \in Text /\ as \in Text
  BY <1>1, JoinedIsText
<1>4. (ps \o a) \o slash = ps \o as
  <2> HIDE DEF ps
  <2>1. Regrouped(ps, a, slash)
    BY <1>1, <1>3, Joined
  <2> QED
    BY <2>1 DEF Regrouped
<1> HIDE DEF ps, as
<1>5. (ps \o as) \o b = ps \o (as \o b)
  <2>1. Regrouped(ps, as, b)
    BY <1>3, Joined
  <2> QED
    BY <2>1 DEF Regrouped
<1> QED
  BY <1>2, <1>4, <1>5

LEMMA PathIs ==
  ASSUME NEW v \in Word, NEW w \in Word
  PROVE  Under(<<v>>, <<w>>) = Path(v, w)
<1> DEFINE word == <<v>>
           last == <<w>>
           path == Path(v, w)
           u == Under(word, last)
<1>1. /\ word \in Text /\ Len(word) = 1 /\ word[1] = v
      /\ last \in Text /\ Len(last) = 1 /\ last[1] = w
  BY Lone
<1>2. /\ path \in Seq(Char) /\ Len(path) = 3
      /\ path[1] = v /\ path[2] = "/" /\ path[3] = w
  BY DEF Path, Char
<1> HIDE DEF word, last, path
<1>3. /\ u \in Text /\ Len(u) = Len(word) + 1 + Len(last)
      /\ \A i \in 1 .. Len(word) : u[i] = word[i]
      /\ u[Len(word) + 1] = "/"
      /\ \A i \in 1 .. Len(last) : u[Len(word) + 1 + i] = last[i]
  BY <1>1, UnderIs
<1> HIDE DEF u
<1>4. /\ u \in Seq(Char) /\ Len(u) = 3
      /\ u[1] = v /\ u[2] = "/" /\ u[3] = w
  <2>1. 1 \in 1 .. Len(word) /\ 1 \in 1 .. Len(last)
    BY <1>1
  <2>2. Len(word) + 1 = 2 /\ Len(word) + 1 + 1 = 3
    BY <1>1
  <2> QED
    BY <1>1, <1>3, <2>1, <2>2 DEF Text
<1>5. \A i \in 1 .. 3 : u[i] = path[i]
  BY <1>2, <1>4
<1>6. u = path
  BY ONLY <1>2, <1>4, <1>5, SeqEqual
<1> QED
  BY <1>6 DEF u, word, last, path

LEMMA Path3Is ==
  ASSUME NEW u \in Word, NEW v \in Word, NEW w \in Word
  PROVE  Path3(u, v, w) = Under(Under(<<u>>, <<v>>), <<w>>)
<1> DEFINE slash == <<"/">>
           last == <<w>>
           path == Path(u, v)
<1>1. slash \in Text /\ last \in Text /\ path \in Text
  BY Lone DEF Text, Char, Path
<1>2. <<"/", w>> = slash \o last
  OBVIOUS
<1>3. Path3(u, v, w) = path \o (slash \o last)
  BY <1>2 DEF Path3
<1> HIDE DEF slash, last, path
<1>4. (path \o slash) \o last = path \o (slash \o last)
  BY ONLY <1>1, ConcatAssociative DEF Text
<1> QED
  BY <1>3, <1>4, PathIs DEF Under, slash, last, path

---------------------------------------------------------------------------
(* Whose token it is.                                                      *)

LEMMA EngineIds ==
  ASSUME NEW e \in EngineId
  PROVE  /\ e \in Text /\ e # <<>> /\ Len(e) \in Nat /\ Len(e) >= 1
         /\ \A i \in 1 .. Len(e) : e[i] # "/"
<1>1. e \in Seq(STRING \ {"/"}) /\ e # <<>>
  BY ConstantsOK DEF ConstantsOK
<1>2. e \in Seq(Char)
  BY <1>1 DEF Char
<1>3. Len(e) \in Nat /\ Len(e) # 0
  BY <1>1
<1> QED
  BY <1>1, <1>2, <1>3 DEF Text

\* The pattern is a token with a star in the place of the epoch.
LEMMA PatternIs ==
  ASSUME NEW e \in EngineId
  PROVE  /\ Places(engine_alive_pattern(e), e, <<"*">>)
         /\ Len(engine_alive_pattern(e)) = Len(e) + 6
<1> DEFINE star == <<"*">>
<1>1. Under(<<"alive">>, <<"*">>) = Path("alive", "*")
  BY PathIs DEF Word
<1>2. engine_alive_pattern(e) = Token(e, <<"*">>)
  BY <1>1 DEF engine_alive_pattern, Token
<1>3. star \in Text /\ Len(star) = 1
  BY Lone DEF Word
<1> HIDE DEF star
<1>4. Places(Token(e, star), e, star)
  BY <1>3, EngineIds, TokenIs
<1>5. Len(Token(e, star)) = Len(e) + 6
  BY <1>3, <1>4, EngineIds DEF Places
<1> QED
  BY <1>2, <1>4, <1>5 DEF star

(* A key that matches an engine's pattern is a token of that engine.       *)
LEMMA MatchIsToken ==
  ASSUME NEW s \in Text, NEW e \in EngineId, Matches(s, engine_alive_pattern(e))
  PROVE  TokenAt(s, Len(e) + 2) /\ EngineIn(s, Len(e) + 2) = e
<1> DEFINE p == engine_alive_pattern(e)
           n == Len(e) + 5
           a == Len(e) + 2
<1>0. Len(e) \in Nat /\ Len(e) >= 1 /\ Len(s) \in Nat /\ e \in Text
  BY EngineIds DEF Text
<1>1. Places(p, e, <<"*">>) /\ Len(p) = Len(e) + 6 /\ p \in Text
  BY PatternIs DEF Places
<1>2. n = Len(p) - 1
  BY <1>0, <1>1
<1>3. Len(s) > n /\ SubSeq(s, 1, n) = SubSeq(p, 1, n)
  BY <1>2 DEF Matches
<1>4. \A k \in 1 .. n : s[k] = p[k]
  <2>1. /\ 1 \in 1 .. Len(s) + 1 /\ n \in 1 - 1 .. Len(s) /\ n - 1 + 1 = n
        /\ 1 \in 1 .. Len(p) + 1 /\ n \in 1 - 1 .. Len(p)
        /\ \A k \in 1 .. n : 1 + k - 1 = k
    BY <1>0, <1>1, <1>3
  <2>2. \A k \in 1 .. n - 1 + 1 : SubSeq(s, 1, n)[k] = s[1 + k - 1]
    BY <2>1, Part
  <2>3. \A k \in 1 .. n - 1 + 1 : SubSeq(p, 1, n)[k] = p[1 + k - 1]
    BY <1>1, <2>1, Part
  <2>4. ASSUME NEW k \in 1 .. n PROVE s[k] = p[k]
    <3>1. k \in 1 .. n - 1 + 1 /\ 1 + k - 1 = k
      BY <2>1
    <3> HIDE DEF n, p
    <3>2. SubSeq(s, 1, n)[k] = s[k] /\ SubSeq(p, 1, n)[k] = p[k]
      BY <2>2, <2>3, <3>1
    <3> QED
      BY <1>3, <3>2
  <2> QED
    BY <2>4
<1>5. /\ p[1] = "sqe" /\ p[2] = "/" /\ \A i \in 1 .. Len(e) : p[2 + i] = e[i]
      /\ p[Len(e) + 3] = "/" /\ p[Len(e) + 4] = "alive" /\ p[Len(e) + 5] = "/"
  BY <1>1 DEF Places
<1>6. /\ 1 \in 1 .. n /\ 2 \in 1 .. n /\ Len(e) + 3 \in 1 .. n
      /\ Len(e) + 4 \in 1 .. n /\ Len(e) + 5 \in 1 .. n
      /\ \A i \in 1 .. Len(e) : 2 + i \in 1 .. n
      /\ a + 1 = Len(e) + 3 /\ a + 2 = Len(e) + 4 /\ a + 3 = Len(e) + 5
      /\ a \in 3 .. Len(s) - 4 /\ a - 2 = Len(e)
  BY <1>0, <1>3
<1> HIDE DEF p, n, a
<1>7. Marked(s, a) /\ \A i \in 1 .. Len(e) : s[2 + i] = e[i]
  BY <1>4, <1>5, <1>6 DEF Marked
<1>8. \A i \in 3 .. a : s[i] # "/"
  <2>1. ASSUME NEW i \in 3 .. a PROVE s[i] # "/"
    <3>1. i - 2 \in 1 .. Len(e) /\ 2 + (i - 2) = i
      BY <1>0, <1>6
    <3>2. e[i - 2] # "/" /\ s[2 + (i - 2)] = e[i - 2]
      BY <1>7, <3>1, EngineIds
    <3> QED
      BY <3>1, <3>2
  <2> QED
    BY <2>1
<1>9. EngineIn(s, a) = e
  <2>1. /\ EngineIn(s, a) \in Text /\ Len(EngineIn(s, a)) = a - 2
        /\ \A k \in 1 .. a - 2 : EngineIn(s, a)[k] = s[2 + k]
    BY <1>6, PartsOfToken
  <2>2. /\ Len(EngineIn(s, a)) = Len(e)
        /\ \A k \in 1 .. Len(EngineIn(s, a)) : EngineIn(s, a)[k] = e[k]
    BY <1>6, <1>7, <2>1
  <2> QED
    BY ONLY <1>0, <2>1, <2>2, SeqEqual DEF Text
<1> QED
  BY <1>6, <1>7, <1>8, <1>9 DEF TokenAt, a

(* A token of an engine, with digits for its epoch, matches its pattern.   *)
LEMMA TokenMatches ==
  ASSUME NEW s \in Text, NEW e \in EngineId, NEW a, TokenAt(s, a), EngineIn(s, a) = e,
         \A i \in a + 4 .. Len(s) : s[i] \in Digit
  PROVE  Matches(s, engine_alive_pattern(e))
<1> DEFINE p == engine_alive_pattern(e)
           n == Len(p) - 1
<1>0. /\ Len(e) \in Nat /\ Len(s) \in Nat /\ e \in Text /\ a \in 3 .. Len(s) - 4
  BY EngineIds DEF Text, TokenAt
<1>1. Places(p, e, <<"*">>) /\ Len(p) = Len(e) + 6 /\ p \in Text
  BY PatternIs DEF Places
<1>2. /\ a - 2 = Len(e) /\ n = a + 3
      /\ \A k \in 1 .. a - 2 : e[k] = s[2 + k]
  <2>1. Len(e) = a - 2 /\ \A k \in 1 .. a - 2 : e[k] = s[2 + k]
    BY <1>0, PartsOfToken
  <2> QED
    BY <1>0, <1>1, <2>1
<1>3. Marked(s, a)
  BY DEF TokenAt
<1>4. /\ p[1] = "sqe" /\ p[2] = "/" /\ \A i \in 1 .. Len(e) : p[2 + i] = e[i]
      /\ p[a + 1] = "/" /\ p[a + 2] = "alive" /\ p[a + 3] = "/"
  <2>1. Len(e) + 3 = a + 1 /\ Len(e) + 4 = a + 2 /\ Len(e) + 5 = a + 3
    BY <1>0, <1>2
  <2> QED
    BY <1>1, <2>1 DEF Places
<1> HIDE DEF p, n
<1>5. ASSUME NEW k \in 1 .. n PROVE s[k] = p[k]
  <2>1. CASE k \in 3 .. a
    <3>1. PICK j \in 1 .. a - 2 : k = 2 + j
      <4>1. k - 2 \in 1 .. a - 2 /\ k = 2 + (k - 2)
        BY <1>0, <2>1
      <4> QED
        BY <4>1
    <3> QED
      BY <1>2, <1>4, <3>1
  <2>2. CASE k \in {1, 2, a + 1, a + 2, a + 3}
    BY <1>3, <1>4, <2>2 DEF Marked
  <2>3. k \in 3 .. a \/ k \in {1, 2, a + 1, a + 2, a + 3}
    BY <1>0, <1>2
  <2> QED
    BY <2>1, <2>2, <2>3
<1>6. /\ n \in Nat /\ Len(s) > n /\ Len(p) >= n
      /\ 1 \in 1 .. Len(s) + 1 /\ n \in 1 - 1 .. Len(s) /\ n - 1 + 1 = n
      /\ 1 \in 1 .. Len(p) + 1 /\ n \in 1 - 1 .. Len(p)
      /\ \A k \in 1 .. n : 1 + k - 1 = k
  BY <1>0, <1>1, <1>2
<1>7. SubSeq(s, 1, n) = SubSeq(p, 1, n)
  <2> DEFINE u == SubSeq(s, 1, n)
             v == SubSeq(p, 1, n)
  <2>1. /\ u \in Text /\ Len(u) = n - 1 + 1
        /\ \A k \in 1 .. n - 1 + 1 : u[k] = s[1 + k - 1]
    BY <1>6, Part
  <2>2. /\ v \in Text /\ Len(v) = n - 1 + 1
        /\ \A k \in 1 .. n - 1 + 1 : v[k] = p[1 + k - 1]
    BY <1>1, <1>6, Part
  <2> HIDE DEF u, v
  <2>3. Len(u) = Len(v) /\ Len(u) = n
    BY <1>6, <2>1, <2>2
  <2>4. ASSUME NEW k \in 1 .. n PROVE u[k] = v[k]
    <3>1. u[k] = s[k] /\ v[k] = p[k]
      BY <1>6, <2>1, <2>2
    <3> QED
      BY <1>5, <3>1
  <2>5. \A k \in 1 .. Len(u) : u[k] = v[k]
    BY <2>3, <2>4
  <2>6. u = v
    BY ONLY <2>1, <2>2, <2>3, <2>5, SeqEqual DEF Text
  <2> QED
    BY <2>6 DEF u, v
<1>8. \A i \in n + 1 .. Len(s) : s[i] # "/"
  <2>1. "/" \notin Digit
    BY DEF Digit, DigitOf
  <2>2. \A i \in n + 1 .. Len(s) : i \in a + 4 .. Len(s)
    BY <1>0, <1>2
  <2> QED
    BY <2>1, <2>2
<1> QED
  BY <1>6, <1>7, <1>8 DEF Matches, p, n

(* A key read as an epoch of one engine is that engine's token and no      *)
(* other's, is among those its pattern subscribes to, and is what          *)
(* composing it again gives unless it has leading zeros: for engine ids    *)
(* and epochs of any length (parse_engine_alive_key, engine_alive_key,     *)
(* engine_alive_pattern).                                                  *)
THEOREM TokensApart == Spec => []TokensTellEnginesApart
<1>1. ASSUME key \in Text, NEW engine \in EngineId,
             parse_engine_alive_key(key, engine) # Nothing
      PROVE  LET epoch == parse_engine_alive_key(key, engine)
             IN  /\ \A other \in EngineId :
                      /\ Matches(key, engine_alive_pattern(other)) <=> other = engine
                      /\ other # engine => parse_engine_alive_key(key, other) = Nothing
                 /\ key = engine_alive_key(engine, epoch) \/ key[Len(engine) + 6] = "zero"
  <2>1. PICK a : TokenAt(key, a)
    BY <1>1, ParseIs
  <2>2. \A wanted : parse_engine_alive_key(key, wanted) =
                      IF OtherEngine(wanted, EngineIn(key, a)) THEN Nothing
                                                               ELSE ReadEpoch(EpochIn(key, a))
    BY <1>1, <2>1, ParseIs
  <2>3. EngineIn(key, a) = engine /\ ReadEpoch(EpochIn(key, a)) # Nothing
    BY <1>1, <2>2, EngineIds DEF OtherEngine
  <2> DEFINE epoch == EpochIn(key, a)
  <2>4. /\ a \in 3 .. Len(key) - 4 /\ Len(key) \in Nat
        /\ Len(engine) = a - 2
        /\ epoch \in Text /\ Len(epoch) = Len(key) - a - 3
        /\ \A k \in 1 .. Len(key) - a - 3 : epoch[k] = key[a + 3 + k]
    BY <1>1, <2>1, <2>3, PartsOfToken DEF TokenAt, Text
  <2>5. key = Token(engine, epoch)
    BY <1>1, <2>1, <2>3, <2>4, TokenShape DEF TokenAt
  <2>6. parse_engine_alive_key(key, engine) = ReadEpoch(epoch) /\ ReadEpoch(epoch) # Nothing
    BY <1>1, <2>2, <2>3
  <2> HIDE DEF epoch
  <2>7. /\ \A i \in 1 .. Len(epoch) : epoch[i] \in Digit
        /\ ReadEpoch(epoch) = Value(epoch)
    BY <2>4, <2>6, EpochIsValue
  <2>8. \A i \in a + 4 .. Len(key) : key[i] \in Digit
    <3>1. ASSUME NEW i \in a + 4 .. Len(key) PROVE key[i] \in Digit
      <4>1. i - a - 3 \in 1 .. Len(epoch) /\ a + 3 + (i - a - 3) = i
        BY <2>4
      <4>2. epoch[i - a - 3] = key[i]
        BY <2>4, <4>1
      <4> QED
        BY <2>7, <4>1, <4>2
    <3> QED
      BY <3>1
  <2>9. ASSUME NEW other \in EngineId
        PROVE  Matches(key, engine_alive_pattern(other)) <=> other = engine
    <3>1. ASSUME Matches(key, engine_alive_pattern(other)) PROVE other = engine
      <4>1. TokenAt(key, Len(other) + 2) /\ EngineIn(key, Len(other) + 2) = other
        BY <1>1, <3>1, MatchIsToken
      <4>2. Len(other) + 2 = a
        BY <1>1, <2>1, <4>1, OneToken
      <4> QED
        BY <2>3, <4>1, <4>2
    <3>2. ASSUME other = engine PROVE Matches(key, engine_alive_pattern(other))
      BY <1>1, <2>1, <2>3, <2>8, <3>2, TokenMatches
    <3> QED
      BY <3>1, <3>2
  <2>10. ASSUME NEW other \in EngineId, other # engine
         PROVE  parse_engine_alive_key(key, other) = Nothing
    BY <2>2, <2>3, <2>10, EngineIds DEF OtherEngine
  <2>11. ASSUME key[Len(engine) + 6] # "zero"
         PROVE  key = engine_alive_key(engine, parse_engine_alive_key(key, engine))
    <3>1. /\ Len(engine) + 6 = a + 3 + 1 /\ Len(epoch) >= 1
          /\ 1 \in 1 .. Len(key) - a - 3
      BY <2>4
    <3>2. epoch[1] # "zero"
      BY <2>4, <2>11, <3>1
    <3>3. Decimal[Value(epoch)] = epoch
      BY <2>4, <2>7, <3>1, <3>2, DecimalOfValue
    <3> QED
      BY <2>5, <2>6, <2>7, <3>3 DEF Token, engine_alive_key
  <2> QED
    BY <2>9, <2>10, <2>11
<1>2. key \in Text => TokensTellEnginesApart
  BY <1>1 DEF TokensTellEnginesApart
<1> QED
  BY <1>2, Keyed, PTL

---------------------------------------------------------------------------
(* Different numbers are written differently.                              *)

LEMMA OneMore ==
  ASSUME NEW s \in Text, NEW x \in Char
  PROVE  /\ s \o <<x>> \in Text /\ Len(s \o <<x>>) = Len(s) + 1
         /\ \A i \in 1 .. Len(s) : (s \o <<x>>)[i] = s[i]
         /\ (s \o <<x>>)[Len(s) + 1] = x
<1> DEFINE one == <<x>>
<1>1. one \in Text /\ Len(one) = 1 /\ one[1] = x
  BY DEF Text
<1> HIDE DEF one
<1>2. /\ s \o one \in Text /\ Len(s \o one) = Len(s) + Len(one)
      /\ \A i \in 1 .. Len(s) + Len(one) :
           (s \o one)[i] = IF i <= Len(s) THEN s[i] ELSE one[i - Len(s)]
  BY ONLY <1>1, s \in Text, ConcatProperties DEF Text
<1>3. Len(s) \in Nat
  BY DEF Text
<1>4. ASSUME NEW i \in 1 .. Len(s) PROVE (s \o one)[i] = s[i]
  <2>1. i \in 1 .. Len(s) + Len(one) /\ i <= Len(s)
    BY <1>1, <1>3
  <2> QED
    BY <1>2, <2>1
<1>5. (s \o one)[Len(s) + 1] = x
  <2>1. /\ Len(s) + 1 \in 1 .. Len(s) + Len(one) /\ ~(Len(s) + 1 <= Len(s))
        /\ (Len(s) + 1) - Len(s) = 1
    BY <1>1, <1>3
  <2> QED
    BY <1>1, <1>2, <2>1
<1> QED
  BY <1>1, <1>2, <1>4, <1>5 DEF one

LEMMA SameButOne ==
  ASSUME NEW s \in Text, NEW t \in Text, NEW x \in Char, NEW y \in Char,
         s \o <<x>> = t \o <<y>>
  PROVE  s = t /\ x = y
<1> DEFINE k == s \o <<x>>
<1>1. /\ Len(k) = Len(s) + 1 /\ \A i \in 1 .. Len(s) : k[i] = s[i]
      /\ k[Len(s) + 1] = x
  BY OneMore
<1>2. /\ Len(k) = Len(t) + 1 /\ \A i \in 1 .. Len(t) : k[i] = t[i]
      /\ k[Len(t) + 1] = y
  <2>1. k = t \o <<y>>
    OBVIOUS
  <2> HIDE DEF k
  <2> QED
    BY <2>1, OneMore
<1> HIDE DEF k
<1>3. Len(s) \in Nat /\ Len(t) \in Nat
  BY DEF Text
<1>4. Len(s) = Len(t)
  BY <1>1, <1>2, <1>3
<1>5. \A i \in 1 .. Len(s) : s[i] = t[i]
  BY <1>1, <1>2, <1>4
<1>6. s = t
  BY ONLY <1>4, <1>5, SeqEqual, s \in Text, t \in Text DEF Text
<1> QED
  BY <1>1, <1>2, <1>4, <1>6

LEMMA DecimalDigits ==
  \A n \in Nat : /\ Decimal[n] \in Text /\ Len(Decimal[n]) >= 1
                 /\ \A i \in 1 .. Len(Decimal[n]) : Decimal[n][i] \in Digit
<1> DEFINE Fine(t) == Len(t) >= 1 /\ \A i \in 1 .. Len(t) : t[i] \in Digit
           S == {n \in Nat : ~Fine(Decimal[n])}
<1>1. SUFFICES ASSUME S # {} PROVE FALSE
  BY DecimalIs
<1>2. PICK n \in S : \A m \in S : n <= m
  BY <1>1, Least
<1> DEFINE x == Numeral(n % 10)
           s == Decimal[n \div 10]
<1>3. n \in Nat /\ n % 10 \in 0 .. 9 /\ n \div 10 \in Nat /\ ~Fine(Decimal[n])
  BY <1>2
<1>4. x \in Digit /\ x \in Char
  BY <1>3, Numerals DEF Char
<1>5. CASE n < 10
  <2>1. Decimal[n] = <<x>>
    BY <1>3, <1>5, DecimalIs
  <2> HIDE DEF x
  <2>2. Fine(<<x>>)
    BY <1>4
  <2> QED
    BY <1>3, <2>1, <2>2
<1>6. CASE ~(n < 10)
  <2>1. Decimal[n] = s \o <<x>> /\ s \in Text
    BY <1>3, <1>6, DecimalIs
  <2>2. n \div 10 < n
    BY <1>3, <1>6
  <2>3. Fine(s)
    BY <1>2, <1>3, <2>2
  <2> HIDE DEF x, s
  <2>4. /\ Len(s \o <<x>>) = Len(s) + 1
        /\ \A i \in 1 .. Len(s) : (s \o <<x>>)[i] = s[i]
        /\ (s \o <<x>>)[Len(s) + 1] = x
    BY <1>4, <2>1, OneMore
  <2>5. Len(s) \in Nat
    BY <2>1 DEF Text
  <2>6. \A i \in 1 .. Len(s) + 1 : i \in 1 .. Len(s) \/ i = Len(s) + 1
    BY <2>5
  <2>7. \A i \in 1 .. Len(s) + 1 : (s \o <<x>>)[i] \in Digit
    BY <1>4, <2>3, <2>4, <2>6
  <2>8. Fine(s \o <<x>>)
    BY <2>4, <2>5, <2>7
  <2> QED
    BY <1>3, <2>1, <2>8
<1> QED
  BY <1>5, <1>6

LEMMA DecimalsDiffer ==
  \A m, n \in Nat : Decimal[m] = Decimal[n] => m = n
<1> DEFINE S == {n \in Nat : \E m \in Nat : m # n /\ Decimal[m] = Decimal[n]}
<1>1. SUFFICES ASSUME S # {} PROVE FALSE
  OBVIOUS
<1>2. PICK n \in S : \A m \in S : n <= m
  BY <1>1, Least
<1>3. PICK m \in Nat : m # n /\ Decimal[m] = Decimal[n]
  BY <1>2
<1>4. n \in Nat /\ n <= m
  BY <1>2, <1>3
<1> HIDE DEF S
<1>5. /\ n % 10 \in 0 .. 9 /\ n \div 10 \in Nat /\ n = 10 * (n \div 10) + (n % 10)
      /\ m % 10 \in 0 .. 9 /\ m \div 10 \in Nat /\ m = 10 * (m \div 10) + (m % 10)
  <2>1. \A k \in Nat : k % 10 \in 0 .. 9 /\ k \div 10 \in Nat /\ k = 10 * (k \div 10) + (k % 10)
    OBVIOUS
  <2> QED
    BY <1>4, <2>1
<1> DEFINE x == Numeral(m % 10)
           y == Numeral(n % 10)
           s == Decimal[m \div 10]
           t == Decimal[n \div 10]
<1>6. x \in Char /\ y \in Char /\ (x = y => m % 10 = n % 10)
  <2>1. \A d \in 0 .. 9 : Numeral(d) \in Digit /\ DigitOf[Numeral(d)] = d
    <3>1. \A d \in 0 .. 9 : \E c \in Digit : DigitOf[c] = d
      BY DEF Digit, DigitOf
    <3> QED
      BY <3>1 DEF Numeral
  <2> QED
    BY <1>5, <2>1 DEF Char
<1>7. s \in Text /\ t \in Text /\ Len(s) \in Nat /\ Len(t) \in Nat /\ Len(s) >= 1 /\ Len(t) >= 1
  <2>1. s \in Text /\ t \in Text /\ Len(s) >= 1 /\ Len(t) >= 1
    BY <1>5, DecimalDigits
  <2> HIDE DEF s, t
  <2> QED
    BY <2>1 DEF Text
<1>8. CASE m < 10
  <2>1. Decimal[m] = <<x>> /\ Decimal[n] = <<y>>
    <3>1. n < 10
      BY <1>4, <1>8
    <3> QED
      BY <1>4, <1>8, <3>1, DecimalIs
  <2>2. x = y
    <3> HIDE DEF x, y
    <3>1. <<x>> = <<y>>
      BY <1>3, <2>1
    <3> QED
      BY <3>1
  <2>3. m = n
    <3>1. m % 10 = n % 10
      BY <1>6, <2>2
    <3>2. m % 10 = m /\ n % 10 = n
      BY <1>4, <1>8
    <3> QED
      BY <3>1, <3>2
  <2> QED
    BY <1>3, <2>3
<1>9. CASE ~(m < 10)
  <2>1. Decimal[m] = s \o <<x>>
    BY <1>9, DecimalIs
  <2>2. ~(n < 10)
    <3> SUFFICES ASSUME n < 10 PROVE FALSE
      OBVIOUS
    <3>1. Decimal[n] = <<y>>
      BY <1>4, DecimalIs
    <3> HIDE DEF x, y, s
    <3>2. s \o <<x>> = <<y>>
      BY <1>3, <2>1, <3>1
    <3>3. Len(s \o <<x>>) = Len(s) + 1
      BY <1>6, <1>7, OneMore
    <3>4. Len(<<y>>) = 1
      OBVIOUS
    <3>5. Len(s) + 1 = 1
      BY <3>2, <3>3, <3>4
    <3> QED
      BY ONLY <1>7, <3>5
  <2>3. Decimal[n] = t \o <<y>>
    BY <1>4, <2>2, DecimalIs
  <2>4. s = t /\ x = y
    <3> HIDE DEF x, y, s, t
    <3> QED
      BY <1>3, <1>6, <1>7, <2>1, <2>3, SameButOne
  <2>5. ~(n <= n \div 10)
    BY <1>4, <2>2
  <2>6. n \div 10 \notin S
    BY <1>2, <1>5, <2>5
  <2>7. m \div 10 = n \div 10
    BY <1>5, <2>4, <2>6 DEF S
  <2>8. m % 10 = n % 10
    BY <1>6, <2>4
  <2>9. m = n
    BY <1>5, <2>7, <2>8
  <2> QED
    BY <1>3, <2>9
<1> QED
  BY <1>8, <1>9

---------------------------------------------------------------------------
(* What a key may say, by its last two chunks and what is before them.     *)

Short == {"join", "leave", "alive"}
Long == {<<"node_update", "component", "update">>, <<"node_remove", "component", "remove">>,
         <<"edge_update", "relation", "update">>, <<"edge_remove", "relation", "remove">>,
         <<"stream_start", "stream", "start">>, <<"stream_stop", "stream", "stop">>,
         <<"graph_query", "graph", "query">>, <<"pattern_query", "pattern", "query">>,
         <<"target_query", "target", "query">>, <<"target_update", "target", "update">>}
DeviceFamily == {<<"descriptor", "cfg", "desc">>, <<"poses", "str", "trk">>}

MeansShort(r, p, a, b) ==
  a = <<"sis">> /\ \E w \in Short : b = <<w>> /\ r = <<"request", <<p, w>>>>

MeansLong(r, p, a, b) ==
  \E c \in Text, x \in Long :
    /\ p = Under(c, <<"sis">>) /\ a = <<x[2]>> /\ b = <<x[3]>>
    /\ r = <<"request", <<c, x[1]>>>>

MeansDevice(r, p, a, b) ==
  \E c \in Text, x \in DeviceFamily :
    p = Under(c, <<x[2]>>) /\ a = <<x[3]>> /\ r = <<x[1], <<c, b>>>>

MeansMarker(r, p, a, b) ==
  \E c \in Text :
    p = Under(Under(c, <<"cfg">>), <<"marker">>) /\ r = <<"marker", <<c, a, b>>>>

MeansTargets(r, p, a, b) ==
  \E e \in EngineId :
    /\ p = Under(<<"sqe">>, e) /\ a = <<"targets">> /\ b = <<"changed">>
    /\ r = <<"targets", <<e>>>>

MeansAlive(r, p, a, b) ==
  \E e \in EngineId, n \in Number :
    /\ p = Under(<<"sqe">>, e) /\ a = <<"alive">> /\ b = Decimal[n]
    /\ r = <<"alive", <<e, n>>>>

MeansStream(r, p, a, b) ==
  \E e \in EngineId :
    p = Under(<<"sqe">>, e) /\ a = <<"rel">> /\ r = <<"stream", <<e, b>>>>

MeansStatus(r, p, a, b) ==
  \E e \in EngineId :
    /\ p = Under(Under(<<"sqe">>, e), <<"rel">>) /\ b = <<"status">>
    /\ r = <<"status", <<e, a>>>>

Means(r, p, a, b) ==
  \/ MeansShort(r, p, a, b) \/ MeansLong(r, p, a, b)
  \/ MeansDevice(r, p, a, b) \/ MeansMarker(r, p, a, b)
  \/ MeansTargets(r, p, a, b) \/ MeansAlive(r, p, a, b)
  \/ MeansStream(r, p, a, b) \/ MeansStatus(r, p, a, b)

Ends(s, p, a, b) == p \in Text /\ Plain(a) /\ Plain(b) /\ s = Under(Under(p, a), b)

LEMMA UnderType ==
  ASSUME NEW p \in Text, NEW t \in Text PROVE Under(p, t) \in Text
BY UnderIs

LEMMA OneEnd ==
  ASSUME NEW s, NEW p, NEW a, NEW b, Ends(s, p, a, b),
         NEW q, NEW c, NEW d, Ends(s, q, c, d)
  PROVE  p = q /\ a = c /\ b = d
<1> DEFINE h == Under(p, a)
           k == Under(q, c)
<1>1. h \in Text /\ k \in Text
  BY UnderType DEF Ends, Plain
<1>2. Plain(b) /\ Plain(d) /\ Under(h, b) = Under(k, d)
  BY DEF Ends
<1> HIDE DEF h, k
<1>3. h = k /\ b = d
  BY <1>1, <1>2, LastChunk
<1> QED
  BY <1>3, LastChunk DEF Ends, h, k

LEMMA SuffixShort ==
  ASSUME NEW w \in Short
  PROVE  w \in Word /\ Suffix[w] = Under(<<"sis">>, <<w>>)
<1>1. w \in Word /\ "sis" \in Word
  BY DEF Short, Word
<1>2. Suffix[w] = Path("sis", w)
  BY DEF Short, Suffix
<1> QED
  BY <1>1, <1>2, PathIs

LEMMA SuffixLong ==
  ASSUME NEW x \in Long
  PROVE  /\ x[2] \in Word /\ x[3] \in Word
         /\ Suffix[x[1]] = Under(Under(<<"sis">>, <<x[2]>>), <<x[3]>>)
<1>1. x[2] \in Word /\ x[3] \in Word /\ "sis" \in Word
  BY DEF Long, Word
<1>2. Suffix[x[1]] = Path3("sis", x[2], x[3])
  BY DEF Long, Suffix
<1> QED
  BY <1>1, <1>2, Path3Is

LEMMA Suffixes ==
  ASSUME NEW w \in DOMAIN Suffix
  PROVE  w \in Short \/ \E x \in Long : x[1] = w
BY DEF Suffix, Short, Long

LEMMA RequestMeans ==
  ASSUME NEW c \in Text, NEW w \in DOMAIN Suffix
  PROVE  \E p, a, b : /\ Ends(client_key(c, w), p, a, b)
                      /\ MeansShort(<<"request", <<c, w>>>>, p, a, b)
                           \/ MeansLong(<<"request", <<c, w>>>>, p, a, b)
<1> DEFINE sis == <<"sis">>
<1>1. sis \in Text /\ Plain(sis)
  BY Lone DEF Word
<1>2. CASE w \in Short
  <2> DEFINE last == <<w>>
  <2>1. last \in Text /\ Plain(last) /\ Suffix[w] = Under(sis, last)
    BY <1>2, SuffixShort, Lone
  <2>2. MeansShort(<<"request", <<c, w>>>>, c, sis, last)
    BY <1>2 DEF MeansShort
  <2> HIDE DEF sis, last
  <2>3. client_key(c, w) = Under(Under(c, sis), last)
    BY <1>1, <2>1, UnderUnder DEF client_key
  <2>4. Ends(client_key(c, w), c, sis, last)
    BY <1>1, <2>1, <2>3 DEF Ends
  <2> QED
    BY <2>2, <2>4
<1>3. ASSUME NEW x \in Long, x[1] = w
      PROVE  \E p, a, b : /\ Ends(client_key(c, w), p, a, b)
                          /\ MeansLong(<<"request", <<c, w>>>>, p, a, b)
  <2> DEFINE p == Under(c, sis)
             a == <<x[2]>>
             b == <<x[3]>>
  <2>1. /\ a \in Text /\ Plain(a) /\ b \in Text /\ Plain(b)
        /\ Suffix[w] = Under(Under(sis, a), b)
    BY <1>3, SuffixLong, Lone
  <2>2. MeansLong(<<"request", <<c, w>>>>, p, a, b)
    BY <1>3 DEF MeansLong
  <2> HIDE DEF sis, a, b
  <2>3. /\ p \in Text /\ Under(sis, a) \in Text
        /\ Under(c, Under(Under(sis, a), b)) = Under(Under(c, Under(sis, a)), b)
        /\ Under(c, Under(sis, a)) = Under(p, a)
    BY <1>1, <2>1, UnderUnder, UnderType
  <2>4. Ends(client_key(c, w), p, a, b)
    BY <2>1, <2>3 DEF Ends, client_key
  <2> QED
    BY <2>2, <2>4
<1> QED
  BY <1>2, <1>3, Suffixes

\* A device or a marker that is not refused is one chunk.
LEMMA IdentifierIsPlain ==
  ASSUME NEW d \in Text, check_identifier(d)
  PROVE  Plain(d)
BY DEF check_identifier, Plain, Text

\* A device key is its parts, or refused.
LEMMA DeviceKey ==
  ASSUME NEW c \in Text, NEW v \in Word, NEW w \in Word, NEW d,
         device_key(c, Path(v, w), d) # Refused
  PROVE  /\ check_identifier(d)
         /\ device_key(c, Path(v, w), d) = Under(Under(Under(c, <<v>>), <<w>>), d)
<1>1. Under(c, Path(v, w)) = Under(Under(c, <<v>>), <<w>>)
  BY Lone, PathIs, UnderUnder
<1> QED
  BY <1>1 DEF device_key

LEMMA DeviceMeans ==
  ASSUME NEW c \in Text, NEW d \in Text
  PROVE  /\ descriptor_key(c, d) # Refused =>
              \E p, a, b : /\ Ends(descriptor_key(c, d), p, a, b)
                           /\ MeansDevice(<<"descriptor", <<c, d>>>>, p, a, b)
         /\ tracker_stream_key(c, d) # Refused =>
              \E p, a, b : /\ Ends(tracker_stream_key(c, d), p, a, b)
                           /\ MeansDevice(<<"poses", <<c, d>>>>, p, a, b)
<1>1. ASSUME NEW x \in DeviceFamily, device_key(c, Path(x[2], x[3]), d) # Refused
      PROVE  /\ Ends(device_key(c, Path(x[2], x[3]), d), Under(c, <<x[2]>>), <<x[3]>>, d)
             /\ MeansDevice(<<x[1], <<c, d>>>>, Under(c, <<x[2]>>), <<x[3]>>, d)
  <2>1. x[2] \in Word /\ x[3] \in Word
    BY DEF DeviceFamily, Word
  <2>2. Under(c, <<x[2]>>) \in Text /\ Plain(<<x[3]>>)
    BY <2>1, Lone, UnderType
  <2>3. /\ device_key(c, Path(x[2], x[3]), d) = Under(Under(Under(c, <<x[2]>>), <<x[3]>>), d)
        /\ Plain(d)
    BY <1>1, <2>1, DeviceKey, IdentifierIsPlain
  <2> QED
    BY <2>2, <2>3 DEF Ends, MeansDevice
<1> DEFINE x == <<"descriptor", "cfg", "desc">>
           y == <<"poses", "str", "trk">>
<1>2. /\ x \in DeviceFamily /\ x[1] = "descriptor" /\ x[2] = "cfg" /\ x[3] = "desc"
      /\ y \in DeviceFamily /\ y[1] = "poses" /\ y[2] = "str" /\ y[3] = "trk"
  BY DEF DeviceFamily
<1> HIDE DEF x, y
<1>3. descriptor_key(c, d) # Refused =>
        /\ Ends(descriptor_key(c, d), Under(c, <<x[2]>>), <<x[3]>>, d)
        /\ MeansDevice(<<"descriptor", <<c, d>>>>, Under(c, <<x[2]>>), <<x[3]>>, d)
  BY <1>1, <1>2 DEF descriptor_key
<1>4. tracker_stream_key(c, d) # Refused =>
        /\ Ends(tracker_stream_key(c, d), Under(c, <<y[2]>>), <<y[3]>>, d)
        /\ MeansDevice(<<"poses", <<c, d>>>>, Under(c, <<y[2]>>), <<y[3]>>, d)
  BY <1>1, <1>2 DEF tracker_stream_key
<1> QED
  BY <1>3, <1>4

LEMMA MarkerMeans ==
  ASSUME NEW c \in Text, NEW d \in Text, NEW m \in Text,
         marker_announce_key(c, d, m) # Refused
  PROVE  \E p, a, b : /\ Ends(marker_announce_key(c, d, m), p, a, b)
                      /\ MeansMarker(<<"marker", <<c, d, m>>>>, p, a, b)
<1> DEFINE p == Under(Under(c, <<"cfg">>), <<"marker">>)
<1>1. "cfg" \in Word /\ "marker" \in Word
  BY DEF Word
<1>2. p \in Text
  BY <1>1, Lone, UnderType
<1>3. /\ marker_announce_key(c, d, m) = Under(Under(p, d), m)
      /\ Plain(d) /\ Plain(m)
  <2>1. /\ device_key(c, Path("cfg", "marker"), d) # Refused
        /\ check_identifier(m)
        /\ marker_announce_key(c, d, m) = Under(device_key(c, Path("cfg", "marker"), d), m)
    BY DEF marker_announce_key
  <2> QED
    BY <1>1, <2>1, DeviceKey, IdentifierIsPlain
<1>4. MeansMarker(<<"marker", <<c, d, m>>>>, p, d, m)
  BY DEF MeansMarker
<1> HIDE DEF p
<1> QED
  BY <1>2, <1>3, <1>4 DEF Ends

LEMMA EngineMeans ==
  ASSUME NEW e \in EngineId
  PROVE  /\ \E p, a, b : /\ Ends(engine_targets_changed_topic(e), p, a, b)
                         /\ MeansTargets(<<"targets", <<e>>>>, p, a, b)
         /\ \A n \in Number : \E p, a, b :
              /\ Ends(engine_alive_key(e, n), p, a, b)
              /\ MeansAlive(<<"alive", <<e, n>>>>, p, a, b)
         /\ \A h : Plain(h) =>
              /\ \E p, a, b : /\ Ends(engine_relation_topic(e, h), p, a, b)
                              /\ MeansStream(<<"stream", <<e, h>>>>, p, a, b)
              /\ \E p, a, b : /\ Ends(engine_relation_status_topic(e, h), p, a, b)
                              /\ MeansStatus(<<"status", <<e, h>>>>, p, a, b)
<1> DEFINE p == Under(<<"sqe">>, e)
<1>1. p \in Text
  BY EngineIds, Lone, UnderType DEF Word
<1>2. ASSUME NEW w \in Word, NEW t, Plain(t)
      PROVE  /\ engine_key(e, Under(<<w>>, t)) = Under(Under(p, <<w>>), t)
             /\ Ends(engine_key(e, Under(<<w>>, t)), p, <<w>>, t)
  <2>1. <<w>> \in Text /\ Plain(<<w>>) /\ t \in Text
    BY <1>2, Lone DEF Plain
  <2>2. engine_key(e, Under(<<w>>, t)) = Under(Under(p, <<w>>), t)
    BY <1>1, <2>1, UnderUnder DEF engine_key
  <2> QED
    BY <1>1, <1>2, <2>1, <2>2 DEF Ends
<1>3. /\ Ends(engine_targets_changed_topic(e), p, <<"targets">>, <<"changed">>)
      /\ MeansTargets(<<"targets", <<e>>>>, p, <<"targets">>, <<"changed">>)
  <2>1. "targets" \in Word /\ "changed" \in Word
    BY DEF Word
  <2>2. Plain(<<"changed">>) /\ Path("targets", "changed") = Under(<<"targets">>, <<"changed">>)
    BY <2>1, Lone, PathIs
  <2>3. MeansTargets(<<"targets", <<e>>>>, p, <<"targets">>, <<"changed">>)
    BY DEF MeansTargets
  <2> HIDE DEF p
  <2> QED
    BY <1>2, <2>1, <2>2, <2>3 DEF engine_targets_changed_topic
<1>4. ASSUME NEW n \in Number
      PROVE  /\ Ends(engine_alive_key(e, n), p, <<"alive">>, Decimal[n])
             /\ MeansAlive(<<"alive", <<e, n>>>>, p, <<"alive">>, Decimal[n])
  <2>1. "alive" \in Word /\ n \in Nat
    BY ConstantsOK DEF Word, ConstantsOK
  <2>2. "/" \notin Digit
    BY DEF Digit, DigitOf
  <2>3. Plain(Decimal[n])
    BY <2>1, <2>2, DecimalDigits DEF Plain
  <2>4. MeansAlive(<<"alive", <<e, n>>>>, p, <<"alive">>, Decimal[n])
    BY DEF MeansAlive
  <2> HIDE DEF p
  <2> QED
    BY <1>2, <2>1, <2>3, <2>4 DEF engine_alive_key
<1>5. ASSUME NEW h, Plain(h)
      PROVE  /\ Ends(engine_relation_topic(e, h), p, <<"rel">>, h)
             /\ MeansStream(<<"stream", <<e, h>>>>, p, <<"rel">>, h)
             /\ Ends(engine_relation_status_topic(e, h), Under(p, <<"rel">>), h, <<"status">>)
             /\ MeansStatus(<<"status", <<e, h>>>>, Under(p, <<"rel">>), h, <<"status">>)
  <2>1. "rel" \in Word /\ "status" \in Word
    BY DEF Word
  <2>2. /\ MeansStream(<<"stream", <<e, h>>>>, p, <<"rel">>, h)
        /\ MeansStatus(<<"status", <<e, h>>>>, Under(p, <<"rel">>), h, <<"status">>)
    BY DEF MeansStream, MeansStatus
  <2> HIDE DEF p
  <2>3. /\ Ends(engine_relation_topic(e, h), p, <<"rel">>, h)
        /\ engine_relation_topic(e, h) = Under(Under(p, <<"rel">>), h)
    BY <1>2, <1>5, <2>1 DEF engine_relation_topic
  <2>4. Under(p, <<"rel">>) \in Text /\ Plain(<<"status">>)
    BY <1>1, <2>1, Lone, UnderType
  <2>5. Ends(engine_relation_status_topic(e, h), Under(p, <<"rel">>), h, <<"status">>)
    BY <1>5, <2>3, <2>4 DEF engine_relation_status_topic, status_topic_for, Ends
  <2> QED
    BY <2>2, <2>3, <2>5
<1> QED
  BY <1>3, <1>4, <1>5

LEMMA OwnersAreText ==
  ASSUME key \in Text, NEW c \in Owner
  PROVE  c \in Text
<1>1. PICK i \in Slashes : c = SubSeq(key, 1, i - 1)
  BY DEF Owner
<1>2. i \in 1 .. Len(key) /\ Len(key) \in Nat
  BY <1>1 DEF Slashes, Text
<1>3. 1 \in 1 .. Len(key) + 1 /\ i - 1 \in 1 - 1 .. Len(key)
  BY <1>2
<1> QED
  BY <1>1, <1>3, Part

LEMMA StretchesAreText ==
  ASSUME key \in Text, NEW d \in Stretch
  PROVE  d \in Text
<1> DEFINE cuts == Slashes \cup {0, Len(key) + 1}
<1>1. PICK x \in cuts, y \in cuts : x < y /\ d = SubSeq(key, x + 1, y - 1)
  BY DEF Stretch
<1>2. Len(key) \in Nat /\ x \in 0 .. Len(key) + 1 /\ y \in 0 .. Len(key) + 1
  BY DEF Slashes, Text
<1>3. x + 1 \in 1 .. Len(key) + 1 /\ y - 1 \in (x + 1) - 1 .. Len(key)
  BY <1>1, <1>2
<1> QED
  BY <1>1, <1>3, Part

LEMMA ChunksArePlain ==
  ASSUME key \in Text, NEW d \in ChunkOfKey
  PROVE  Plain(d)
<1>1. d \in Stretch /\ \A i \in DOMAIN d : d[i] # "/"
  BY DEF ChunkOfKey
<1>2. d \in Text
  BY <1>1, StretchesAreText
<1> QED
  BY <1>1, <1>2 DEF Plain, Text

\* A key that has an owner is none that was refused.
LEMMA OwnedKeys ==
  ASSUME key \in Text, NEW c \in Owner
  PROVE  key # Refused
BY DEF Owner, Slashes, Refused

\* Who can have composed the key says one of eight things.
LEMMA Readings ==
  ASSUME key \in Text, NEW x \in Reading
  PROVE  \E p, a, b : Ends(key, p, a, b) /\ Means(x, p, a, b)
<1> DEFINE Says(family_, of, composed) == {r \in {<<family_, of>>} : key = composed}
           Requests(c) == UNION {Says("request", <<c, w>>, client_key(c, w)) : w \in DOMAIN Suffix}
           Markers(c, d) == UNION {Says("marker", <<c, d, m>>, marker_announce_key(c, d, m)) :
                                     m \in Stretch}
           OnDevice(c, d) == Says("descriptor", <<c, d>>, descriptor_key(c, d))
                             \cup Says("poses", <<c, d>>, tracker_stream_key(c, d))
                             \cup Markers(c, d)
           Devices(c) == UNION {OnDevice(c, d) : d \in Stretch}
           OnClient(c) == Requests(c) \cup Devices(c)
           Targets(e) == Says("targets", <<e>>, engine_targets_changed_topic(e))
           Epochs(e) == UNION {Says("alive", <<e, n>>, engine_alive_key(e, n)) : n \in Number}
           OnHandle(e, h) == Says("stream", <<e, h>>, engine_relation_topic(e, h))
                             \cup Says("status", <<e, h>>, engine_relation_status_topic(e, h))
           Streams(e) == UNION {OnHandle(e, h) : h \in ChunkOfKey}
           OnEngine(e) == Targets(e) \cup Epochs(e) \cup Streams(e)
           Clients == UNION {OnClient(c) : c \in Owner}
           Engines == UNION {OnEngine(e) : e \in EngineId}
<1>1. Reading = Clients \cup Engines
  BY DEF Reading
<1>2. (\E c \in Owner : x \in OnClient(c)) \/ (\E e \in EngineId : x \in OnEngine(e))
  <2>1. x \in Clients \/ x \in Engines
    <3> HIDE DEF Clients, Engines
    <3> QED
      BY <1>1
  <2> HIDE DEF OnClient, OnEngine
  <2>2. x \in Clients => \E c \in Owner : x \in OnClient(c)
    OBVIOUS
  <2>3. x \in Engines => \E e \in EngineId : x \in OnEngine(e)
    OBVIOUS
  <2> QED
    BY ONLY <2>1, <2>2, <2>3
<1>3. ASSUME NEW f, NEW o, NEW k, x \in Says(f, o, k)
      PROVE  x = <<f, o>> /\ key = k
  BY <1>3
<1>4. ASSUME NEW c \in Owner, x \in OnClient(c)
      PROVE  \E p, a, b : Ends(key, p, a, b) /\ Means(x, p, a, b)
  <2>0. c \in Text
    BY OwnersAreText
  <2>1. ASSUME NEW w \in DOMAIN Suffix, x \in Says("request", <<c, w>>, client_key(c, w))
        PROVE  \E p, a, b : Ends(key, p, a, b) /\ Means(x, p, a, b)
    BY <1>3, <2>0, <2>1, RequestMeans DEF Means
  <2>2. ASSUME NEW d \in Stretch, x \in Says("descriptor", <<c, d>>, descriptor_key(c, d))
        PROVE  \E p, a, b : Ends(key, p, a, b) /\ Means(x, p, a, b)
    <3>1. x = <<"descriptor", <<c, d>>>> /\ key = descriptor_key(c, d)
      BY <1>3, <2>2
    <3>2. \E p, a, b : Ends(descriptor_key(c, d), p, a, b) /\ MeansDevice(<<"descriptor", <<c, d>>>>, p, a, b)
      BY <2>0, <3>1, OwnedKeys, StretchesAreText, DeviceMeans
    <3> QED
      BY ONLY <3>1, <3>2 DEF Means
  <2>3. ASSUME NEW d \in Stretch, x \in Says("poses", <<c, d>>, tracker_stream_key(c, d))
        PROVE  \E p, a, b : Ends(key, p, a, b) /\ Means(x, p, a, b)
    <3>1. x = <<"poses", <<c, d>>>> /\ key = tracker_stream_key(c, d)
      BY <1>3, <2>3
    <3>2. \E p, a, b : Ends(tracker_stream_key(c, d), p, a, b) /\ MeansDevice(<<"poses", <<c, d>>>>, p, a, b)
      BY <2>0, <3>1, OwnedKeys, StretchesAreText, DeviceMeans
    <3> QED
      BY ONLY <3>1, <3>2 DEF Means
  <2>4. ASSUME NEW d \in Stretch, NEW m \in Stretch,
               x \in Says("marker", <<c, d, m>>, marker_announce_key(c, d, m))
        PROVE  \E p, a, b : Ends(key, p, a, b) /\ Means(x, p, a, b)
    <3>1. x = <<"marker", <<c, d, m>>>> /\ key = marker_announce_key(c, d, m)
      BY <1>3, <2>4
    <3>2. \E p, a, b : Ends(marker_announce_key(c, d, m), p, a, b) /\ MeansMarker(<<"marker", <<c, d, m>>>>, p, a, b)
      BY <2>0, <3>1, OwnedKeys, StretchesAreText, MarkerMeans
    <3> QED
      BY ONLY <3>1, <3>2 DEF Means
  <2>5. x \in Requests(c) \/ x \in Devices(c)
    <3> HIDE DEF Requests, Devices
    <3> QED
      BY <1>4
  <2> HIDE DEF Says
  <2>6. CASE x \in Requests(c)
    <3>1. PICK w \in DOMAIN Suffix : x \in Says("request", <<c, w>>, client_key(c, w))
      BY <2>6
    <3> QED
      BY <2>1, <3>1
  <2>7. CASE x \in Devices(c)
    <3> HIDE DEF OnDevice
    <3>1. PICK d \in Stretch : x \in OnDevice(c, d)
      BY <2>7
    <3> USE DEF OnDevice
    <3> HIDE DEF Markers
    <3>2. \/ x \in Says("descriptor", <<c, d>>, descriptor_key(c, d))
          \/ x \in Says("poses", <<c, d>>, tracker_stream_key(c, d))
          \/ x \in Markers(c, d)
      BY <3>1
    <3> USE DEF Markers
    <3>3. ASSUME x \in Markers(c, d)
          PROVE  \E m \in Stretch :
                   x \in Says("marker", <<c, d, m>>, marker_announce_key(c, d, m))
      BY <3>3
    <3> HIDE DEF Markers
    <3> QED
      BY <2>2, <2>3, <2>4, <3>2, <3>3
  <2> QED
    BY <2>5, <2>6, <2>7
<1>5. ASSUME NEW e \in EngineId, x \in OnEngine(e)
      PROVE  \E p, a, b : Ends(key, p, a, b) /\ Means(x, p, a, b)
  <2>1. ASSUME x \in Says("targets", <<e>>, engine_targets_changed_topic(e))
        PROVE  \E p, a, b : Ends(key, p, a, b) /\ Means(x, p, a, b)
    BY <1>3, <2>1, EngineMeans DEF Means
  <2>2. ASSUME NEW n \in Number, x \in Says("alive", <<e, n>>, engine_alive_key(e, n))
        PROVE  \E p, a, b : Ends(key, p, a, b) /\ Means(x, p, a, b)
    <3>1. x = <<"alive", <<e, n>>>> /\ key = engine_alive_key(e, n)
      BY <1>3, <2>2
    <3>2. \E p, a, b : Ends(engine_alive_key(e, n), p, a, b) /\ MeansAlive(<<"alive", <<e, n>>>>, p, a, b)
      BY EngineMeans
    <3> QED
      BY ONLY <3>1, <3>2 DEF Means
  <2>3. ASSUME NEW h \in ChunkOfKey, x \in Says("stream", <<e, h>>, engine_relation_topic(e, h))
        PROVE  \E p, a, b : Ends(key, p, a, b) /\ Means(x, p, a, b)
    <3>1. x = <<"stream", <<e, h>>>> /\ key = engine_relation_topic(e, h)
      BY <1>3, <2>3
    <3>2. \E p, a, b : Ends(engine_relation_topic(e, h), p, a, b) /\ MeansStream(<<"stream", <<e, h>>>>, p, a, b)
      BY ChunksArePlain, EngineMeans
    <3> QED
      BY ONLY <3>1, <3>2 DEF Means
  <2>4. ASSUME NEW h \in ChunkOfKey,
               x \in Says("status", <<e, h>>, engine_relation_status_topic(e, h))
        PROVE  \E p, a, b : Ends(key, p, a, b) /\ Means(x, p, a, b)
    <3>1. x = <<"status", <<e, h>>>> /\ key = engine_relation_status_topic(e, h)
      BY <1>3, <2>4
    <3>2. \E p, a, b : Ends(engine_relation_status_topic(e, h), p, a, b) /\ MeansStatus(<<"status", <<e, h>>>>, p, a, b)
      BY ChunksArePlain, EngineMeans
    <3> QED
      BY ONLY <3>1, <3>2 DEF Means
  <2>5. x \in Targets(e) \/ x \in Epochs(e) \/ x \in Streams(e)
    <3> HIDE DEF Targets, Epochs, Streams
    <3> QED
      BY <1>5
  <2> HIDE DEF Says
  <2>6. CASE x \in Epochs(e)
    <3>1. PICK n \in Number : x \in Says("alive", <<e, n>>, engine_alive_key(e, n))
      BY <2>6
    <3> QED
      BY <2>2, <3>1
  <2>7. CASE x \in Streams(e)
    <3> HIDE DEF OnHandle
    <3>1. PICK h \in ChunkOfKey : x \in OnHandle(e, h)
      BY <2>7
    <3> USE DEF OnHandle
    <3>2. \/ x \in Says("stream", <<e, h>>, engine_relation_topic(e, h))
          \/ x \in Says("status", <<e, h>>, engine_relation_status_topic(e, h))
      BY <3>1
    <3> QED
      BY <2>3, <2>4, <3>2
  <2> QED
    BY <2>1, <2>5, <2>6, <2>7
<1> QED
  BY <1>2, <1>4, <1>5

LEMMA OneUnder ==
  ASSUME NEW p \in Text, NEW q \in Text, NEW v \in Word, NEW w \in Word,
         Under(p, <<v>>) = Under(q, <<w>>)
  PROVE  p = q /\ v = w
<1>1. Plain(<<v>>) /\ Plain(<<w>>) /\ <<v>>[1] = v /\ <<w>>[1] = w
  BY Lone
<1>2. p = q /\ <<v>> = <<w>>
  BY <1>1, LastChunk
<1> QED
  BY <1>1, <1>2

\* Everything that is before the last two chunks of an engine's keys ends in
\* the engine's id; nothing a client's word is before begins with sqe alone.
LEMMA EnginePart ==
  ASSUME NEW e \in EngineId
  PROVE  /\ Under(<<"sqe">>, e) \in Text
         /\ \A f \in EngineId : Under(<<"sqe">>, e) = Under(<<"sqe">>, f) => e = f
         /\ \A p \in Text, t \in Text, w \in Word :
              Under(<<"sqe">>, e) # Under(Under(p, t), <<w>>)
<1> DEFINE sqe == <<"sqe">>
<1>1. sqe \in Text /\ \A p \in Text, t \in Text : Under(p, t) # sqe
  BY Lone, NotAlone DEF Word
<1>2. \A f \in EngineId : f \in Text /\ Plain(f)
  BY EngineIds DEF Plain
<1> HIDE DEF sqe
<1>3. Under(sqe, e) \in Text
  BY <1>1, <1>2, UnderType
<1>4. \A f \in EngineId : Under(sqe, e) = Under(sqe, f) => e = f
  BY <1>1, <1>2, LastChunk
<1>5. ASSUME NEW p \in Text, NEW t \in Text, NEW w \in Word,
             Under(sqe, e) = Under(Under(p, t), <<w>>)
      PROVE  FALSE
  <2>1. Under(p, t) \in Text /\ Plain(<<w>>)
    BY UnderType, Lone
  <2>2. sqe = Under(p, t)
    BY <1>1, <1>2, <1>5, <2>1, LastChunk
  <2> QED
    BY <1>1, <2>2
<1> QED
  BY <1>3, <1>4, <1>5 DEF sqe

\* The second but last chunk tells six of the readings apart.
Spoken == {"component", "relation", "stream", "graph", "pattern", "target"}

LEMMA LongSays ==
  ASSUME NEW r, NEW p, NEW a, NEW b, MeansLong(r, p, a, b)
  PROVE  a[1] \in Spoken /\ \E c \in Text : p = Under(c, <<"sis">>)
<1>1. PICK c \in Text, x \in Long :
        /\ p = Under(c, <<"sis">>) /\ a = <<x[2]>> /\ b = <<x[3]>>
        /\ r = <<"request", <<c, x[1]>>>>
  BY DEF MeansLong
<1>2. a[1] = x[2]
  BY <1>1
<1>3. x[2] \in Spoken
  BY DEF Long, Spoken
<1> QED
  BY <1>1, <1>2, <1>3

LEMMA DeviceSays ==
  ASSUME NEW r, NEW p, NEW a, NEW b, MeansDevice(r, p, a, b)
  PROVE  a[1] \in {"desc", "trk"} /\ \E c \in Text, w \in {"cfg", "str"} : p = Under(c, <<w>>)
<1>1. PICK c \in Text, x \in DeviceFamily :
        p = Under(c, <<x[2]>>) /\ a = <<x[3]>> /\ r = <<x[1], <<c, b>>>>
  BY DEF MeansDevice
<1>2. a[1] = x[3]
  BY <1>1
<1>3. x[3] \in {"desc", "trk"} /\ x[2] \in {"cfg", "str"}
  BY DEF DeviceFamily
<1> QED
  BY <1>1, <1>2, <1>3

LEMMA EngineSays ==
  ASSUME NEW r, NEW p, NEW a, NEW b
  PROVE  /\ MeansTargets(r, p, a, b) =>
              a[1] = "targets" /\ \E e \in EngineId : p = Under(<<"sqe">>, e)
         /\ MeansAlive(r, p, a, b) =>
              a[1] = "alive" /\ \E e \in EngineId : p = Under(<<"sqe">>, e)
         /\ MeansStream(r, p, a, b) =>
              a[1] = "rel" /\ \E e \in EngineId : p = Under(<<"sqe">>, e)
         /\ MeansStatus(r, p, a, b) =>
              /\ b[1] = "status"
              /\ \E c, e \in Text : p = Under(Under(c, e), <<"rel">>)
<1>1. <<"sqe">> \in Text /\ \A e \in EngineId : e \in Text
  BY Lone, EngineIds DEF Word
<1>2. MeansTargets(r, p, a, b) =>
        a[1] = "targets" /\ \E e \in EngineId : p = Under(<<"sqe">>, e)
  BY DEF MeansTargets
<1>3. MeansAlive(r, p, a, b) =>
        a[1] = "alive" /\ \E e \in EngineId : p = Under(<<"sqe">>, e)
  BY DEF MeansAlive
<1>4. MeansStream(r, p, a, b) =>
        a[1] = "rel" /\ \E e \in EngineId : p = Under(<<"sqe">>, e)
  BY DEF MeansStream
<1>5. MeansStatus(r, p, a, b) =>
        b[1] = "status" /\ \E c, e \in Text : p = Under(Under(c, e), <<"rel">>)
  BY <1>1 DEF MeansStatus
<1> QED
  BY <1>2, <1>3, <1>4, <1>5

LEMMA ShortSays ==
  ASSUME NEW r, NEW p, NEW a, NEW b, MeansShort(r, p, a, b)
  PROVE  a[1] = "sis" /\ b[1] \in Short
BY DEF MeansShort, Short

\* Each of the eight says one thing.
LEMMA SameShort ==
  ASSUME NEW p, NEW a, NEW b, NEW r, MeansShort(r, p, a, b), NEW s, MeansShort(s, p, a, b)
  PROVE  r = s
BY DEF MeansShort

LEMMA SameLong ==
  ASSUME NEW p, NEW a, NEW b, NEW r, MeansLong(r, p, a, b), NEW s, MeansLong(s, p, a, b)
  PROVE  r = s
<1>1. PICK c \in Text, x \in Long :
        /\ p = Under(c, <<"sis">>) /\ a = <<x[2]>> /\ b = <<x[3]>>
        /\ r = <<"request", <<c, x[1]>>>>
  BY DEF MeansLong
<1>2. PICK d \in Text, y \in Long :
        /\ p = Under(d, <<"sis">>) /\ a = <<y[2]>> /\ b = <<y[3]>>
        /\ s = <<"request", <<d, y[1]>>>>
  BY DEF MeansLong
<1>3. c = d
  <2>1. "sis" \in Word
    BY DEF Word
  <2>2. Under(c, <<"sis">>) = Under(d, <<"sis">>)
    BY <1>1, <1>2
  <2> QED
    BY ONLY <2>1, <2>2, OneUnder, c \in Text, d \in Text
<1>4. x[2] = y[2] /\ x[3] = y[3]
  BY <1>1, <1>2
<1>5. x[1] = y[1]
  BY <1>4 DEF Long
<1> QED
  BY <1>1, <1>2, <1>3, <1>5

LEMMA SameDevice ==
  ASSUME NEW p, NEW a, NEW b, NEW r, MeansDevice(r, p, a, b), NEW s, MeansDevice(s, p, a, b)
  PROVE  r = s
<1>1. PICK c \in Text, x \in DeviceFamily :
        p = Under(c, <<x[2]>>) /\ a = <<x[3]>> /\ r = <<x[1], <<c, b>>>>
  BY DEF MeansDevice
<1>2. PICK d \in Text, y \in DeviceFamily :
        p = Under(d, <<y[2]>>) /\ a = <<y[3]>> /\ s = <<y[1], <<d, b>>>>
  BY DEF MeansDevice
<1>3. x[2] \in Word /\ y[2] \in Word
  BY DEF DeviceFamily, Word
<1>4. c = d /\ x[2] = y[2]
  <2>1. Under(c, <<x[2]>>) = Under(d, <<y[2]>>)
    BY <1>1, <1>2
  <2> QED
    BY ONLY <1>3, <2>1, OneUnder, c \in Text, d \in Text
<1>5. x[1] = y[1]
  BY <1>4 DEF DeviceFamily
<1> QED
  BY <1>1, <1>2, <1>4, <1>5

LEMMA SameMarker ==
  ASSUME NEW p, NEW a, NEW b, NEW r, MeansMarker(r, p, a, b), NEW s, MeansMarker(s, p, a, b)
  PROVE  r = s
<1>1. "cfg" \in Word /\ "marker" \in Word
  BY DEF Word
<1>2. PICK c \in Text : p = Under(Under(c, <<"cfg">>), <<"marker">>) /\ r = <<"marker", <<c, a, b>>>>
  BY DEF MeansMarker
<1>3. PICK d \in Text : p = Under(Under(d, <<"cfg">>), <<"marker">>) /\ s = <<"marker", <<d, a, b>>>>
  BY DEF MeansMarker
<1>4. Under(c, <<"cfg">>) \in Text /\ Under(d, <<"cfg">>) \in Text
  BY <1>1, Lone, UnderType
<1>5. Under(c, <<"cfg">>) = Under(d, <<"cfg">>)
  <2>1. Under(Under(c, <<"cfg">>), <<"marker">>) = Under(Under(d, <<"cfg">>), <<"marker">>)
    BY <1>2, <1>3
  <2> QED
    BY ONLY <1>1, <1>4, <2>1, OneUnder
<1>6. c = d
  BY <1>1, <1>5, OneUnder
<1> QED
  BY <1>2, <1>3, <1>6

LEMMA SameEngine ==
  ASSUME NEW p, NEW a, NEW b, NEW r, NEW s,
         \/ MeansTargets(r, p, a, b) /\ MeansTargets(s, p, a, b)
         \/ MeansAlive(r, p, a, b) /\ MeansAlive(s, p, a, b)
         \/ MeansStream(r, p, a, b) /\ MeansStream(s, p, a, b)
         \/ MeansStatus(r, p, a, b) /\ MeansStatus(s, p, a, b)
  PROVE  r = s
<1>1. \A e, f \in EngineId : Under(<<"sqe">>, e) = Under(<<"sqe">>, f) => e = f
  BY EnginePart
<1>2. CASE MeansTargets(r, p, a, b) /\ MeansTargets(s, p, a, b)
  BY <1>1, <1>2 DEF MeansTargets
<1>3. CASE MeansAlive(r, p, a, b) /\ MeansAlive(s, p, a, b)
  <2>1. PICK e \in EngineId, m \in Number :
          p = Under(<<"sqe">>, e) /\ b = Decimal[m] /\ r = <<"alive", <<e, m>>>>
    BY <1>3 DEF MeansAlive
  <2>2. PICK f \in EngineId, n \in Number :
          p = Under(<<"sqe">>, f) /\ b = Decimal[n] /\ s = <<"alive", <<f, n>>>>
    BY <1>3 DEF MeansAlive
  <2>3. m \in Nat /\ n \in Nat
    BY ConstantsOK DEF ConstantsOK
  <2>4. m = n
    BY <2>1, <2>2, <2>3, DecimalsDiffer
  <2>5. e = f
    BY <1>1, <2>1, <2>2
  <2> QED
    BY <2>1, <2>2, <2>4, <2>5
<1>4. CASE MeansStream(r, p, a, b) /\ MeansStream(s, p, a, b)
  BY <1>1, <1>4 DEF MeansStream
<1>5. CASE MeansStatus(r, p, a, b) /\ MeansStatus(s, p, a, b)
  <2>1. PICK e \in EngineId :
          p = Under(Under(<<"sqe">>, e), <<"rel">>) /\ r = <<"status", <<e, a>>>>
    BY <1>5 DEF MeansStatus
  <2>2. PICK f \in EngineId :
          p = Under(Under(<<"sqe">>, f), <<"rel">>) /\ s = <<"status", <<f, a>>>>
    BY <1>5 DEF MeansStatus
  <2>3. Under(<<"sqe">>, e) \in Text /\ Under(<<"sqe">>, f) \in Text /\ "rel" \in Word
    BY EnginePart DEF Word
  <2>4. Under(<<"sqe">>, e) = Under(<<"sqe">>, f)
    <3>1. Under(Under(<<"sqe">>, e), <<"rel">>) = Under(Under(<<"sqe">>, f), <<"rel">>)
      BY <2>1, <2>2
    <3> QED
      BY ONLY <2>3, <3>1, OneUnder
  <2> QED
    BY <1>1, <2>1, <2>2, <2>4
<1> QED
  BY <1>2, <1>3, <1>4, <1>5

LEMMA SameKind ==
  ASSUME NEW p, NEW a, NEW b, NEW r, NEW s,
         \/ MeansShort(r, p, a, b) /\ MeansShort(s, p, a, b)
         \/ MeansLong(r, p, a, b) /\ MeansLong(s, p, a, b)
         \/ MeansDevice(r, p, a, b) /\ MeansDevice(s, p, a, b)
         \/ MeansMarker(r, p, a, b) /\ MeansMarker(s, p, a, b)
         \/ MeansTargets(r, p, a, b) /\ MeansTargets(s, p, a, b)
         \/ MeansAlive(r, p, a, b) /\ MeansAlive(s, p, a, b)
         \/ MeansStream(r, p, a, b) /\ MeansStream(s, p, a, b)
         \/ MeansStatus(r, p, a, b) /\ MeansStatus(s, p, a, b)
  PROVE  r = s
BY SameShort, SameLong, SameDevice, SameMarker, SameEngine

\* No two of them say something of the same key, but for the two the
\* property excepts.
BySecondChunk(r, p, a, b) ==
  \/ MeansLong(r, p, a, b) \/ MeansDevice(r, p, a, b) \/ MeansTargets(r, p, a, b)
  \/ MeansAlive(r, p, a, b) \/ MeansStream(r, p, a, b)

LEMMA MarkerApart ==
  ASSUME NEW p, NEW a, NEW b, NEW r, MeansMarker(r, p, a, b), NEW s,
         BySecondChunk(s, p, a, b) \/ MeansStatus(s, p, a, b)
  PROVE  FALSE
<1>1. \A w \in {"cfg", "marker", "sis", "str", "rel"} : w \in Word /\ <<w>> \in Text
  BY Lone DEF Word
<1>2. PICK c \in Text : p = Under(Under(c, <<"cfg">>), <<"marker">>)
  BY DEF MeansMarker
<1> DEFINE q == Under(c, <<"cfg">>)
<1>3. q \in Text
  BY <1>1, UnderType
<1>4. \A d \in Text, w \in {"sis", "cfg", "str", "rel"} : p # Under(d, <<w>>)
  <2> HIDE DEF q
  <2>1. p = Under(q, <<"marker">>)
    BY <1>2 DEF q
  <2>2. ASSUME NEW d \in Text, NEW w \in {"sis", "cfg", "str", "rel"}, p = Under(d, <<w>>)
        PROVE  FALSE
    <3>1. w \in Word /\ "marker" \in Word /\ w # "marker"
      BY <1>1
    <3>2. Under(q, <<"marker">>) = Under(d, <<w>>)
      BY <2>1, <2>2
    <3> QED
      BY ONLY <1>3, <3>1, <3>2, OneUnder, d \in Text
  <2> QED
    BY <2>2
<1>5. \A e \in EngineId : p # Under(<<"sqe">>, e)
  BY <1>1, <1>2, EnginePart
<1>6. ~MeansLong(s, p, a, b)
  BY <1>4, LongSays
<1>7. ~MeansDevice(s, p, a, b)
  BY <1>4, DeviceSays
<1>8. ~MeansTargets(s, p, a, b) /\ ~MeansAlive(s, p, a, b) /\ ~MeansStream(s, p, a, b)
  BY <1>5, EngineSays
<1>9. ~MeansStatus(s, p, a, b)
  <2>1. ASSUME NEW d \in Text, NEW e \in Text, p = Under(Under(d, e), <<"rel">>) PROVE FALSE
    BY <1>4, <2>1, UnderType
  <2> QED
    BY <2>1, EngineSays
<1> QED
  BY <1>6, <1>7, <1>8, <1>9 DEF BySecondChunk

LEMMA StatusApart ==
  ASSUME NEW p, NEW a, NEW b, NEW r, MeansStatus(r, p, a, b), NEW s,
         BySecondChunk(s, p, a, b)
  PROVE  FALSE
<1>1. \A w \in {"cfg", "sis", "str", "rel"} : w \in Word
  BY DEF Word
<1>2. PICK c \in Text, d \in Text : p = Under(Under(c, d), <<"rel">>)
  BY EngineSays
<1> DEFINE q == Under(c, d)
<1>3. q \in Text
  BY UnderType
<1>4. \A f \in Text, w \in {"sis", "cfg", "str"} : p # Under(f, <<w>>)
  <2> HIDE DEF q
  <2>1. p = Under(q, <<"rel">>)
    BY <1>2 DEF q
  <2>2. ASSUME NEW f \in Text, NEW w \in {"sis", "cfg", "str"}, p = Under(f, <<w>>)
        PROVE  FALSE
    <3>1. w \in Word /\ "rel" \in Word /\ w # "rel"
      BY <1>1
    <3>2. Under(q, <<"rel">>) = Under(f, <<w>>)
      BY <2>1, <2>2
    <3> QED
      BY ONLY <1>3, <3>1, <3>2, OneUnder, f \in Text
  <2> QED
    BY <2>2
<1>5. \A e \in EngineId : p # Under(<<"sqe">>, e)
  BY <1>1, <1>2, EnginePart
<1>6. ~MeansLong(s, p, a, b)
  BY <1>4, LongSays
<1>7. ~MeansDevice(s, p, a, b)
  BY <1>4, DeviceSays
<1>8. ~MeansTargets(s, p, a, b) /\ ~MeansAlive(s, p, a, b) /\ ~MeansStream(s, p, a, b)
  BY <1>5, EngineSays
<1> QED
  BY <1>6, <1>7, <1>8 DEF BySecondChunk

LEMMA ShortApart ==
  ASSUME NEW p, NEW a, NEW b, NEW r, MeansShort(r, p, a, b), NEW s,
         BySecondChunk(s, p, a, b) \/ MeansStatus(s, p, a, b)
  PROVE  FALSE
<1>1. a[1] = "sis" /\ b[1] \in Short
  BY ShortSays
<1>2. MeansLong(s, p, a, b) => a[1] \in Spoken
  BY LongSays
<1>3. MeansDevice(s, p, a, b) => a[1] \in {"desc", "trk"}
  BY DeviceSays
<1>4. /\ MeansTargets(s, p, a, b) => a[1] = "targets"
      /\ MeansAlive(s, p, a, b) => a[1] = "alive"
      /\ MeansStream(s, p, a, b) => a[1] = "rel"
      /\ MeansStatus(s, p, a, b) => b[1] = "status"
  BY EngineSays
<1> QED
  BY <1>1, <1>2, <1>3, <1>4 DEF BySecondChunk, Spoken, Short

LEMMA SecondChunkApart ==
  ASSUME NEW p, NEW a, NEW b, NEW r, BySecondChunk(r, p, a, b), NEW s, BySecondChunk(s, p, a, b)
  PROVE  r = s
<1>1. \A x : /\ MeansLong(x, p, a, b) => a[1] \in Spoken
             /\ MeansDevice(x, p, a, b) => a[1] \in {"desc", "trk"}
             /\ MeansTargets(x, p, a, b) => a[1] = "targets"
             /\ MeansAlive(x, p, a, b) => a[1] = "alive"
             /\ MeansStream(x, p, a, b) => a[1] = "rel"
  BY LongSays, DeviceSays, EngineSays
<1>2. \/ MeansLong(r, p, a, b) /\ MeansLong(s, p, a, b)
      \/ MeansDevice(r, p, a, b) /\ MeansDevice(s, p, a, b)
      \/ MeansTargets(r, p, a, b) /\ MeansTargets(s, p, a, b)
      \/ MeansAlive(r, p, a, b) /\ MeansAlive(s, p, a, b)
      \/ MeansStream(r, p, a, b) /\ MeansStream(s, p, a, b)
  BY <1>1 DEF BySecondChunk, Spoken
<1> QED
  BY <1>2, SameKind

\* The exception: the name of a marker has two tokens and a number.
LEMMA NotAMarker ==
  ASSUME NEW w
  PROVE  <<w>> \notin MarkerName
<1> SUFFICES ASSUME <<w>> \in MarkerName PROVE FALSE
  OBVIOUS
<1>1. PICK kind \in DOMAIN marker_prefix, id \in Number :
        <<w>> = <<marker_prefix[kind], "__sis_marker__">> \o Decimal[id]
  BY DEF MarkerName, marker_node_name
<1>2. id \in Nat
  BY ConstantsOK DEF ConstantsOK
<1> DEFINE D == Decimal[id]
           two == <<marker_prefix[kind], "__sis_marker__">>
           All == Char \cup {marker_prefix[kind], "__sis_marker__"}
<1>3. D \in Text /\ Len(D) \in Nat
  BY <1>2, DecimalDigits DEF Text
<1>4. D \in Seq(All) /\ two \in Seq(All) /\ Len(two) = 2
  BY <1>3 DEF Text
<1> HIDE DEF D, two, All
<1>5. Len(two \o D) = Len(two) + Len(D)
  BY ONLY <1>4, ConcatProperties
<1>6. Len(<<w>>) = 1
  OBVIOUS
<1>7. <<w>> = two \o D
  BY <1>1 DEF two, D
<1>8. 1 = 2 + Len(D)
  BY <1>4, <1>5, <1>6, <1>7
<1> QED
  BY <1>3, <1>8

LEMMA Excepted ==
  ASSUME NEW p, NEW a, NEW b, NEW r, MeansMarker(r, p, a, b), NEW s, MeansShort(s, p, a, b)
  PROVE  r[1] = "marker" /\ r[2][3] \notin MarkerName /\ s[1] = "request"
<1>1. r[1] = "marker" /\ r[2][3] = b
  <2>1. PICK c \in Text : r = <<"marker", <<c, a, b>>>>
    BY DEF MeansMarker
  <2> QED
    BY <2>1
<1>2. PICK w \in Short : b = <<w>> /\ s = <<"request", <<p, w>>>>
  BY DEF MeansShort
<1> QED
  BY <1>1, <1>2, NotAMarker

(* A key means one thing, whatever words ids, names and handles contain    *)
(* and however many chunks a client id has: what is behind the last two    *)
(* slashes, and what is before them, tells the requests, announcements,    *)
(* descriptors, streams, statuses and tokens of everybody apart, but for   *)
(* a marker that marker_node_name did not name (client_id.h, tracker.h,    *)
(* topics.h).                                                              *)
THEOREM KeysApart == Spec => []OneMeaningPerKey
<1>1. ASSUME key \in Text, NEW r \in Reading, NEW s \in Reading
      PROVE  r = s \/ \E x \in {r, s} : x[1] = "marker" /\ x[2][3] \notin MarkerName
                                          /\ {r[1], s[1]} = {"marker", "request"}
  <2>1. PICK p, a, b : Ends(key, p, a, b) /\ Means(r, p, a, b)
    BY <1>1, Readings
  <2>2. PICK q, c, d : Ends(key, q, c, d) /\ Means(s, q, c, d)
    BY <1>1, Readings
  <2>3. Means(s, p, a, b)
    <3>1. p = q /\ a = c /\ b = d
      BY <2>1, <2>2, OneEnd
    <3> QED
      BY <2>2, <3>1
  <2>4. \A x : Means(x, p, a, b) =>
          \/ MeansShort(x, p, a, b) \/ MeansMarker(x, p, a, b)
          \/ MeansStatus(x, p, a, b) \/ BySecondChunk(x, p, a, b)
    BY DEF Means, BySecondChunk
  <2>5. \/ r = s
        \/ MeansMarker(r, p, a, b) /\ MeansShort(s, p, a, b)
        \/ MeansShort(r, p, a, b) /\ MeansMarker(s, p, a, b)
    <3>1. \/ MeansShort(r, p, a, b) \/ MeansMarker(r, p, a, b)
          \/ MeansStatus(r, p, a, b) \/ BySecondChunk(r, p, a, b)
      BY <2>1, <2>4
    <3>2. \/ MeansShort(s, p, a, b) \/ MeansMarker(s, p, a, b)
          \/ MeansStatus(s, p, a, b) \/ BySecondChunk(s, p, a, b)
      BY <2>3, <2>4
    <3> QED
      BY ONLY <3>1, <3>2, SameKind, ShortApart, MarkerApart, StatusApart, SecondChunkApart
  <2> QED
    BY <2>5, Excepted
<1>2. key \in Text => OneMeaningPerKey
  BY <1>1 DEF OneMeaningPerKey
<1> QED
  BY <1>2, Keyed, PTL

===========================================================================
