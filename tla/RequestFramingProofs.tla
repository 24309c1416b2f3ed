------------------------ MODULE RequestFramingProofs ------------------------
(***************************************************************************)
(* What the two strings of the service plugin tell apart, for names of any *)
(* length and any characters: the key of the cache is the key of one check *)
(* only, and the agent reads exactly the names the plugin wrote.           *)
(*                                                                         *)
(* Numbers and digits are defined by recursion.  Facts about them are      *)
(* proved by looking at the least number that would be a counterexample.   *)
(***************************************************************************)
EXTENDS RequestFraming, WellFoundedInduction, SequenceTheorems, TLAPS

Below == {p \in Nat \X Nat : p[1] < p[2]}

LEMMA BelowWellFounded == IsWellFoundedOn(Below, Nat)
BY NatLessThanWellFounded DEF OpToRel, Below

(* A set of numbers has a least one.                                       *)
LEMMA Least ==
    ASSUME NEW T, T \subseteq Nat, T # {}
    PROVE  \E n \in T : \A m \in T : n <= m
<1>1. PICK n \in T : \A m \in T : <<m, n>> \notin Below
      BY BelowWellFounded, WFMin
<1>2. ASSUME NEW m \in T PROVE n <= m
  <2>1. <<m, n>> \notin Below
        BY <1>1
  <2>2. m \in Nat /\ n \in Nat
        OBVIOUS
  <2>3. ~(m < n)
        BY <2>1, <2>2 DEF Below
  <2> QED BY <2>2, <2>3
<1> QED BY <1>2

(* If every number has a property that the smaller ones have, all have it. *)
LEMMA Induction ==
    ASSUME NEW Good, \A n \in Nat : (\A m \in 0 .. n - 1 : m \in Good) => n \in Good
    PROVE  Nat \subseteq Good
<1>1. SUFFICES ASSUME Nat \ Good # {} PROVE FALSE
      OBVIOUS
<1>2. PICK n \in Nat \ Good : \A m \in Nat \ Good : n <= m
  <2>1. Nat \ Good \subseteq Nat
        OBVIOUS
  <2> QED BY <1>1, <2>1, Least
<1>3. \A m \in 0 .. n - 1 : m \in Good
      BY <1>2
<1> QED BY <1>2, <1>3
-----------------------------------------------------------------------------
(* Recursion: f[x] = base[x] on a set of base cases, and step[x, f[y]]     *)
(* with y = pred[x] of a lower rank elsewhere, has a solution.             *)
Solves(f, x, Base, base, pred, step) ==
    f[x] = IF x \in Base THEN base[x] ELSE step[<<x, f[pred[x]]>>]

LEMMA RecursionHasSolution ==
    ASSUME NEW S, NEW V, NEW Base, NEW rank \in [S -> Nat], NEW base \in [S -> V],
           NEW pred \in [S -> S], NEW step \in [S \X V -> V],
           \A x \in S : x \notin Base => rank[pred[x]] < rank[x]
    PROVE  \E f \in [S -> V] : \A x \in S : Solves(f, x, Base, base, pred, step)
<1> DEFINE Upto(n, f) == \A x \in S : rank[x] < n => Solves(f, x, Base, base, pred, step)
           Approximated == {n \in Nat : \E f \in [S -> V] : Upto(n, f)}
           Unique == {n \in Nat : \A f, g \in [S -> V] : Upto(n, f) /\ Upto(n, g) =>
                                      \A x \in S : rank[x] < n => f[x] = g[x]}
           After(f) == [x \in S |-> IF x \in Base THEN base[x] ELSE step[<<x, f[pred[x]]>>]]
<1>1. ASSUME NEW n \in Nat, \A m \in 0 .. n - 1 : m \in Approximated
      PROVE  n \in Approximated
  <2>1. CASE n = 0
    <3>1. base \in [S -> V] /\ Upto(0, base)
          OBVIOUS
    <3> QED BY <2>1, <3>1
  <2>2. CASE n # 0
    <3>1. n - 1 \in Approximated
          BY <1>1, <2>2
    <3>2. PICK f \in [S -> V] : Upto(n - 1, f)
          BY <3>1
    <3>3. After(f) \in [S -> V]
          OBVIOUS
    <3>4. ASSUME NEW x \in S, rank[x] < n - 1 PROVE After(f)[x] = f[x]
          BY <3>2, <3>4 DEF Solves
    <3>5. ASSUME NEW x \in S, rank[x] < n
          PROVE  Solves(After(f), x, Base, base, pred, step)
      <4>1. CASE x \in Base
            BY <4>1 DEF Solves
      <4>2. CASE x \notin Base
        <5>1. pred[x] \in S /\ rank[pred[x]] < n - 1
              BY <3>5, <4>2
        <5>2. After(f)[pred[x]] = f[pred[x]]
              BY <5>1, <3>4
        <5>3. After(f)[x] = step[<<x, f[pred[x]]>>]
              BY <4>2
        <5> HIDE DEF After
        <5> QED BY <4>2, <5>2, <5>3 DEF Solves
      <4> QED BY <4>1, <4>2
    <3> QED BY <3>3, <3>5
  <2> QED BY <2>1, <2>2
<1>2. ASSUME NEW n \in Nat, \A m \in 0 .. n - 1 : m \in Unique
      PROVE  n \in Unique
  <2>1. SUFFICES ASSUME NEW f \in [S -> V], NEW g \in [S -> V], Upto(n, f), Upto(n, g),
                        NEW x \in S, rank[x] < n
                 PROVE  f[x] = g[x]
        OBVIOUS
  <2>2. CASE x \in Base
        BY <2>1, <2>2 DEF Solves
  <2>3. CASE x \notin Base
    <3>1. pred[x] \in S /\ rank[pred[x]] < rank[x] /\ rank[x] \in Nat /\ rank[pred[x]] \in Nat
          BY <2>3
    <3>2. rank[x] \in Unique
          BY <1>2, <2>1, <3>1
    <3>3. Upto(rank[x], f) /\ Upto(rank[x], g)
          BY <2>1, <3>1
    <3>4. f[pred[x]] = g[pred[x]]
          BY <3>1, <3>2, <3>3
    <3> QED BY <2>1, <2>3, <3>4 DEF Solves
  <2> QED BY <2>2, <2>3
<1>3. Nat \subseteq Approximated /\ Nat \subseteq Unique
  <2> HIDE DEF Approximated, Unique
  <2>1. Nat \subseteq Approximated
        BY <1>1, Induction
  <2>2. Nat \subseteq Unique
        BY <1>2, Induction
  <2> QED BY <2>1, <2>2
<1> DEFINE H(n) == CHOOSE f \in [S -> V] : Upto(n, f)
           F == [x \in S |-> H(rank[x] + 1)[x]]
<1>4. ASSUME NEW n \in Nat PROVE H(n) \in [S -> V] /\ Upto(n, H(n))
      BY <1>3
<1>5. F \in [S -> V]
  <2>1. ASSUME NEW x \in S PROVE H(rank[x] + 1)[x] \in V
    <3>1. rank[x] + 1 \in Nat
          OBVIOUS
    <3>2. H(rank[x] + 1) \in [S -> V]
          BY <3>1, <1>4
    <3> HIDE DEF H
    <3> QED BY <3>2
  <2> HIDE DEF H
  <2> QED BY <2>1
<1>6. ASSUME NEW x \in S PROVE Solves(F, x, Base, base, pred, step)
  <2>1. rank[x] + 1 \in Nat
        OBVIOUS
  <2>2. Solves(H(rank[x] + 1), x, Base, base, pred, step)
    <3> HIDE DEF H
    <3>1. Upto(rank[x] + 1, H(rank[x] + 1))
      <4> HIDE DEF Upto
      <4> QED BY <2>1, <1>4
    <3>2. rank[x] < rank[x] + 1
          OBVIOUS
    <3> QED BY <3>1, <3>2
  <2>3. F[x] = H(rank[x] + 1)[x]
        OBVIOUS
  <2>4. CASE x \in Base
    <3> HIDE DEF H, F
    <3> QED BY <2>2, <2>3, <2>4 DEF Solves
  <2>5. CASE x \notin Base
    <3> DEFINE y == pred[x]
    <3>1. y \in S /\ rank[y] + 1 \in Nat /\ rank[y] < rank[x] /\ rank[x] \in Nat
          BY <2>5
    <3>2. Upto(rank[x] + 1, H(rank[x] + 1)) /\ Upto(rank[y] + 1, H(rank[y] + 1))
          BY <2>1, <3>1, <1>4
    <3>3. Upto(rank[y] + 1, H(rank[x] + 1))
          BY <3>1, <3>2
    <3>4. H(rank[x] + 1)[y] = H(rank[y] + 1)[y]
      <4>1. rank[y] + 1 \in Unique
        <5> HIDE DEF Unique, y
        <5> QED BY <3>1, <1>3
      <4>2. rank[y] < rank[y] + 1
            BY <3>1
      <4>3. H(rank[x] + 1) \in [S -> V] /\ H(rank[y] + 1) \in [S -> V]
            BY <2>1, <3>1, <1>4
      <4> HIDE DEF H, Upto
      <4> QED BY <3>1, <3>2, <3>3, <4>1, <4>2, <4>3
    <3>5. F[y] = H(rank[x] + 1)[y]
          BY <3>1, <3>4
    <3> HIDE DEF H, F
    <3> QED BY <2>2, <2>3, <2>5, <3>5 DEF Solves
  <2> QED BY <2>4, <2>5
<1> HIDE DEF F
<1> QED BY <1>5, <1>6
-----------------------------------------------------------------------------
(* Digits.                                                                 *)

LEMMA DigitsAreTen == DOMAIN Digits = 1 .. 10
BY DEF Digits

LEMMA DigitSetIs == DigitSet = {"0", "1", "2", "3", "4", "5", "6", "7", "8", "9"}
<1>1. DigitSet = {Digits[d] : d \in 1 .. 10}
      BY DigitsAreTen DEF DigitSet
<1>2. /\ Digits[1] = "0" /\ Digits[2] = "1" /\ Digits[3] = "2" /\ Digits[4] = "3"
      /\ Digits[5] = "4" /\ Digits[6] = "5" /\ Digits[7] = "6" /\ Digits[8] = "7"
      /\ Digits[9] = "8" /\ Digits[10] = "9"
      BY DEF Digits
<1>3. \A d \in 1 .. 10 : \/ d = 1 \/ d = 2 \/ d = 3 \/ d = 4 \/ d = 5
                          \/ d = 6 \/ d = 7 \/ d = 8 \/ d = 9 \/ d = 10
      OBVIOUS
<1> QED BY <1>1, <1>2, <1>3

LEMMA DigitsDiffer == \A c, d \in 1 .. 10 : Digits[c] = Digits[d] => c = d
BY DEF Digits

LEMMA DigitOf == \A d \in 0 .. 9 : Digits[d + 1] \in DigitSet /\ DigitValue(Digits[d + 1]) = d
<1>1. SUFFICES ASSUME NEW d \in 0 .. 9
               PROVE  Digits[d + 1] \in DigitSet /\ DigitValue(Digits[d + 1]) = d
      OBVIOUS
<1>2. d + 1 \in DOMAIN Digits
      BY DigitsAreTen
<1>3. Digits[d + 1] \in DigitSet
      BY <1>2 DEF DigitSet
<1> DEFINE c == CHOOSE c \in DOMAIN Digits : Digits[c] = Digits[d + 1]
<1>4. c \in DOMAIN Digits /\ Digits[c] = Digits[d + 1]
      BY <1>2
<1>5. c = d + 1
  <2> HIDE DEF c
  <2> QED BY <1>2, <1>4, DigitsAreTen, DigitsDiffer
<1>6. DigitValue(Digits[d + 1]) = c - 1
      BY DEF DigitValue
<1> HIDE DEF c
<1> QED BY <1>3, <1>5, <1>6

LEMMA DigitValueType == \A c \in DigitSet : DigitValue(c) \in 0 .. 9
<1>1. SUFFICES ASSUME NEW c \in DigitSet PROVE DigitValue(c) \in 0 .. 9
      OBVIOUS
<1>2. PICK d \in 1 .. 10 : c = Digits[d]
      BY DigitsAreTen DEF DigitSet
<1>3. d - 1 \in 0 .. 9 /\ (d - 1) + 1 = d
      OBVIOUS
<1> QED BY <1>2, <1>3, DigitOf

LEMMA SeparatorsAreNoDigits == Separator \notin DigitSet /\ Blank \notin DigitSet
<1>1. /\ Blank # "0" /\ Blank # "1" /\ Blank # "2" /\ Blank # "3" /\ Blank # "4"
      /\ Blank # "5" /\ Blank # "6" /\ Blank # "7" /\ Blank # "8" /\ Blank # "9"
      BY DEF Blank
<1>2. /\ Separator # "0" /\ Separator # "1" /\ Separator # "2" /\ Separator # "3"
      /\ Separator # "4" /\ Separator # "5" /\ Separator # "6" /\ Separator # "7"
      /\ Separator # "8" /\ Separator # "9"
      BY DEF Separator
<1> QED BY <1>1, <1>2, DigitSetIs
-----------------------------------------------------------------------------
(* A number as a sequence of digits.                                       *)

LEMMA DivMod ==
    \A n \in Nat : /\ n \div 10 \in Nat /\ n % 10 \in 0 .. 9 /\ n = 10 * (n \div 10) + (n % 10)
                   /\ n >= 10 => n \div 10 < n
                   /\ n < 10 => n % 10 = n
OBVIOUS

ToString(f) ==
    [n \in Nat |-> IF n < 10 THEN <<Digits[n + 1]>> ELSE f[n \div 10] \o <<Digits[(n % 10) + 1]>>]

LEMMA ToStringExists == \E f : f = ToString(f)
<1> DEFINE S == Seq(DigitSet)
           Low == 0 .. 9
           rank == [n \in Nat |-> n]
           base == [n \in Nat |-> <<Digits[(n % 10) + 1]>>]
           pred == [n \in Nat |-> n \div 10]
           step == [p \in Nat \X S |-> p[2] \o <<Digits[(p[1] % 10) + 1]>>]
<1>1. \A n \in Nat : <<Digits[(n % 10) + 1]>> \in S
      BY DivMod, DigitOf
<1>2. /\ rank \in [Nat -> Nat] /\ base \in [Nat -> S] /\ pred \in [Nat -> Nat]
      /\ \A n \in Nat : n \notin Low => rank[pred[n]] < rank[n]
      BY <1>1, DivMod
<1>3. step \in [Nat \X S -> S]
  <2>1. ASSUME NEW p \in Nat \X S PROVE p[2] \o <<Digits[(p[1] % 10) + 1]>> \in S
    <3>1. p[2] \in S /\ <<Digits[(p[1] % 10) + 1]>> \in S
          BY <1>1
    <3> QED BY <3>1, ConcatProperties
  <2> QED BY <2>1
<1>4. PICK f \in [Nat -> S] : \A n \in Nat : Solves(f, n, Low, base, pred, step)
  <2> HIDE DEF S, Low, rank, base, pred, step
  <2> QED BY <1>2, <1>3, RecursionHasSolution
<1>5. ASSUME NEW n \in Nat PROVE f[n] = ToString(f)[n]
  <2>1. CASE n < 10
        BY <2>1, <1>4, DivMod DEF Solves, ToString
  <2>2. CASE ~(n < 10)
    <3>1. n \notin Low /\ pred[n] = n \div 10 /\ n \div 10 \in Nat
          BY <2>2, DivMod
    <3>2. f[n \div 10] \in S
          BY <3>1
    <3>3. f[n] = step[<<n, f[n \div 10]>>]
      <4> HIDE DEF Low, pred, step, base, S
      <4> QED BY <3>1, <1>4 DEF Solves
    <3>4. step[<<n, f[n \div 10]>>] = f[n \div 10] \o <<Digits[(n % 10) + 1]>>
          BY <3>2
    <3> HIDE DEF step, S
    <3> QED BY <2>2, <3>3, <3>4 DEF ToString
  <2> QED BY <2>1, <2>2
<1>6. f = ToString(f)
      BY <1>5 DEF ToString
<1> QED BY <1>6

(* std::to_string by its equation.                                         *)
LEMMA ToStringIs ==
    \A n \in Nat : to_string[n] = IF n < 10 THEN <<Digits[n + 1]>>
                                  ELSE to_string[n \div 10] \o <<Digits[(n % 10) + 1]>>
<1>1. to_string = CHOOSE f : f = ToString(f)
      BY Zenon DEF to_string, ToString
<1>2. to_string = ToString(to_string)
      BY <1>1, ToStringExists
<1> QED BY <1>2 DEF ToString

LEMMA ToStringType == \A n \in Nat : to_string[n] \in Seq(DigitSet) /\ to_string[n] # <<>>
<1> DEFINE Good == {n \in Nat : to_string[n] \in Seq(DigitSet) /\ to_string[n] # <<>>}
<1>1. ASSUME NEW n \in Nat, \A m \in 0 .. n - 1 : m \in Good
      PROVE  n \in Good
  <2>1. CASE n < 10
    <3>1. Digits[n + 1] \in DigitSet
          BY <2>1, DigitOf
    <3>2. to_string[n] = <<Digits[n + 1]>>
          BY <2>1, ToStringIs
    <3>3. <<Digits[n + 1]>> \in Seq(DigitSet) /\ Len(<<Digits[n + 1]>>) = 1
          BY <3>1
    <3> QED BY <3>2, <3>3, EmptySeq
  <2>2. CASE ~(n < 10)
    <3>1. n \div 10 \in 0 .. n - 1
          BY <2>2, DivMod
    <3>2. to_string[n \div 10] \in Seq(DigitSet)
          BY <1>1, <3>1
    <3>3. Digits[(n % 10) + 1] \in DigitSet
          BY DivMod, DigitOf
    <3>4. <<Digits[(n % 10) + 1]>> \in Seq(DigitSet) /\ Len(<<Digits[(n % 10) + 1]>>) = 1
          BY <3>3
    <3>5. to_string[n] = to_string[n \div 10] \o <<Digits[(n % 10) + 1]>>
          BY <2>2, ToStringIs
    <3>6. to_string[n] \in Seq(DigitSet) /\ Len(to_string[n]) = Len(to_string[n \div 10]) + 1
          BY <3>2, <3>4, <3>5, ConcatProperties
    <3>7. Len(to_string[n \div 10]) \in Nat /\ Len(<<>>) = 0
          BY <3>2, LenProperties, EmptySeq
    <3> QED BY <3>6, <3>7
  <2> QED BY <2>1, <2>2
<1>2. Nat \subseteq Good
  <2> HIDE DEF Good
  <2> QED BY <1>1, Induction
<1> QED BY <1>2
-----------------------------------------------------------------------------
(* The number a sequence of digits stands for.                             *)

ValueOf(f) ==
    [digits \in Seq(DigitSet) |->
        IF digits = <<>> THEN 0
        ELSE 10 * f[SubSeq(digits, 1, Len(digits) - 1)] + DigitValue(digits[Len(digits)])]

(* The sequence without its last digit.                                    *)
LEMMA Front ==
    ASSUME NEW digits \in Seq(DigitSet), digits # <<>>
    PROVE  /\ SubSeq(digits, 1, Len(digits) - 1) \in Seq(DigitSet)
           /\ Len(SubSeq(digits, 1, Len(digits) - 1)) = Len(digits) - 1
           /\ Len(digits) \in Nat \ {0}
           /\ digits[Len(digits)] \in DigitSet
<1>1. Len(digits) \in Nat \ {0}
      BY EmptySeq
<1>2. \A i \in 1 .. Len(digits) : digits[i] \in DigitSet
      BY ElementOfSeq
<1>3. \A i \in 1 .. Len(digits) - 1 : digits[i] \in DigitSet
      BY <1>1, <1>2
<1>4. /\ SubSeq(digits, 1, Len(digits) - 1) \in Seq(DigitSet)
      /\ Len(SubSeq(digits, 1, Len(digits) - 1)) =
             IF 1 <= Len(digits) - 1 THEN (Len(digits) - 1) - 1 + 1 ELSE 0
      BY <1>1, <1>3, SubSeqProperties
<1>5. Len(digits) \in 1 .. Len(digits)
      BY <1>1
<1>6. digits[Len(digits)] \in DigitSet
      BY <1>2, <1>5
<1>7. Len(SubSeq(digits, 1, Len(digits) - 1)) = Len(digits) - 1
  <2>1. \A n \in Nat \ {0} : (IF 1 <= n - 1 THEN (n - 1) - 1 + 1 ELSE 0) = n - 1
        OBVIOUS
  <2> QED BY <1>1, <1>4, <2>1
<1> QED BY <1>1, <1>4, <1>6, <1>7

LEMMA ValueOfExists == \E f \in [Seq(DigitSet) -> Nat] : f = ValueOf(f)
<1> DEFINE S == Seq(DigitSet)
           Empty == {<<>>}
           rank == [digits \in S |-> Len(digits)]
           base == [digits \in S |-> 0]
           front(digits) == SubSeq(digits, 1, Len(digits) - 1)
           pred == [digits \in S |-> IF digits = <<>> THEN <<>> ELSE front(digits)]
           step == [p \in S \X Nat |-> IF p[1] = <<>> THEN 0
                                       ELSE 10 * p[2] + DigitValue(p[1][Len(p[1])])]
<1>1. /\ rank \in [S -> Nat] /\ base \in [S -> Nat] /\ pred \in [S -> S]
      /\ \A digits \in S : digits \notin Empty => rank[pred[digits]] < rank[digits]
  <2>1. ASSUME NEW digits \in S, digits # <<>>
        PROVE  pred[digits] = front(digits) /\ front(digits) \in S
               /\ Len(front(digits)) < Len(digits)
        BY <2>1, Front
  <2>2. <<>> \in S
        BY EmptySeq
  <2>3. \A digits \in S : Len(digits) \in Nat
        OBVIOUS
  <2> HIDE DEF front
  <2> QED BY <2>1, <2>2, <2>3
<1>2. step \in [S \X Nat -> Nat]
  <2>1. ASSUME NEW p \in S \X Nat, p[1] # <<>>
        PROVE  10 * p[2] + DigitValue(p[1][Len(p[1])]) \in Nat
    <3>1. p[1] \in S /\ p[2] \in Nat
          OBVIOUS
    <3>2. DigitValue(p[1][Len(p[1])]) \in 0 .. 9
          BY <2>1, <3>1, Front, DigitValueType
    <3> QED BY <3>1, <3>2
  <2> QED BY <2>1
<1>3. PICK f \in [S -> Nat] : \A digits \in S : Solves(f, digits, Empty, base, pred, step)
  <2> HIDE DEF S, Empty, rank, base, pred, step
  <2> QED BY <1>1, <1>2, RecursionHasSolution
<1>4. ASSUME NEW digits \in S PROVE f[digits] = ValueOf(f)[digits]
  <2>1. CASE digits = <<>>
        BY <2>1, <1>3 DEF Solves, ValueOf
  <2>2. CASE digits # <<>>
    <3>1. digits \notin Empty /\ pred[digits] = front(digits) /\ front(digits) \in S
          BY <2>2, Front
    <3>2. f[digits] = step[<<digits, f[front(digits)]>>]
      <4> HIDE DEF Empty, pred, step, base, S, front
      <4> QED BY <3>1, <1>3 DEF Solves
    <3>3. f[front(digits)] \in Nat
      <4> HIDE DEF front
      <4> QED BY <3>1
    <3>4. step[<<digits, f[front(digits)]>>] =
              10 * f[front(digits)] + DigitValue(digits[Len(digits)])
      <4> HIDE DEF front
      <4> QED BY <2>2, <3>3
    <3> HIDE DEF step
    <3> QED BY <2>2, <3>2, <3>4 DEF ValueOf
  <2> QED BY <2>1, <2>2
<1>5. f = ValueOf(f)
      BY <1>4 DEF ValueOf
<1> QED BY <1>5

LEMMA ValueOfIs ==
    \A digits \in Seq(DigitSet) :
        valueOf[digits] =
            IF digits = <<>> THEN 0
            ELSE 10 * valueOf[SubSeq(digits, 1, Len(digits) - 1)] + DigitValue(digits[Len(digits)])
<1>1. valueOf = CHOOSE f : f = ValueOf(f)
      BY Zenon DEF valueOf, ValueOf
<1>2. valueOf = ValueOf(valueOf)
      BY <1>1, ValueOfExists
<1> QED BY <1>2 DEF ValueOf

(* One digit more.                                                         *)
LEMMA ValueOfAppended ==
    ASSUME NEW digits \in Seq(DigitSet), NEW c \in DigitSet
    PROVE  valueOf[digits \o <<c>>] = 10 * valueOf[digits] + DigitValue(c)
<1> DEFINE longer == digits \o <<c>>
<1>1. <<c>> \in Seq(DigitSet) /\ Len(<<c>>) = 1 /\ <<c>>[1] = c /\ Len(digits) \in Nat
      OBVIOUS
<1>2. /\ longer \in Seq(DigitSet)
      /\ Len(longer) = Len(digits) + 1
      /\ \A i \in 1 .. Len(digits) + 1 :
             longer[i] = IF i <= Len(digits) THEN digits[i] ELSE <<c>>[i - Len(digits)]
      BY <1>1, ConcatProperties
<1>3. longer # <<>> /\ longer[Len(longer)] = c
      BY <1>1, <1>2
<1>4. SubSeq(longer, 1, Len(longer) - 1) = digits
  <2>1. /\ SubSeq(longer, 1, Len(longer) - 1) \in Seq(DigitSet)
        /\ Len(SubSeq(longer, 1, Len(longer) - 1)) = Len(digits)
        BY <1>1, <1>2, <1>3, Front
  <2>2. \A i \in 1 .. Len(longer) - 1 : longer[i] \in DigitSet
        BY <1>1, <1>2, ElementOfSeq
  <2>3. \A i \in 1 .. (Len(longer) - 1) - 1 + 1 :
            SubSeq(longer, 1, Len(longer) - 1)[i] = longer[1 + i - 1]
        BY <1>1, <1>2, <2>2, SubSeqProperties
  <2>4. \A i \in 1 .. Len(digits) : SubSeq(longer, 1, Len(longer) - 1)[i] = digits[i]
        BY <1>1, <1>2, <2>3
  <2> QED BY <2>1, <2>4, SeqEqual
<1> HIDE DEF longer
<1>5. valueOf[longer] = 10 * valueOf[digits] + DigitValue(c)
      BY <1>2, <1>3, <1>4, ValueOfIs
<1> QED BY <1>5 DEF longer

(* A number is read as it was written.                                     *)
LEMMA NumberIsReadBack == \A n \in Nat : valueOf[to_string[n]] = n
<1> DEFINE Good == {n \in Nat : valueOf[to_string[n]] = n}
<1>1. ASSUME NEW n \in Nat, \A m \in 0 .. n - 1 : m \in Good
      PROVE  n \in Good
  <2>1. CASE n < 10
    <3>1. Digits[n + 1] \in DigitSet /\ DigitValue(Digits[n + 1]) = n
          BY <2>1, DigitOf
    <3>2. <<>> \in Seq(DigitSet) /\ valueOf[<<>>] = 0
          BY EmptySeq, ValueOfIs
    <3>3. <<>> \o <<Digits[n + 1]>> = <<Digits[n + 1]>>
          BY <3>1, ConcatEmptySeq
    <3>4. valueOf[<<>> \o <<Digits[n + 1]>>] = 10 * 0 + n
          BY <3>1, <3>2, ValueOfAppended
    <3> QED BY <2>1, <3>3, <3>4, ToStringIs
  <2>2. CASE ~(n < 10)
    <3>1. n \div 10 \in 0 .. n - 1
          BY <2>2, DivMod
    <3>2. valueOf[to_string[n \div 10]] = n \div 10
          BY <1>1, <3>1
    <3>3. to_string[n] = to_string[n \div 10] \o <<Digits[(n % 10) + 1]>>
          BY <2>2, ToStringIs
    <3>4. /\ to_string[n \div 10] \in Seq(DigitSet)
          /\ Digits[(n % 10) + 1] \in DigitSet
          /\ DigitValue(Digits[(n % 10) + 1]) = n % 10
          BY <3>1, DivMod, DigitOf, ToStringType
    <3>5. valueOf[to_string[n]] = 10 * (n \div 10) + (n % 10)
          BY <3>2, <3>3, <3>4, ValueOfAppended
    <3> QED BY <3>5, DivMod
  <2> QED BY <2>1, <2>2
<1>2. Nat \subseteq Good
  <2> HIDE DEF Good
  <2> QED BY <1>1, Induction
<1> QED BY <1>2
-----------------------------------------------------------------------------
(* Where one sequence ends and the next begins.                            *)

LEMMA EqualEnds ==
    ASSUME NEW S, NEW s \in Seq(S), NEW t \in Seq(S), NEW u \in Seq(S), NEW v \in Seq(S),
           s \o t = u \o v, Len(t) = Len(v)
    PROVE  s = u /\ t = v
<1>1. Len(s) \in Nat /\ Len(t) \in Nat /\ Len(u) \in Nat /\ Len(v) \in Nat
      BY LenProperties
<1>2. Len(s \o t) = Len(s) + Len(t) /\ Len(u \o v) = Len(u) + Len(v)
      BY ConcatProperties
<1>3. Len(s) = Len(u)
      BY <1>1, <1>2
<1>4. \A i \in 1 .. Len(s) + Len(t) :
          (IF i <= Len(s) THEN s[i] ELSE t[i - Len(s)])
              = IF i <= Len(u) THEN u[i] ELSE v[i - Len(u)]
  <2>1. \A i \in 1 .. Len(s) + Len(t) :
            (s \o t)[i] = IF i <= Len(s) THEN s[i] ELSE t[i - Len(s)]
        BY ConcatProperties
  <2>2. \A i \in 1 .. Len(u) + Len(v) :
            (u \o v)[i] = IF i <= Len(u) THEN u[i] ELSE v[i - Len(u)]
        BY ConcatProperties
  <2> QED BY <1>3, <2>1, <2>2
<1>5. \A i \in 1 .. Len(s) : s[i] = u[i]
      BY <1>1, <1>3, <1>4
<1>6. \A i \in 1 .. Len(t) : t[i] = v[i]
  <2>1. TAKE i \in 1 .. Len(t)
  <2>2. i + Len(s) \in 1 .. Len(s) + Len(t) /\ ~(i + Len(s) <= Len(s)) /\ (i + Len(s)) - Len(s) = i
        BY <1>1
  <2>3. t[(i + Len(s)) - Len(s)] = v[(i + Len(s)) - Len(s)]
        BY <1>3, <1>4, <2>2
  <2> QED BY <2>2, <2>3
<1>7. s = u
      BY <1>3, <1>5, SeqEqual
<1>8. t = v
      BY <1>6, SeqEqual
<1> QED BY <1>7, <1>8

Joined(s, t) == s \o t

LEMMA JoinedEnds ==
    \A S : \A s, t, u, v \in Seq(S) :
        Joined(s, t) = Joined(u, v) /\ Len(t) = Len(v) => s = u /\ t = v
BY EqualEnds, Zenon DEF Joined

(* What comes before a character, at its place and behind it.              *)
LEMMA Around ==
    ASSUME NEW S, NEW s \in Seq(S), NEW c \in S, NEW t \in Seq(S)
    PROVE  /\ s \o <<c>> \o t \in Seq(S)
           /\ Len(s \o <<c>> \o t) = Len(s) + 1 + Len(t)
           /\ (s \o <<c>> \o t)[Len(s) + 1] = c
           /\ \A i \in Len(s) + 2 .. Len(s) + 1 + Len(t) :
                  (s \o <<c>> \o t)[i] = t[i - (Len(s) + 1)]
<1>1. Len(s) \in Nat /\ Len(t) \in Nat
      BY LenProperties
<1>2. <<c>> \in Seq(S) /\ Len(<<c>>) = 1 /\ <<c>>[1] = c
      OBVIOUS
<1>3. /\ s \o <<c>> \in Seq(S)
      /\ Len(s \o <<c>>) = Len(s) + 1
      /\ \A i \in 1 .. Len(s) + 1 :
             (s \o <<c>>)[i] = IF i <= Len(s) THEN s[i] ELSE <<c>>[i - Len(s)]
      BY <1>2, ConcatProperties
<1>4. /\ (s \o <<c>>) \o t \in Seq(S)
      /\ Len((s \o <<c>>) \o t) = Len(s \o <<c>>) + Len(t)
      /\ \A i \in 1 .. Len(s \o <<c>>) + Len(t) :
             ((s \o <<c>>) \o t)[i] =
                 IF i <= Len(s \o <<c>>) THEN (s \o <<c>>)[i] ELSE t[i - Len(s \o <<c>>)]
      BY <1>3, ConcatProperties
<1>5. (s \o <<c>>)[Len(s) + 1] = c
  <2>1. Len(s) + 1 \in 1 .. Len(s) + 1 /\ ~(Len(s) + 1 <= Len(s)) /\ Len(s) + 1 - Len(s) = 1
        BY <1>1
  <2> QED BY <1>2, <1>3, <2>1
<1>6. ((s \o <<c>>) \o t)[Len(s) + 1] = c
  <2>1. Len(s) + 1 \in 1 .. Len(s) + 1 + Len(t)
        BY <1>1
  <2> QED BY <1>1, <1>3, <1>4, <1>5, <2>1
<1>7. \A i \in Len(s) + 2 .. Len(s) + 1 + Len(t) :
          ((s \o <<c>>) \o t)[i] = t[i - (Len(s) + 1)]
      BY <1>1, <1>3, <1>4
<1> QED BY <1>3, <1>4, <1>6, <1>7
-----------------------------------------------------------------------------
(* The key of the cache.                                                   *)

Character == STRING \cup DigitSet \cup {Blank, Separator}

LEMMA Characters == /\ DigitSet \subseteq Character
                    /\ Blank \in Character \ DigitSet
                    /\ Separator \in Character \ DigitSet
                    /\ Names \subseteq Seq(Character)
<1>1. STRING \subseteq Character
      BY DEF Character
<1>2. \A name \in Names : name \in Seq(STRING)
      BY NamesAssumption
<1>3. \A name \in Names : name \in Seq(Character)
      BY <1>1, <1>2, SeqMonotonic
<1> QED BY <1>3, SeparatorsAreNoDigits DEF Character

LEMMA Lengths == \A name \in Names :
                     /\ name \in Seq(Character) /\ Len(name) \in Nat
                     /\ to_string[Len(name)] \in Seq(DigitSet)
                     /\ to_string[Len(name)] \in Seq(Character)
<1>1. SUFFICES ASSUME NEW name \in Names
               PROVE  /\ name \in Seq(Character) /\ Len(name) \in Nat
                      /\ to_string[Len(name)] \in Seq(DigitSet)
                      /\ to_string[Len(name)] \in Seq(Character)
      OBVIOUS
<1>2. name \in Seq(Character) /\ Len(name) \in Nat
      BY Characters, LenProperties
<1>3. to_string[Len(name)] \in Seq(DigitSet)
      BY <1>2, ToStringType
<1> QED BY <1>2, <1>3, Characters, SeqMonotonic

(* A length behind its separator.                                          *)
Sealed(s, digits) == s \o <<Separator>> \o digits

LEMMA SealedIs ==
    ASSUME NEW s \in Seq(Character), NEW digits \in Seq(Character)
    PROVE  /\ Sealed(s, digits) \in Seq(Character)
           /\ Len(Sealed(s, digits)) = Len(s) + 1 + Len(digits)
           /\ Sealed(s, digits)[Len(s) + 1] = Separator
           /\ \A i \in Len(s) + 2 .. Len(s) + 1 + Len(digits) :
                  Sealed(s, digits)[i] = digits[i - (Len(s) + 1)]
BY Characters, Around DEF Sealed

(* Only the last separator has nothing but digits behind it.               *)
LEMMA SealedEnds ==
    ASSUME NEW s \in Seq(Character), NEW t \in Seq(DigitSet),
           NEW u \in Seq(Character), NEW v \in Seq(DigitSet),
           Sealed(s, t) = Sealed(u, v)
    PROVE  s = u /\ t = v
<1>1. ASSUME NEW p \in Seq(Character), NEW q \in Seq(DigitSet),
             NEW x \in Seq(Character), NEW y \in Seq(DigitSet),
             Sealed(p, q) = Sealed(x, y)
      PROVE  Len(p) + 1 + Len(q) = Len(x) + 1 + Len(y) /\ ~(Len(p) > Len(x))
  <2>1. q \in Seq(Character) /\ y \in Seq(Character)
        BY Characters, SeqMonotonic
  <2>2. Len(p) \in Nat /\ Len(q) \in Nat /\ Len(x) \in Nat /\ Len(y) \in Nat
        BY LenProperties
  <2>3. Len(p) + 1 + Len(q) = Len(x) + 1 + Len(y)
    <3>1. Len(Sealed(p, q)) = Len(p) + 1 + Len(q)
          BY <2>1, SealedIs
    <3>2. Len(Sealed(x, y)) = Len(x) + 1 + Len(y)
          BY <2>1, SealedIs
    <3> QED BY <1>1, <3>1, <3>2
  <2>4. ASSUME Len(p) > Len(x) PROVE FALSE
    <3>1. Sealed(x, y)[Len(p) + 1] = Separator
          BY <1>1, <2>1, SealedIs
    <3>2. Len(p) + 1 \in Len(x) + 2 .. Len(x) + 1 + Len(y)
          BY <2>2, <2>3, <2>4
    <3>3. Sealed(x, y)[Len(p) + 1] = y[Len(p) + 1 - (Len(x) + 1)]
          BY <2>1, <3>2, SealedIs
    <3>4. Len(p) + 1 - (Len(x) + 1) \in 1 .. Len(y)
          BY <2>2, <3>2
    <3>5. y[Len(p) + 1 - (Len(x) + 1)] \in DigitSet
          BY <3>4, ElementOfSeq
    <3> QED BY <3>1, <3>3, <3>5, Characters
  <2> QED BY <2>3, <2>4
<1>2. Len(s) \in Nat /\ Len(t) \in Nat /\ Len(u) \in Nat /\ Len(v) \in Nat
      BY LenProperties
<1>3. Len(t) = Len(v)
  <2>1. Len(s) + 1 + Len(t) = Len(u) + 1 + Len(v) /\ ~(Len(s) > Len(u)) /\ ~(Len(u) > Len(s))
        BY <1>1
  <2> QED BY <1>2, <2>1
<1> DEFINE end == <<Separator>>
<1>4. end \in Seq(Character)
      BY Characters
<1>5. t \in Seq(Character) /\ v \in Seq(Character)
      BY Characters, SeqMonotonic
<1>6. /\ Sealed(s, t) = Joined(Joined(s, end), t)
      /\ Sealed(u, v) = Joined(Joined(u, end), v)
      BY Zenon DEF Sealed, Joined
<1>7. Joined(s, end) \in Seq(Character) /\ Joined(u, end) \in Seq(Character)
      BY <1>4, ConcatProperties DEF Joined
<1> HIDE DEF end
<1>8. Joined(s, end) = Joined(u, end) /\ t = v
  <2>1. Joined(Joined(s, end), t) = Joined(Joined(u, end), v)
        BY <1>6
  <2> QED BY <1>3, <1>5, <1>7, <2>1, JoinedEnds
<1>9. s = u
      BY <1>4, <1>8, JoinedEnds
<1> QED BY <1>8, <1>9

LEMMA JoinedIsClosed ==
    \A s, t \in Seq(Character) : Joined(s, t) \in Seq(Character)
BY ConcatProperties DEF Joined

(* The names decide the key, and the key decides the names: no two checks  *)
(* have the same key in the cache, whatever the names consist of.          *)
LEMMA HasherIsInjective ==
    ASSUME NEW k \in RequestData, NEW l \in RequestData, hasher(k) = hasher(l)
    PROVE  k = l
<1> DEFINE names(r) == Joined(Joined(r.client, r.user), r.privilege)
           first(r)  == Sealed(names(r), to_string[Len(r.client)])
           second(r) == Sealed(first(r), to_string[Len(r.user)])
<1>1. ASSUME NEW r \in RequestData
      PROVE  /\ r.client \in Names /\ r.user \in Names /\ r.privilege \in Names
             /\ r = [client |-> r.client, user |-> r.user, privilege |-> r.privilege]
      BY DEF RequestData
<1>2. ASSUME NEW r \in RequestData
      PROVE  Joined(r.client, r.user) \in Seq(Character) /\ names(r) \in Seq(Character)
      BY <1>1, Lengths, JoinedIsClosed
<1>3. ASSUME NEW r \in RequestData
      PROVE  first(r) \in Seq(Character) /\ second(r) \in Seq(Character)
  <2> HIDE DEF names
  <2> QED BY <1>1, <1>2, Lengths, SealedIs
<1>4. \A r : hasher(r) = Sealed(second(r), to_string[Len(r.privilege)])
      BY Zenon DEF hasher, Sealed, Joined
<1> HIDE DEF names, first, second
<1>5. second(k) = second(l) /\ to_string[Len(k.privilege)] = to_string[Len(l.privilege)]
      BY <1>1, <1>3, <1>4, Lengths, SealedEnds
<1>6. first(k) = first(l) /\ to_string[Len(k.user)] = to_string[Len(l.user)]
      BY <1>1, <1>3, <1>5, Lengths, SealedEnds DEF second
<1>7. names(k) = names(l)
      BY <1>1, <1>2, <1>6, Lengths, SealedEnds DEF first
<1>8. Len(k.user) = Len(l.user) /\ Len(k.privilege) = Len(l.privilege)
  <2>1. \A r \in RequestData : Len(r.user) \in Nat /\ Len(r.privilege) \in Nat
        BY <1>1, Lengths
  <2> QED BY <1>5, <1>6, <2>1, NumberIsReadBack
<1>9. Joined(k.client, k.user) = Joined(l.client, l.user) /\ k.privilege = l.privilege
      BY <1>1, <1>2, <1>7, <1>8, Lengths, JoinedEnds DEF names
<1>10. k.client = l.client /\ k.user = l.user
      BY <1>1, <1>8, <1>9, Lengths, JoinedEnds
<1> QED BY <1>1, <1>9, <1>10, Zenon
-----------------------------------------------------------------------------
(* The request as the agent reads it.                                      *)

LengthsAndItems(both, s, t) ==
    /\ Len(s) \in Nat /\ Len(t) \in Nat
    /\ Len(both) = Len(s) + Len(t)
    /\ DOMAIN both = 1 .. Len(s) + Len(t)
    /\ \A i \in 1 .. Len(s) : both[i] = s[i]
    /\ \A i \in 1 .. Len(t) : both[Len(s) + i] = t[i]

LEMMA JoinedIs ==
    ASSUME NEW S, NEW s \in Seq(S), NEW t \in Seq(S)
    PROVE  Joined(s, t) \in Seq(S) /\ LengthsAndItems(Joined(s, t), s, t)
<1>1. Len(s) \in Nat /\ Len(t) \in Nat
      BY LenProperties
<1>2. /\ Joined(s, t) \in Seq(S)
      /\ Len(Joined(s, t)) = Len(s) + Len(t)
      /\ \A i \in 1 .. Len(s) + Len(t) :
             Joined(s, t)[i] = IF i <= Len(s) THEN s[i] ELSE t[i - Len(s)]
      BY ConcatProperties DEF Joined
<1>3. DOMAIN Joined(s, t) = 1 .. Len(s) + Len(t)
      BY <1>2, LenProperties
<1>4. \A i \in 1 .. Len(s) : Joined(s, t)[i] = s[i]
      BY <1>1, <1>2
<1>5. \A i \in 1 .. Len(t) : Joined(s, t)[Len(s) + i] = t[i]
  <2>1. TAKE i \in 1 .. Len(t)
  <2>2. Len(s) + i \in 1 .. Len(s) + Len(t) /\ ~(Len(s) + i <= Len(s)) /\ (Len(s) + i) - Len(s) = i
        BY <1>1
  <2>3. Joined(s, t)[Len(s) + i] = t[(Len(s) + i) - Len(s)]
        BY <1>2, <2>2
  <2> QED BY <2>2, <2>3
<1> QED BY <1>1, <1>2, <1>3, <1>4, <1>5 DEF LengthsAndItems

(* The first of two joined sequences, and the second.                      *)
LEMMA PartsOfJoined ==
    ASSUME NEW S, NEW s \in Seq(S), NEW t \in Seq(S)
    PROVE  /\ SubSeq(Joined(s, t), 1, Len(s)) = s
           /\ SubSeq(Joined(s, t), Len(s) + 1, Len(Joined(s, t))) = t
<1> DEFINE both == Joined(s, t)
           front == SubSeq(both, 1, Len(s))
           back == SubSeq(both, Len(s) + 1, Len(both))
<1>1. /\ both \in Seq(S) /\ Len(s) \in Nat /\ Len(t) \in Nat
      /\ Len(both) = Len(s) + Len(t)
      /\ \A i \in 1 .. Len(s) : both[i] = s[i]
      /\ \A i \in 1 .. Len(t) : both[Len(s) + i] = t[i]
  <2>1. both \in Seq(S) /\ LengthsAndItems(both, s, t)
        BY JoinedIs
  <2> HIDE DEF both
  <2> QED BY <2>1 DEF LengthsAndItems
<1> HIDE DEF both
<1>2. \A i \in 1 .. Len(both) : both[i] \in S
      BY <1>1, ElementOfSeq
<1>3. front = s
  <2>1. \A i \in 1 .. Len(s) : both[i] \in S
        BY <1>1, <1>2
  <2>2. /\ front \in Seq(S)
        /\ Len(front) = IF 1 <= Len(s) THEN Len(s) - 1 + 1 ELSE 0
        /\ \A i \in 1 .. Len(s) - 1 + 1 : front[i] = both[1 + i - 1]
        BY <1>1, <2>1, SubSeqProperties
  <2>3. Len(front) = Len(s)
        BY <1>1, <2>2
  <2>4. \A i \in 1 .. Len(s) : front[i] = s[i]
        BY <1>1, <2>2
  <2> QED BY <2>2, <2>3, <2>4, SeqEqual
<1>4. back = t
  <2>1. \A i \in Len(s) + 1 .. Len(both) : both[i] \in S
        BY <1>1, <1>2
  <2>2. /\ back \in Seq(S)
        /\ Len(back) = IF Len(s) + 1 <= Len(both) THEN Len(both) - (Len(s) + 1) + 1 ELSE 0
        /\ \A i \in 1 .. Len(both) - (Len(s) + 1) + 1 : back[i] = both[(Len(s) + 1) + i - 1]
        BY <1>1, <2>1, SubSeqProperties
  <2>3. Len(back) = Len(t)
        BY <1>1, <2>2
  <2>4. \A i \in 1 .. Len(t) : back[i] = t[i]
    <3>1. TAKE i \in 1 .. Len(t)
    <3>2. i \in 1 .. Len(both) - (Len(s) + 1) + 1 /\ (Len(s) + 1) + i - 1 = Len(s) + i
          BY <1>1
    <3>3. back[i] = both[Len(s) + i]
          BY <2>2, <3>2
    <3> QED BY <1>1, <3>3
  <2> QED BY <2>2, <2>3, <2>4, SeqEqual
<1> QED BY <1>3, <1>4 DEF both

(* Characters of a set are skipped up to the first other one.              *)
LEMMA SkipStopsBehind ==
    ASSUME NEW S, NEW chars, chars \subseteq S,
           NEW s \in Seq(chars), NEW t \in Seq(S), t # <<>>, t[1] \notin chars
    PROVE  Skip(Joined(s, t), chars) = t
<1> DEFINE stream == Joined(s, t)
           stops == {i \in DOMAIN stream : stream[i] \notin chars}
           first == CHOOSE i \in stops : \A j \in stops : i <= j
<1>1. s \in Seq(S)
      BY SeqMonotonic
<1>2. /\ Len(s) \in Nat /\ Len(t) \in Nat \ {0}
      /\ DOMAIN stream = 1 .. Len(s) + Len(t)
      /\ \A i \in 1 .. Len(s) : stream[i] = s[i]
      /\ \A i \in 1 .. Len(t) : stream[Len(s) + i] = t[i]
  <2>1. Len(t) \in Nat \ {0}
        BY EmptySeq
  <2>2. LengthsAndItems(stream, s, t)
        BY <1>1, JoinedIs
  <2> HIDE DEF stream
  <2> QED BY <2>1, <2>2 DEF LengthsAndItems
<1>3. SubSeq(stream, Len(s) + 1, Len(stream)) = t
      BY <1>1, PartsOfJoined
<1>4. Skip(stream, chars) = IF stops = {} THEN <<>> ELSE SubSeq(stream, first, Len(stream))
      BY DEF Skip
<1> HIDE DEF stream
<1>5. Len(s) + 1 \in stops
  <2>1. 1 \in 1 .. Len(t) /\ Len(s) + 1 \in 1 .. Len(s) + Len(t)
        BY <1>2
  <2>2. stream[Len(s) + 1] = t[1]
        BY <1>2, <2>1
  <2> QED BY <1>2, <2>1, <2>2
<1>6. \A i \in stops : Len(s) + 1 <= i
  <2>1. \A i \in 1 .. Len(s) : s[i] \in chars
        BY ElementOfSeq
  <2>2. \A i \in 1 .. Len(s) : i \notin stops
        BY <1>2, <2>1
  <2> QED BY <1>2, <2>2
<1>7. first = Len(s) + 1
  <2>1. stops \subseteq Nat
        BY <1>2
  <2> HIDE DEF stops
  <2>2. first \in stops /\ \A j \in stops : first <= j
        BY <1>5, <1>6
  <2> HIDE DEF first
  <2>3. first <= Len(s) + 1 /\ Len(s) + 1 <= first /\ first \in Nat
        BY <1>5, <1>6, <2>1, <2>2
  <2> QED BY <1>2, <2>3
<1>8. Skip(stream, chars) = t
  <2> HIDE DEF stops, first
  <2> QED BY <1>3, <1>4, <1>5, <1>7
<1> QED BY <1>8 DEF stream

LEMMA JoinedAssociates ==
    \A s, t, u \in Seq(Character) : Joined(Joined(s, t), u) = Joined(s, Joined(t, u))
<1>1. SUFFICES ASSUME NEW s \in Seq(Character), NEW t \in Seq(Character), NEW u \in Seq(Character)
               PROVE  (s \o t) \o u = s \o (t \o u)
      BY Zenon DEF Joined
<1> QED BY ConcatAssociative

LEMMA JoinedWithNothing ==
    /\ <<>> \in Seq(Character)
    /\ \A s \in Seq(Character) : Joined(s, <<>>) = s /\ Joined(<<>>, s) = s
BY EmptySeq, ConcatEmptySeq DEF Joined

LEMMA BlankString == /\ <<Blank>> \in Seq({Blank}) /\ <<Blank>> \in Seq(Character)
                     /\ Len(<<Blank>>) = 1 /\ <<Blank>>[1] = Blank
BY Characters

(* The size of a name behind what is left of the one before it.            *)
LEMMA NumberReads ==
    ASSUME NEW n \in Nat, NEW before \in Seq({Blank}), NEW body \in Seq(Character),
           body # <<>>, body[1] = Blank
    PROVE  Number(Joined(before, Joined(to_string[n], body))) = [value |-> n, rest |-> body]
<1> DEFINE digits == to_string[n]
           numbered == Joined(digits, body)
           stream == Joined(before, numbered)
<1>1. /\ digits \in Seq(DigitSet) /\ digits \in Seq(Character) /\ digits # <<>>
      /\ valueOf[digits] = n
      BY ToStringType, NumberIsReadBack, Characters, SeqMonotonic
<1> HIDE DEF digits
<1>2. numbered \in Seq(Character) /\ LengthsAndItems(numbered, digits, body)
      BY <1>1, JoinedIs
<1>3. SubSeq(numbered, 1, Len(digits)) = digits
      BY <1>1, PartsOfJoined
<1>4. Skip(numbered, DigitSet) = body
      BY <1>1, Characters, SkipStopsBehind
<1> HIDE DEF numbered
<1>5. numbered # <<>> /\ numbered[1] \notin {Blank}
  <2>1. Len(digits) \in Nat \ {0} /\ \A i \in 1 .. Len(digits) : digits[i] \in DigitSet
        BY <1>1, EmptySeq, ElementOfSeq
  <2>2. numbered[1] = digits[1] /\ Len(numbered) > 0 /\ digits[1] \in DigitSet
        BY <1>2, <2>1 DEF LengthsAndItems
  <2>3. Len(<<>>) = 0
        BY EmptySeq
  <2> QED BY <2>2, <2>3, Characters
<1>6. Skip(stream, {Blank}) = numbered
      BY <1>2, <1>5, Characters, SkipStopsBehind
<1>7. Len(numbered) - Len(body) = Len(digits)
      BY <1>2 DEF LengthsAndItems
<1> HIDE DEF stream
<1>8. Number(stream) = [value |-> n, rest |-> body]
      BY <1>1, <1>3, <1>4, <1>6, <1>7, Zenon DEF Number
<1> QED BY <1>8 DEF stream, numbered, digits

(* A name is read as it was written; the blank behind it stays.            *)
LEMMA MemberReads ==
    ASSUME NEW name \in Names, NEW before \in Seq({Blank}), NEW rest \in Seq(Character)
    PROVE  Member(Joined(before, Joined(Framed(name), rest)))
               = [name |-> name, rest |-> Joined(<<Blank>>, rest)]
<1> DEFINE digits == to_string[Len(name)]
           blank == <<Blank>>
           spaced == Joined(blank, name)
           left == Joined(blank, rest)
           body == Joined(spaced, left)
           stream == Joined(before, Joined(Framed(name), rest))
<1>1. name \in Seq(Character) /\ Len(name) \in Nat /\ digits \in Seq(Character)
      BY Lengths
<1>2. blank \in Seq(Character) /\ Len(blank) = 1 /\ blank[1] = Blank
      BY BlankString
<1>3. Framed(name) = Joined(Joined(Joined(digits, blank), name), blank)
      BY Zenon DEF Framed, Joined
<1> HIDE DEF digits, blank
<1>4. /\ spaced \in Seq(Character) /\ left \in Seq(Character)
      /\ LengthsAndItems(spaced, blank, name)
      BY <1>1, <1>2, JoinedIs
<1>5. Joined(Framed(name), rest) = Joined(digits, body)
  <2>1. Joined(Joined(digits, blank), name) = Joined(digits, spaced)
        BY <1>1, <1>2, JoinedAssociates
  <2>2. Joined(digits, spaced) \in Seq(Character)
        BY <1>1, <1>4, JoinedIs
  <2>3. Joined(Joined(Joined(digits, spaced), blank), rest) = Joined(Joined(digits, spaced), left)
        BY <1>2, <2>2, JoinedAssociates
  <2>4. Joined(Joined(digits, spaced), left) = Joined(digits, body)
        BY <1>1, <1>4, JoinedAssociates
  <2> QED BY <1>3, <2>1, <2>3, <2>4, Zenon
<1>6. /\ body \in Seq(Character) /\ LengthsAndItems(body, spaced, left)
      /\ SubSeq(body, Len(spaced) + 1, Len(body)) = left
      BY <1>4, JoinedIs, PartsOfJoined
<1> HIDE DEF spaced, left
<1> HIDE DEF body
<1>7. /\ Len(spaced) = Len(name) + 1 /\ Len(body) = Len(name) + 1 + Len(left) /\ Len(left) \in Nat
      /\ body[1] = Blank
      /\ \A i \in 1 .. Len(name) : body[i + 1] = name[i]
  <2>1. /\ Len(spaced) = 1 + Len(name)
        /\ spaced[1] = Blank
        /\ \A i \in 1 .. Len(name) : spaced[1 + i] = name[i]
        BY <1>1, <1>2, <1>4 DEF LengthsAndItems
  <2>2. /\ Len(body) = Len(spaced) + Len(left) /\ Len(left) \in Nat
        /\ \A i \in 1 .. Len(spaced) : body[i] = spaced[i]
        BY <1>6 DEF LengthsAndItems
  <2>3. \A i \in 1 .. Len(name) : body[1 + i] = name[i]
        BY <1>1, <2>1, <2>2
  <2> QED BY <1>1, <2>1, <2>2, <2>3
<1>8. body # <<>>
      BY <1>1, <1>7, EmptySeq
<1>9. Number(stream) = [value |-> Len(name), rest |-> body]
  <2>1. body \in Seq(Character) /\ body # <<>> /\ body[1] = Blank
        BY <1>6, <1>7, <1>8
  <2>2. Number(Joined(before, Joined(to_string[Len(name)], body)))
            = [value |-> Len(name), rest |-> body]
        BY <1>1, <2>1, NumberReads
  <2> QED BY <1>5, <2>2, Zenon DEF digits
<1>10. [i \in 1 .. Len(name) |-> IF i < Len(body) THEN body[i + 1] ELSE Nul] = name
  <2>1. \A i \in 1 .. Len(name) : i < Len(body)
        BY <1>1, <1>7
  <2>2. name = [i \in 1 .. Len(name) |-> name[i]]
        BY <1>1, LenProperties
  <2> QED BY <1>7, <2>1, <2>2
<1>11. SubSeq(body, Len(name) + 2, Len(body)) = left
  <2>1. Len(spaced) + 1 = Len(name) + 2
        BY <1>1, <1>7
  <2> QED BY <1>6, <2>1
<1> HIDE DEF stream
<1>12. Member(stream) = [name |-> name, rest |-> left]
  <2> DEFINE size == Number(stream)
             read == [i \in 1 .. size.value |->
                         IF i < Len(size.rest) THEN size.rest[i + 1] ELSE Nul]
  <2>1. Member(stream) =
            [name |-> read, rest |-> SubSeq(size.rest, size.value + 2, Len(size.rest))]
        BY Zenon DEF Member
  <2>2. size.value = Len(name) /\ size.rest = body
        BY <1>9
  <2> HIDE DEF size
  <2>3. read = name
        BY <1>10, <2>2
  <2> HIDE DEF read
  <2> QED BY <1>11, <2>1, <2>2, <2>3
<1> QED BY <1>12 DEF stream, left, blank

(* The agent reads what the plugin wrote, whatever the names consist of.   *)
LEMMA RequestIsReadBack ==
    ASSUME NEW k \in RequestData
    PROVE  dataToRequest(requestToData(k)) = k
<1> DEFINE blank == <<Blank>>
           third == Framed(k.privilege)
           second == Joined(Framed(k.user), third)
           first == Joined(Framed(k.client), second)
<1>1. /\ k.client \in Names /\ k.user \in Names /\ k.privilege \in Names
      /\ k = [client |-> k.client, user |-> k.user, privilege |-> k.privilege]
      BY DEF RequestData
<1>2. ASSUME NEW name \in Names PROVE Framed(name) \in Seq(Character)
  <2>1. Framed(name) = Joined(Joined(Joined(to_string[Len(name)], blank), name), blank)
        BY Zenon DEF Framed, Joined
  <2>2. blank \in Seq(Character)
        BY BlankString
  <2> HIDE DEF blank
  <2> QED BY <2>1, <2>2, Lengths, JoinedIsClosed
<1>3. third \in Seq(Character) /\ second \in Seq(Character) /\ first \in Seq(Character)
      BY <1>1, <1>2, JoinedIsClosed
<1>4. requestToData(k) = first
  <2>1. requestToData(k) = Joined(Joined(Framed(k.client), Framed(k.user)), third)
        BY Zenon DEF requestToData, Joined
  <2> HIDE DEF third
  <2> QED BY <1>1, <1>2, <1>3, <2>1, JoinedAssociates
<1>5. blank \in Seq({Blank}) /\ <<>> \in Seq({Blank})
      BY BlankString, EmptySeq
<1>6. Member(first) = [name |-> k.client, rest |-> Joined(blank, second)]
  <2>1. Joined(<<>>, first) = first
        BY <1>3, JoinedWithNothing
  <2>2. Member(Joined(<<>>, first)) = [name |-> k.client, rest |-> Joined(blank, second)]
    <3> HIDE DEF second
    <3> QED BY <1>1, <1>3, <1>5, MemberReads
  <2> QED BY <2>1, <2>2
<1>7. Member(Joined(blank, second)) = [name |-> k.user, rest |-> Joined(blank, third)]
  <2> HIDE DEF third
  <2> QED BY <1>1, <1>3, <1>5, MemberReads
<1>8. Member(Joined(blank, third)) = [name |-> k.privilege, rest |-> Joined(blank, <<>>)]
  <2>1. Joined(third, <<>>) = third /\ <<>> \in Seq(Character)
        BY <1>3, JoinedWithNothing
  <2>2. Member(Joined(blank, Joined(Framed(k.privilege), <<>>)))
            = [name |-> k.privilege, rest |-> Joined(blank, <<>>)]
        BY <1>1, <1>5, <2>1, MemberReads
  <2> QED BY <2>1, <2>2
<1> HIDE DEF first, second, third, blank
<1> QED BY <1>1, <1>4, <1>6, <1>7, <1>8 DEF dataToRequest
-----------------------------------------------------------------------------
(* The two invariants.                                                     *)

FramingInv ==
    /\ cached \in RequestData
    /\ asked \in RequestData
    /\ place = "answered" => hasher(asked) = hasher(cached)
    /\ place = "sent" => data = requestToData(asked)
    /\ place = "shown" => request = dataToRequest(requestToData(asked))

LEMMA FramingInit == Init => FramingInv
BY DEF Init, FramingInv

LEMMA FramingNext == FramingInv /\ [Next]_vars => FramingInv'
<1>1. ASSUME FramingInv, check PROVE FramingInv'
      BY <1>1, Zenon DEF FramingInv, check
<1>2. ASSUME FramingInv, startUIForRequest PROVE FramingInv'
      BY <1>2, Zenon DEF FramingInv, startUIForRequest
<1>3. ASSUME FramingInv, UNCHANGED vars PROVE FramingInv'
      BY <1>3 DEF FramingInv, vars
<1> QED BY <1>1, <1>2, <1>3 DEF Next

LEMMA FramingAlways == Spec => []FramingInv
BY FramingInit, FramingNext, PTL DEF Spec

(* A check is answered from the cache only by the decision about that very *)
(* check: the hasher of ServicePlugin.cpp has no collision among the       *)
(* triples of names, of any length and with any characters in them.        *)
THEOREM HitsSameCheck == Spec => []HitIsSameCheck
<1>1. FramingInv => HitIsSameCheck
      BY HasherIsInjective DEF FramingInv, HitIsSameCheck
<1> QED BY <1>1, FramingAlways, PTL

(* The dialog is about the check that was made: dataToRequest of the agent *)
(* undoes requestToData of the plugin for every triple of names.           *)
THEOREM ShowsTheCheck == Spec => []DialogShowsTheCheck
<1>1. FramingInv => DialogShowsTheCheck
      BY RequestIsReadBack DEF FramingInv, DialogShowsTheCheck
<1> QED BY <1>1, FramingAlways, PTL
=============================================================================
