-------------------------- MODULE GpuConfigProofs --------------------------
(***************************************************************************)
(* Proofs about GpuConfig: for files of any length, with lines and values  *)
(* of any length, wherever the limit cuts them.                            *)
(***************************************************************************)
EXTENDS GpuConfig, FiniteSetTheorems, SequenceTheorems, TLAPS

-----------------------------------------------------------------------------
(* Induction.  The provers cannot be given a predicate to induct over, but *)
(* a set can be; that there is a least number outside it comes from the    *)
(* well-founded order of the natural numbers.                              *)

Below == {p \in Nat \X Nat : p[1] < p[2]}

(* The order of the natural numbers is well-founded. *)
LEMMA BelowIsWellFounded == IsWellFoundedOn(Below, Nat)
  BY NatLessThanWellFounded DEF OpToRel, Below

(* A set of natural numbers has a least one. *)
LEMMA Least ==
    ASSUME NEW T \in SUBSET Nat, T # {}
    PROVE  \E x \in T : \A y \in T : x =< y
<1>1. PICK x \in T : \A y \in T : <<y, x>> \notin Below
  BY BelowIsWellFounded, WFMin
<1>2. \A y \in T : ~(y < x)
  BY <1>1 DEF Below
<1> QED BY <1>2

(* A set with 0 in it and with each number the next has them all. *)
LEMMA Induction ==
    ASSUME NEW T \in SUBSET Nat, 0 \in T, \A n \in T : n + 1 \in T
    PROVE  \A n \in Nat : n \in T
<1> SUFFICES ASSUME Nat \ T # {} PROVE FALSE
  OBVIOUS
<1>1. PICK x \in Nat \ T : \A y \in Nat \ T : x =< y
  BY Least
<1>2. x # 0 /\ x - 1 \in Nat
  OBVIOUS
<1>3. x - 1 \in T
  BY <1>1, <1>2
<1> QED BY <1>3

(* The same up to n. *)
LEMMA InductionTo ==
    ASSUME NEW n \in Nat, NEW T \in SUBSET (0 .. n),
           0 \in T, \A i \in 0 .. n - 1 : i \in T => i + 1 \in T
    PROVE  \A i \in 0 .. n : i \in T
<1> DEFINE U == {i \in Nat : i \in 0 .. n => i \in T}
<1>1. 0 \in U
  OBVIOUS
<1>2. \A i \in U : i + 1 \in U
  OBVIOUS
<1>3. \A i \in Nat : i \in U
  <2> HIDE DEF U
  <2>1. U \in SUBSET Nat
    BY DEF U
  <2> QED BY <1>1, <1>2, <2>1, Induction
<1> QED BY <1>3

(* What is computed step by step from the values so far exists. *)
IsRun(g, n, S, a, step) ==
    /\ g \in [0 .. n -> S]
    /\ g[0] = a /\ \A i \in 1 .. n : g[i] = step[<<g[i - 1], i>>]

(* A recursive function over 0 .. n exists, whatever its step. *)
LEMMA Recursion ==
    ASSUME NEW n \in Nat, NEW S, NEW a \in S, NEW step \in [S \X (1 .. n) -> S]
    PROVE  \E g : IsRun(g, n, S, a, step)
<1> DEFINE Upto(k) == \E g \in [0 .. k -> S] :
                        g[0] = a /\ \A i \in 1 .. k : g[i] = step[<<g[i - 1], i>>]
           T == {k \in 0 .. n : Upto(k)}
<1>1. 0 \in T
  <2> DEFINE g == [i \in 0 .. 0 |-> a]
  <2>1. g \in [0 .. 0 -> S] /\ g[0] = a /\ 1 .. 0 = {}
    OBVIOUS
  <2> HIDE DEF g
  <2>2. Upto(0)
    BY <2>1
  <2> HIDE DEF Upto
  <2> QED BY <2>2
<1>2. ASSUME NEW k \in 0 .. n - 1, k \in T PROVE k + 1 \in T
  <2>1. PICK g \in [0 .. k -> S] :
           g[0] = a /\ \A i \in 1 .. k : g[i] = step[<<g[i - 1], i>>]
    BY <1>2
  <2> DEFINE h == [i \in 0 .. k + 1 |-> IF i = k + 1 THEN step[<<g[k], k + 1>>] ELSE g[i]]
  <2>2. g[k] \in S /\ k \in Nat /\ k + 1 \in 1 .. n
    BY <1>2
  <2>3. h \in [0 .. k + 1 -> S]
    BY <2>2
  <2>4. h[k + 1] = step[<<g[k], k + 1>>] /\ \A i \in 0 .. k : h[i] = g[i]
    BY <2>2
  <2> HIDE DEF h
  <2>5. \A i \in 1 .. k + 1 : h[i] = step[<<h[i - 1], i>>]
    <3> TAKE i \in 1 .. k + 1
    <3>1. CASE i = k + 1
      BY <2>2, <2>4, <3>1
    <3>2. CASE i \in 1 .. k
      BY <2>1, <2>2, <2>4, <3>2
    <3> QED BY <2>2, <3>1, <3>2
  <2>6. h[0] = a
    BY <2>1, <2>2, <2>4
  <2>7. Upto(k + 1)
    BY <2>3, <2>5, <2>6
  <2> QED BY <2>2, <2>7
<1>3. n \in T
  <2> HIDE DEF T
  <2>1. T \in SUBSET (0 .. n)
    BY DEF T
  <2> QED BY <1>1, <1>2, <2>1, InductionTo
<1> QED BY <1>3 DEF IsRun

-----------------------------------------------------------------------------
(* Numbers *)

(* A digit is one of sixteen, or of ten. *)
LEMMA DigitTypes ==
    ASSUME NEW c
    PROVE  /\ IsHex(c) => Digit(c) \in 0 .. 15
           /\ IsDec(c) => IsHex(c) /\ Digit(c) \in 0 .. 9
<1>1. DOMAIN HexDigits = 1 .. 16
  BY DEF HexDigits
<1>2. IsHex(c) => \E i \in DOMAIN HexDigits : HexDigits[i] = c
  BY DEF IsHex, ToSet
<1>3. IsHex(c) => Digit(c) \in 0 .. 15
  <2> DEFINE i == CHOOSE i \in DOMAIN HexDigits : HexDigits[i] = c
  <2>1. IsHex(c) => i \in 1 .. 16
    BY <1>1, <1>2
  <2>2. Digit(c) = i - 1
    BY DEF Digit
  <2> HIDE DEF i
  <2> QED BY <2>1, <2>2
<1> QED BY <1>3 DEF IsDec

(* The locals of ParseHex16, step by step. *)
HexState == [acc : Int, count : Nat, seen : BOOLEAN]

(* The locals of ParseHex16 at each character follow from those before it. *)
LEMMA HexRunIs ==
    ASSUME NEW S, NEW s \in Seq(S)
    PROVE  /\ HexRun(s) \in [0 .. Len(s) -> HexState]
           /\ HexRun(s)[0] = [acc |-> 0, count |-> 0, seen |-> FALSE]
           /\ \A i \in 1 .. Len(s) : HexRun(s)[i] = HexStep(HexRun(s)[i - 1], s[i])
<1> DEFINE a == [acc |-> 0, count |-> 0, seen |-> FALSE]
           n == Len(s)
           step == [p \in HexState \X (1 .. n) |-> HexStep(p[1], s[p[2]])]
           Is(g) == g = [i \in 0 .. n |-> IF i = 0 THEN a ELSE HexStep(g[i - 1], s[i])]
<1>1. n \in Nat /\ a \in HexState
  BY DEF HexState
<1>2. \A x \in HexState : \A c : HexStep(x, c) \in HexState
  <2> TAKE x \in HexState
  <2> TAKE c
  <2>1. CASE ~IsHex(c) \/ x.acc < 0
    BY <2>1 DEF HexStep, HexState
  <2>2. CASE ~(~IsHex(c) \/ x.acc < 0)
    <3>1. Digit(c) \in Int /\ x.acc \in Int /\ x.count \in Nat
      BY <2>2, DigitTypes DEF HexState
    <3>2. CASE Digit(c) = 0 /\ x.count = 0
      BY <2>2, <3>2 DEF HexStep, HexState
    <3>3. CASE ~(Digit(c) = 0 /\ x.count = 0)
      <4>1. HexStep(x, c) = [acc |-> IF x.count = 4 THEN -1 ELSE x.acc * 16 + Digit(c),
                             count |-> x.count + 1, seen |-> TRUE]
        BY <2>2, <3>3 DEF HexStep
      <4> QED BY <3>1, <4>1 DEF HexState
    <3> QED BY <3>2, <3>3
  <2> QED BY <2>1, <2>2
<1>3. step \in [HexState \X (1 .. n) -> HexState]
  BY <1>2
<1>4. \A x \in HexState, i \in 1 .. n : step[<<x, i>>] = HexStep(x, s[i])
  OBVIOUS
<1>5. Is(HexRun(s)) \/ ~\E g : Is(g)
  <2>1. HexRun(s) = CHOOSE h : Is(h)
    BY DEF HexRun
  <2> HIDE DEF Is
  <2> QED BY <2>1
<1> HIDE DEF step, a, n
<1>6. PICK g : IsRun(g, n, HexState, a, step)
  BY <1>1, <1>3, Recursion
<1>7. \A i \in 1 .. n : g[i - 1] \in HexState /\ g[i] = HexStep(g[i - 1], s[i])
  <2> TAKE i \in 1 .. n
  <2>1. i - 1 \in 0 .. n
    BY <1>1
  <2> HIDE DEF HexState
  <2>2. g[i - 1] \in HexState
    BY <1>6, <2>1 DEF IsRun
  <2> QED BY <1>4, <1>6, <2>2 DEF IsRun
<1>8. Is(g)
  BY <1>1, <1>6, <1>7 DEF IsRun
<1>9. Is(HexRun(s))
  BY <1>5, <1>8
<1>10. \A i \in 0 .. n : HexRun(s)[i] \in HexState
  <2> DEFINE T == {i \in 0 .. n : HexRun(s)[i] \in HexState}
  <2>1. 0 \in T
    BY <1>1, <1>9
  <2>2. \A i \in 0 .. n - 1 : i \in T => i + 1 \in T
    BY <1>1, <1>2, <1>9
  <2>3. T \in SUBSET (0 .. n)
    OBVIOUS
  <2> HIDE DEF T
  <2>4. \A i \in 0 .. n : i \in T
    BY <1>1, <2>1, <2>2, <2>3, InductionTo
  <2> QED BY <2>4 DEF T
<1>11. HexRun(s) = [i \in 0 .. n |-> IF i = 0 THEN a ELSE HexStep(HexRun(s)[i - 1], s[i])]
  BY <1>9
<1>12. HexRun(s)[0] = a /\ \A i \in 1 .. n : HexRun(s)[i] = HexStep(HexRun(s)[i - 1], s[i])
  BY <1>1, <1>11
<1>13. HexRun(s) \in [0 .. n -> HexState]
  BY <1>10, <1>11
<1> QED
  BY <1>12, <1>13 DEF n, a

(* The same of ParseDec. *)
LEMMA DecRunIs ==
    ASSUME NEW S, NEW s \in Seq(S)
    PROVE  /\ DecRun(s) \in [0 .. Len(s) -> Int]
           /\ DecRun(s)[0] = 0
           /\ \A i \in 1 .. Len(s) : DecRun(s)[i] = DecStep(DecRun(s)[i - 1], s[i])
<1> DEFINE n == Len(s)
           step == [p \in Int \X (1 .. n) |-> DecStep(p[1], s[p[2]])]
           Is(g) == g = [i \in 0 .. n |-> IF i = 0 THEN 0 ELSE DecStep(g[i - 1], s[i])]
<1>1. n \in Nat /\ 0 \in Int
  OBVIOUS
<1>2. \A x \in Int, i \in 1 .. n : DecStep(x, s[i]) \in Int
  BY DigitTypes DEF DecStep
<1>3. step \in [Int \X (1 .. n) -> Int]
  BY <1>2
<1>4. \A x \in Int, i \in 1 .. n : step[<<x, i>>] = DecStep(x, s[i])
  OBVIOUS
<1>5. Is(DecRun(s)) \/ ~\E g : Is(g)
  <2>1. DecRun(s) = CHOOSE h : Is(h)
    BY DEF DecRun
  <2> HIDE DEF Is
  <2> QED BY <2>1
<1> HIDE DEF step, n
<1>6. PICK g : IsRun(g, n, Int, 0, step)
  BY <1>1, <1>3, Recursion
<1>7. \A i \in 1 .. n : g[i] = DecStep(g[i - 1], s[i])
  <2> TAKE i \in 1 .. n
  <2>1. i - 1 \in 0 .. n
    BY <1>1
  <2>2. g[i - 1] \in Int
    BY <1>6, <2>1 DEF IsRun
  <2> QED BY <1>4, <1>6, <2>2 DEF IsRun
<1>8. Is(g)
  BY <1>1, <1>6, <1>7 DEF IsRun
<1>9. DecRun(s) = [i \in 0 .. n |-> IF i = 0 THEN 0 ELSE DecStep(DecRun(s)[i - 1], s[i])]
  BY <1>5, <1>8
<1>10. DecRun(s)[0] = 0 /\ \A i \in 1 .. n : DecRun(s)[i] = DecStep(DecRun(s)[i - 1], s[i])
  BY <1>1, <1>9
<1>11. \A i \in 0 .. n : DecRun(s)[i] \in Int
  <2> DEFINE T == {i \in 0 .. n : DecRun(s)[i] \in Int}
  <2>1. 0 \in T
    BY <1>1, <1>10
  <2>2. ASSUME NEW i \in 0 .. n - 1, i \in T PROVE i + 1 \in T
    <3>1. i + 1 \in 1 .. n /\ (i + 1) - 1 = i
      BY <1>1
    <3>2. DecRun(s)[i] \in Int /\ i + 1 \in 0 .. n
      BY <1>1, <2>2
    <3>3. DecRun(s)[i + 1] = DecStep(DecRun(s)[i], s[i + 1])
      BY <1>10, <3>1
    <3>4. DecRun(s)[i + 1] \in Int
      BY <1>2, <3>1, <3>2, <3>3
    <3> QED BY <3>2, <3>4
  <2>3. T \in SUBSET (0 .. n)
    OBVIOUS
  <2> HIDE DEF T
  <2>4. \A i \in 0 .. n : i \in T
    BY <1>1, <2>1, <2>2, <2>3, InductionTo
  <2> QED BY <2>4 DEF T
<1>12. DecRun(s) \in [0 .. n -> Int]
  BY <1>9, <1>11
<1> QED
  BY <1>10, <1>12 DEF n

(* The same of the number that digits denote. *)
LEMMA NumbersIs ==
    ASSUME NEW S, NEW s \in Seq(S), NEW base \in Nat,
           \A i \in 1 .. Len(s) : IsHex(s[i])
    PROVE  /\ Numbers(base, s) \in [0 .. Len(s) -> Nat]
           /\ Numbers(base, s)[0] = 0
           /\ \A i \in 1 .. Len(s) :
                Numbers(base, s)[i] = Numbers(base, s)[i - 1] * base + Digit(s[i])
<1> DEFINE n == Len(s)
           step == [p \in Nat \X (1 .. n) |-> p[1] * base + Digit(s[p[2]])]
           Is(g) == g = [i \in 0 .. n |-> IF i = 0 THEN 0 ELSE g[i - 1] * base + Digit(s[i])]
<1>1. n \in Nat /\ 0 \in Nat
  OBVIOUS
<1>2. \A x \in Nat, i \in 1 .. n : x * base + Digit(s[i]) \in Nat
  <2> TAKE x \in Nat, i \in 1 .. n
  <2>1. x * base \in Nat
    OBVIOUS
  <2>2. Digit(s[i]) \in Nat
    BY DigitTypes
  <2> QED BY <2>1, <2>2
<1>3. step \in [Nat \X (1 .. n) -> Nat]
  BY <1>2
<1>4. \A x \in Nat, i \in 1 .. n : step[<<x, i>>] = x * base + Digit(s[i])
  OBVIOUS
<1>5. Is(Numbers(base, s)) \/ ~\E g : Is(g)
  <2>1. Numbers(base, s) = CHOOSE h : Is(h)
    BY DEF Numbers
  <2> HIDE DEF Is
  <2> QED BY <2>1
<1> HIDE DEF step, n
<1>6. PICK g : IsRun(g, n, Nat, 0, step)
  BY <1>1, <1>3, Recursion
<1>7. \A i \in 1 .. n : g[i] = g[i - 1] * base + Digit(s[i])
  <2> TAKE i \in 1 .. n
  <2>1. i - 1 \in 0 .. n
    BY <1>1
  <2>2. g[i - 1] \in Nat
    BY <1>6, <2>1 DEF IsRun
  <2> QED BY <1>4, <1>6, <2>2 DEF IsRun
<1>8. Is(g)
  BY <1>1, <1>6, <1>7 DEF IsRun
<1>9. Numbers(base, s) =
        [i \in 0 .. n |->
           IF i = 0 THEN 0 ELSE Numbers(base, s)[i - 1] * base + Digit(s[i])]
  BY <1>5, <1>8
<1>10. /\ Numbers(base, s)[0] = 0
       /\ \A i \in 1 .. n :
            Numbers(base, s)[i] = Numbers(base, s)[i - 1] * base + Digit(s[i])
  BY <1>1, <1>9
<1>11. \A i \in 0 .. n : Numbers(base, s)[i] \in Nat
  <2> DEFINE T == {i \in 0 .. n : Numbers(base, s)[i] \in Nat}
  <2>1. 0 \in T
    BY <1>1, <1>10
  <2>2. ASSUME NEW i \in 0 .. n - 1, i \in T PROVE i + 1 \in T
    <3>1. i + 1 \in 1 .. n /\ (i + 1) - 1 = i
      BY <1>1
    <3>2. Numbers(base, s)[i] \in Nat /\ i + 1 \in 0 .. n
      BY <1>1, <2>2
    <3>3. Numbers(base, s)[i + 1] = Numbers(base, s)[i] * base + Digit(s[i + 1])
      BY <1>10, <3>1
    <3>4. Numbers(base, s)[i + 1] \in Nat
      BY <1>2, <3>1, <3>2, <3>3
    <3> QED BY <3>2, <3>4
  <2>3. T \in SUBSET (0 .. n)
    OBVIOUS
  <2> HIDE DEF T
  <2>4. \A i \in 0 .. n : i \in T
    BY <1>1, <2>1, <2>2, <2>3, InductionTo
  <2> QED BY <2>4 DEF T
<1>12. Numbers(base, s) \in [0 .. n -> Nat]
  BY <1>9, <1>11
<1> QED
  BY <1>10, <1>12 DEF n

(* A state of ParseHex16 after i digits that denote n: it has given up     *)
(* exactly when the number is too large, and count is the number of its    *)
(* digits without leading zeros.                                           *)
Digits4(count, n) ==
    \/ count = 0 /\ n = 0
    \/ count = 1 /\ 0 < n /\ n < 16
    \/ count = 2 /\ 16 =< n /\ n < 256
    \/ count = 3 /\ 256 =< n /\ n < 4096
    \/ count = 4 /\ 4096 =< n /\ n < 65536

Fits(n) == n < 65536

Seconds == 0 .. 3600

(* Membership in a range from zero, as an inequality. *)
LEMMA Between ==
    ASSUME NEW n \in Nat, NEW m \in Nat
    PROVE  n \in 0 .. m <=> n =< m
  OBVIOUS

(* Numbers of 16 bits, and seconds. *)
LEMMA FitsIs ==
    ASSUME NEW n \in Nat
    PROVE  /\ Fits(n) <=> n \in Word
           /\ n =< 3600 <=> n \in Seconds
           /\ \A d \in Nat : Fits(n * 16 + d) => Fits(n)
<1> DEFINE w == 65535
           h == 3600
<1>1. w \in Nat /\ h \in Nat
  BY SMT
<1>2. Fits(n) <=> n =< w
  BY SMT DEF Fits
<1>3. Word = 0 .. w /\ Seconds = 0 .. h
  BY DEF Word, Seconds
<1>4. n =< 3600 <=> n =< h
  OBVIOUS
<1>5. \A d \in Nat : Fits(n * 16 + d) => Fits(n)
  <2> TAKE d \in Nat
  <2>1. n * 16 + d \in Nat /\ n =< n * 16 + d
    BY SMT
  <2> DEFINE m == n * 16 + d
  <2> HIDE DEF m
  <2>2. m \in Nat /\ n =< m
    BY <2>1 DEF m
  <2>3. Fits(m) => Fits(n)
    BY <2>2, SMT DEF Fits
  <2> QED BY <2>3 DEF m
<1> HIDE DEF w, h
<1>6. (n \in Word <=> n =< w) /\ (n \in Seconds <=> n =< h)
  BY <1>1, <1>3, Between
<1> QED BY <1>2, <1>4, <1>5, <1>6

HexAt(acc, count, n) ==
    /\ ~Fits(n) => acc = -1
    /\ Fits(n) => acc = n /\ Digits4(count, n)

(* Arithmetic of one digit more. *)
LEMMA DigitMore ==
    ASSUME NEW n \in Nat, NEW count \in Nat, NEW d \in 0 .. 15
    PROVE  /\ ~Fits(n) => ~Fits(n * 16 + d)
           /\ Digits4(count, n) =>
                /\ count = 0 <=> n = 0
                /\ count = 4 => ~Fits(n * 16 + d)
                /\ ~(count = 0 /\ d = 0) /\ count # 4 =>
                      Fits(n * 16 + d) /\ Digits4(count + 1, n * 16 + d)
           /\ Fits(0) /\ Digits4(0, 0)
<1>1. ~Fits(n) => ~Fits(n * 16 + d)
  BY SMT DEF Fits
<1>2. Digits4(count, n) => (count = 0 <=> n = 0)
  BY SMT DEF Digits4
<1>3. Digits4(count, n) /\ count = 4 => ~Fits(n * 16 + d)
  BY SMT DEF Digits4, Fits
<1>4. Digits4(count, n) /\ ~(count = 0 /\ d = 0) /\ count # 4 => Fits(n * 16 + d)
  BY SMT DEF Digits4, Fits
<1>5. Digits4(count, n) /\ ~(count = 0 /\ d = 0) /\ count # 4 => Digits4(count + 1, n * 16 + d)
  <2>1. CASE count = 0
    BY <2>1, SMT DEF Digits4
  <2>2. CASE count = 1
    BY <2>2, SMT DEF Digits4
  <2>3. CASE count = 2
    BY <2>3, SMT DEF Digits4
  <2>4. CASE count = 3
    BY <2>4, SMT DEF Digits4
  <2>5. Digits4(count, n) => count \in 0 .. 4
    BY SMT DEF Digits4
  <2> QED BY <2>1, <2>2, <2>3, <2>4, <2>5
<1>6. Fits(0) /\ Digits4(0, 0)
  BY SMT DEF Digits4, Fits
<1> QED BY <1>1, <1>2, <1>3, <1>4, <1>5, <1>6

(* The same for ParseHex16. *)
LEMMA HexDigit ==
    ASSUME NEW st \in HexState, NEW n \in Nat, NEW c, IsHex(c),
           HexAt(st.acc, st.count, n)
    PROVE  /\ HexAt(HexStep(st, c).acc, HexStep(st, c).count, n * 16 + Digit(c))
           /\ Fits(n) => HexStep(st, c).seen = TRUE
<1> DEFINE d == Digit(c)
           m == n * 16 + d
           t == HexStep(st, c)
<1>1. d \in 0 .. 15 /\ st.acc \in Int /\ st.count \in Nat /\ m \in Nat
  BY DigitTypes DEF HexState
<1>2. /\ ~Fits(n) => ~Fits(m)
      /\ Digits4(st.count, n) =>
           /\ st.count = 0 <=> n = 0
           /\ st.count = 4 => ~Fits(m)
           /\ ~(st.count = 0 /\ d = 0) /\ st.count # 4 => Fits(m) /\ Digits4(st.count + 1, m)
      /\ Fits(0) /\ Digits4(0, 0)
  <2> HIDE DEF d
  <2> QED BY <1>1, DigitMore
<1>3. CASE ~Fits(n)
  <2>1. t = [st EXCEPT !.acc = -1]
    BY <1>3 DEF HexStep, HexAt
  <2>2. t.acc = -1
    BY <2>1 DEF HexState
  <2> HIDE DEF m, t
  <2> QED BY <1>2, <1>3, <2>2 DEF HexAt, m, t
<1>4. CASE Fits(n) /\ n = 0 /\ d = 0
  <2>1. st.acc = 0 /\ st.count = 0 /\ m = 0
    <3>1. st.acc = n /\ Digits4(st.count, n)
      BY <1>4 DEF HexAt
    <3> QED BY <1>2, <1>4, <3>1
  <2>2. t = [st EXCEPT !.seen = TRUE]
    BY <1>4, <2>1 DEF HexStep
  <2>3. t.acc = 0 /\ t.count = 0 /\ t.seen = TRUE
    BY <2>1, <2>2 DEF HexState
  <2> HIDE DEF m, t
  <2> QED BY <1>2, <2>1, <2>3 DEF HexAt, m, t
<1>5. CASE Fits(n) /\ ~(n = 0 /\ d = 0)
  <2>1. st.acc = n /\ Digits4(st.count, n) /\ (st.count = 0 <=> n = 0)
    BY <1>2, <1>5 DEF HexAt
  <2>2. t = [acc |-> IF st.count = 4 THEN -1 ELSE m, count |-> st.count + 1, seen |-> TRUE]
    BY <1>5, <2>1 DEF HexStep
  <2>3. t.acc = (IF st.count = 4 THEN -1 ELSE m) /\ t.count = st.count + 1 /\ t.seen = TRUE
    BY <2>2
  <2> HIDE DEF m, t
  <2>4. st.count = 4 => ~Fits(m)
    BY <1>2, <2>1
  <2>5. st.count # 4 => Fits(m) /\ Digits4(st.count + 1, m)
    BY <1>2, <1>5, <2>1
  <2>6. HexAt(t.acc, t.count, m)
    <3>1. CASE st.count = 4
      BY <2>3, <2>4, <3>1 DEF HexAt
    <3>2. CASE st.count # 4
      BY <2>3, <2>5, <3>2 DEF HexAt
    <3> QED BY <3>1, <3>2
  <2> QED BY <2>3, <2>6 DEF m, t
<1> QED BY <1>3, <1>4, <1>5

(* ParseHex16 accepts exactly the numbers below 65536, however many zeros  *)
(* they are padded with, and returns what their digits denote.             *)
THEOREM HexIsParsed ==
    ASSUME NEW S, NEW val \in Seq(S)
    PROVE  /\ ParseHex16(val) = Hex(val)
           /\ Hex(val) = {} \/ \E n \in Word : Hex(val) = {n}
<1> DEFINE s == Unprefixed(val)
           n == Len(s)
           st == HexRun(s)[n]
<1>1. s \in Seq(S) /\ n \in Nat
  BY DEF Unprefixed
<1> HIDE DEF s
<1>2. HexRun(s) \in [0 .. n -> HexState] /\ st \in HexState
  BY <1>1, HexRunIs
<1>3. HexRun(s)[0] = [acc |-> 0, count |-> 0, seen |-> FALSE]
  BY <1>1, HexRunIs
<1>4. \A i \in 1 .. n : HexRun(s)[i] = HexStep(HexRun(s)[i - 1], s[i])
  BY <1>1, HexRunIs
<1>5. ParseHex16(val) = IF st.seen /\ st.acc >= 0 THEN {st.acc} ELSE {}
  BY DEF ParseHex16, s
<1>6. Hex(val) = IF (s # <<>> /\ \A i \in DOMAIN s : IsHex(s[i])) /\ Fits(Number(16, s))
                 THEN {Number(16, s)} ELSE {}
  BY DEF Hex, AllIn, Fits, s
<1>7. DOMAIN s = 1 .. n
  BY <1>1
<1>8. CASE \E j \in 1 .. n : ~IsHex(s[j])
  <2>1. PICK j \in 1 .. n : ~IsHex(s[j])
    BY <1>8
  <2> DEFINE T == {i \in 0 .. n : i >= j => HexRun(s)[i].acc < 0}
  <2>2. 0 \in T
    BY <1>1
  <2>3. ASSUME NEW i \in 0 .. n - 1, i \in T PROVE i + 1 \in T
    <3>1. i + 1 \in 1 .. n /\ (i + 1) - 1 = i /\ HexRun(s)[i] \in HexState
      BY <1>1, <1>2
    <3>2. HexRun(s)[i + 1] = HexStep(HexRun(s)[i], s[i + 1])
      BY <1>4, <3>1
    <3>3. ASSUME i + 1 >= j PROVE HexRun(s)[i + 1] = [HexRun(s)[i] EXCEPT !.acc = -1]
      <4>1. i + 1 = j \/ i >= j
        BY <3>3
      <4>2. ~IsHex(s[i + 1]) \/ HexRun(s)[i].acc < 0
        BY <2>1, <2>3, <4>1
      <4> QED BY <3>2, <4>2 DEF HexStep
    <3>4. i + 1 >= j => HexRun(s)[i + 1].acc < 0
      BY <3>1, <3>3 DEF HexState
    <3> QED BY <3>1, <3>4
  <2>4. T \in SUBSET (0 .. n)
    OBVIOUS
  <2> HIDE DEF T
  <2>5. n \in T
    <3>1. \A i \in 0 .. n : i \in T
      BY <1>1, <2>2, <2>3, <2>4, InductionTo
    <3> QED BY <1>1, <3>1
  <2>6. st.acc < 0 /\ st.acc \in Int
    BY <1>1, <1>2, <2>5 DEF T, HexState
  <2>7. ~(st.acc >= 0)
    BY <2>6
  <2>8. ParseHex16(val) = {}
    BY <1>5, <2>7
  <2>9. Hex(val) = {}
    BY <1>6, <1>7, <2>1
  <2> QED BY <2>8, <2>9
<1>9. CASE \A j \in 1 .. n : IsHex(s[j])
  <2> DEFINE num == Numbers(16, s)
  <2>1. /\ num \in [0 .. n -> Nat] /\ num[0] = 0
        /\ \A i \in 1 .. n : num[i] = num[i - 1] * 16 + Digit(s[i])
    BY <1>1, <1>9, NumbersIs
  <2>a. Number(16, s) = num[n]
    BY DEF Number
  <2> HIDE DEF num
  <2> DEFINE T == {i \in 0 .. n : /\ HexAt(HexRun(s)[i].acc, HexRun(s)[i].count, num[i])
                                  /\ i > 0 /\ Fits(num[i]) => HexRun(s)[i].seen = TRUE}
  <2>2. 0 \in T
    <3>1. Fits(0) /\ Digits4(0, 0)
      BY SMT DEF Fits, Digits4
    <3>2. HexRun(s)[0].acc = 0 /\ HexRun(s)[0].count = 0 /\ 0 \in 0 .. n
      BY <1>1, <1>3
    <3>3. HexAt(HexRun(s)[0].acc, HexRun(s)[0].count, num[0])
      BY <2>1, <3>1, <3>2 DEF HexAt
    <3> QED BY <3>2, <3>3
  <2>3. ASSUME NEW i \in 0 .. n - 1, i \in T PROVE i + 1 \in T
    <3>1. i + 1 \in 1 .. n /\ (i + 1) - 1 = i /\ i \in Nat
      BY <1>1
    <3>2. HexRun(s)[i] \in HexState /\ num[i] \in Nat /\ IsHex(s[i + 1])
      <4>1. i \in 0 .. n
        BY <1>1
      <4>2. HexRun(s)[i] \in HexState
        BY <1>2, <4>1
      <4>3. num[i] \in Nat
        BY <2>1, <4>1
      <4>4. IsHex(s[i + 1])
        BY <1>9, <3>1
      <4> QED BY <4>2, <4>3, <4>4
    <3>3. HexRun(s)[i + 1] = HexStep(HexRun(s)[i], s[i + 1])
      BY <1>4, <3>1
    <3>4. num[i + 1] = num[i] * 16 + Digit(s[i + 1])
      BY <2>1, <3>1
    <3>5. HexAt(HexRun(s)[i].acc, HexRun(s)[i].count, num[i])
      BY <2>3
    <3>6. /\ HexAt(HexRun(s)[i + 1].acc, HexRun(s)[i + 1].count, num[i + 1])
          /\ Fits(num[i]) => HexRun(s)[i + 1].seen = TRUE
      BY <3>2, <3>3, <3>4, <3>5, HexDigit
    <3>7. Fits(num[i + 1]) => Fits(num[i])
      <4>1. Digit(s[i + 1]) \in Nat
        <5> DEFINE c == s[i + 1]
        <5>1. IsHex(c)
          BY <3>2
        <5> HIDE DEF c
        <5>2. Digit(c) \in 0 .. 15
          BY <5>1, DigitTypes
        <5>3. Digit(c) \in Nat
          BY <5>2
        <5> QED BY <5>3 DEF c
      <4> QED BY <3>2, <3>4, <4>1, FitsIs
    <3> QED BY <3>1, <3>6, <3>7
  <2>4. T \in SUBSET (0 .. n)
    OBVIOUS
  <2> HIDE DEF T
  <2>5. n \in T
    <3>1. \A i \in 0 .. n : i \in T
      BY <1>1, <2>2, <2>3, <2>4, InductionTo
    <3> QED BY <1>1, <3>1
  <2>6. /\ HexAt(st.acc, st.count, num[n]) /\ num[n] \in Nat
        /\ n > 0 /\ Fits(num[n]) => st.seen = TRUE
    BY <1>1, <2>1, <2>5 DEF T
  <2>7. CASE s = <<>>
    <3>1. n = 0
      BY <2>7
    <3>2. st.seen = FALSE
      BY <1>3, <3>1
    <3> QED BY <1>5, <1>6, <2>7, <3>2
  <2>8. CASE s # <<>> /\ Fits(num[n])
    <3>1. n > 0
      BY <1>1, <2>8
    <3>2. st.acc = num[n] /\ st.acc >= 0 /\ st.seen = TRUE
      BY <2>6, <2>8, <3>1 DEF HexAt
    <3>3. ParseHex16(val) = {num[n]}
      BY <1>5, <3>2
    <3>4. Hex(val) = {num[n]}
      BY <1>6, <1>7, <1>9, <2>a, <2>8
    <3>5. num[n] \in Word
      BY <2>6, <2>8, FitsIs
    <3> HIDE DEF n
    <3> QED BY <3>3, <3>4, <3>5
  <2>9. CASE ~Fits(num[n])
    <3>1. ~(st.acc >= 0)
      BY <2>6, <2>9 DEF HexAt
    <3>2. ParseHex16(val) = {}
      BY <1>5, <3>1
    <3>3. Hex(val) = {}
      BY <1>6, <2>a, <2>9
    <3> QED BY <3>2, <3>3
  <2> QED BY <2>7, <2>8, <2>9
<1> QED BY <1>8, <1>9

(* ParseDec accepts exactly the numbers up to 3600, of any length, and     *)
(* returns what their digits denote.                                       *)
THEOREM DecIsParsed ==
    ASSUME NEW S, NEW val \in Seq(S)
    PROVE  /\ ParseDec(val) = IF (val # <<>> /\ \A i \in DOMAIN val : IsDec(val[i]))
                                 /\ Number(10, val) =< 3600
                              THEN {Number(10, val)} ELSE {}
           /\ ParseDec(val) = {} \/ \E n \in Seconds : ParseDec(val) = {n}
<1> DEFINE n == Len(val)
           acc == DecRun(val)
           Ok(x) == x =< 3600
           All == val # <<>> /\ \A i \in DOMAIN val : IsDec(val[i])
<1>1. n \in Nat /\ DOMAIN val = 1 .. n
  OBVIOUS
<1>2. /\ acc \in [0 .. n -> Int] /\ acc[0] = 0
      /\ \A i \in 1 .. n : acc[i] = DecStep(acc[i - 1], val[i])
  BY DecRunIs
<1>3. ParseDec(val) = IF val = <<>> \/ acc[n] < 0 THEN {} ELSE {acc[n]}
  BY DEF ParseDec
<1>4. All <=> val # <<>> /\ \A i \in 1 .. n : IsDec(val[i])
  BY <1>1
<1>a. SUFFICES /\ ParseDec(val) = IF All /\ Ok(Number(10, val)) THEN {Number(10, val)} ELSE {}
               /\ ParseDec(val) = {} \/ \E x \in Seconds : ParseDec(val) = {x}
  OBVIOUS
<1>5. \A x \in Int : \A c : DecStep(x, c) = IF ~IsDec(c) \/ x < 0 \/ ~Ok(x * 10 + Digit(c))
                                            THEN -1 ELSE x * 10 + Digit(c)
  BY DigitTypes, SMT DEF DecStep
<1> HIDE DEF acc, All, Ok
<1>6. CASE \E j \in 1 .. n : ~IsDec(val[j])
  <2>1. PICK j \in 1 .. n : ~IsDec(val[j])
    BY <1>6
  <2> DEFINE T == {i \in 0 .. n : i >= j => acc[i] < 0}
  <2>2. 0 \in T
    BY <1>1
  <2>3. ASSUME NEW i \in 0 .. n - 1, i \in T PROVE i + 1 \in T
    <3>1. i + 1 \in 1 .. n /\ (i + 1) - 1 = i /\ acc[i] \in Int
      BY <1>1, <1>2
    <3>2. acc[i + 1] = DecStep(acc[i], val[i + 1])
      BY <1>2, <3>1
    <3>3. ASSUME i + 1 >= j PROVE acc[i + 1] = -1
      <4>1. i + 1 = j \/ i >= j
        BY <3>3
      <4>2. ~IsDec(val[i + 1]) \/ acc[i] < 0
        BY <2>1, <2>3, <4>1
      <4> QED BY <1>5, <3>1, <3>2, <4>2
    <3> QED BY <3>1, <3>3
  <2>4. T \in SUBSET (0 .. n)
    OBVIOUS
  <2> HIDE DEF T
  <2>5. n \in T
    <3>1. \A i \in 0 .. n : i \in T
      BY <1>1, <2>2, <2>3, <2>4, InductionTo
    <3> QED BY <1>1, <3>1
  <2>6. acc[n] < 0
    BY <1>1, <2>5 DEF T
  <2>7. ParseDec(val) = {}
    BY <1>3, <2>6
  <2>8. ~All
    BY <1>4, <2>1
  <2> QED BY <2>7, <2>8
<1>7. CASE \A j \in 1 .. n : IsDec(val[j])
  <2> DEFINE num == Numbers(10, val)
  <2>1. /\ num \in [0 .. n -> Nat] /\ num[0] = 0
        /\ \A i \in 1 .. n : num[i] = num[i - 1] * 10 + Digit(val[i])
    BY <1>7, DigitTypes, NumbersIs
  <2>a. Number(10, val) = num[n]
    BY DEF Number
  <2> HIDE DEF num
  <2> DEFINE T == {i \in 0 .. n : acc[i] = IF Ok(num[i]) THEN num[i] ELSE -1}
  <2>2. 0 \in T
    <3>1. Ok(0)
      BY SMT DEF Ok
    <3> QED BY <1>1, <1>2, <2>1, <3>1
  <2>3. ASSUME NEW i \in 0 .. n - 1, i \in T PROVE i + 1 \in T
    <3>1. i + 1 \in 1 .. n /\ (i + 1) - 1 = i /\ i \in Nat
      BY <1>1
    <3>2. acc[i] \in Int /\ num[i] \in Nat /\ IsDec(val[i + 1])
      BY <1>1, <1>2, <1>7, <2>1, <3>1
    <3>3. acc[i + 1] = DecStep(acc[i], val[i + 1])
      BY <1>2, <3>1
    <3>4. num[i + 1] = num[i] * 10 + Digit(val[i + 1])
      BY <2>1, <3>1
    <3>5. acc[i] = IF Ok(num[i]) THEN num[i] ELSE -1
      BY <2>3
    <3>6. Digit(val[i + 1]) \in 0 .. 9
      BY <3>2, DigitTypes
    <3>7. ~Ok(num[i]) => ~Ok(num[i + 1])
      BY <3>2, <3>4, <3>6, SMT DEF Ok
    <3>8. acc[i + 1] = IF acc[i] < 0 \/ ~Ok(acc[i] * 10 + Digit(val[i + 1]))
                       THEN -1 ELSE acc[i] * 10 + Digit(val[i + 1])
      BY <1>5, <3>2, <3>3
    <3>9. acc[i + 1] = IF Ok(num[i + 1]) THEN num[i + 1] ELSE -1
      BY <3>2, <3>4, <3>5, <3>7, <3>8
    <3> QED BY <3>1, <3>9
  <2>4. T \in SUBSET (0 .. n)
    OBVIOUS
  <2> HIDE DEF T
  <2>5. n \in T
    <3>1. \A i \in 0 .. n : i \in T
      BY <1>1, <2>2, <2>3, <2>4, InductionTo
    <3> QED BY <1>1, <3>1
  <2>6. acc[n] = (IF Ok(num[n]) THEN num[n] ELSE -1) /\ num[n] \in Nat
    BY <1>1, <2>1, <2>5 DEF T
  <2>7. CASE val # <<>> /\ Ok(num[n])
    <3>1. num[n] \in Seconds
      <4>1. num[n] \in Nat /\ Ok(num[n])
        BY <2>6, <2>7
      <4> QED BY <4>1, FitsIs DEF Ok
    <3>2. ParseDec(val) = {num[n]}
      BY <1>3, <2>6, <2>7
    <3>3. All
      BY <1>4, <1>7, <2>7
    <3> QED BY <2>a, <3>1, <3>2, <3>3, <2>7
  <2>8. CASE ~(val # <<>> /\ Ok(num[n]))
    <3>1. ~(All /\ Ok(num[n]))
      BY <1>4, <2>8
    <3>2. ParseDec(val) = {}
      BY <1>3, <2>6, <2>8
    <3> QED BY <2>a, <3>1, <3>2
  <2> QED BY <2>7, <2>8
<1> QED BY <1>6, <1>7

-----------------------------------------------------------------------------
(* Settings *)

(* What texts are made of.  The provers do not know of any literal that it *)
(* is a STRING.                                                            *)
Token == STRING \union Keys \union
         {"UNKNOWN", "none", " ", "=", "#", "\n", "1", "\\", "UTF-8", "UTF-16"}

Config ==
    [Loaded : BOOLEAN, Encoding : {"ok", "UTF-16 rejected"},
     HasExpectVendor : BOOLEAN, ExpectVendor : Word,
     HasExpectDevice : BOOLEAN, ExpectDeviceAny : BOOLEAN, ExpectDevice : Word,
     AUTOBOOT_WHEN_FOUND : BOOLEAN, AutobootDelay : Delays,
     HALT_WHEN_MISSING : BOOLEAN, LOG_ENABLE : BOOLEAN,
     HasBootPath : BOOLEAN, BootPath : {p \in Seq(Token) : Len(p) =< MaxPath}]

(* What the seven keys mean, and which fields hold them. *)
LEMMA MeaningIs ==
    ASSUME NEW val
    PROVE  /\ \A key \in Flags : Meaning(key, val) = ParseBool(val)
           /\ Meaning("EXPECT_VENDOR", val) = Hex(val)
           /\ Meaning("EXPECT_DEVICE", val) = IF val = <<"ANY">> THEN {AnyDevice} ELSE Hex(val)
           /\ Meaning("AUTOBOOT_DELAY", val) =
                IF (val # <<>> /\ \A i \in DOMAIN val : IsDec(val[i])) /\ Number(10, val) =< 3600
                THEN {IF Number(10, val) = 0 THEN 1 ELSE Number(10, val)} ELSE {}
           /\ Meaning("BOOT_PATH", val) =
                IF val = <<>> THEN {}
                ELSE {[i \in 1 .. IF Len(val) > MaxPath THEN MaxPath ELSE Len(val) |->
                         IF val[i] = "/" THEN "\\" ELSE val[i]]}
<1>1. \A key \in Flags : Meaning(key, val) = ParseBool(val)
  BY DEF Meaning, Flags
<1>2. Meaning("EXPECT_VENDOR", val) = Hex(val)
  BY DEF Meaning, Flags
<1>3. Meaning("EXPECT_DEVICE", val) = IF val = <<"ANY">> THEN {AnyDevice} ELSE Hex(val)
  BY DEF Meaning, Flags
<1>4. Meaning("AUTOBOOT_DELAY", val) =
        IF (val # <<>> /\ \A i \in DOMAIN val : IsDec(val[i])) /\ Number(10, val) =< 3600
        THEN {IF Number(10, val) = 0 THEN 1 ELSE Number(10, val)} ELSE {}
  BY SMT DEF Meaning, Flags, AllIn
<1>5. Meaning("BOOT_PATH", val) =
        IF val = <<>> THEN {}
        ELSE {[i \in 1 .. IF Len(val) > MaxPath THEN MaxPath ELSE Len(val) |->
                 IF val[i] = "/" THEN "\\" ELSE val[i]]}
  BY DEF Meaning, Flags
<1> QED BY <1>1, <1>2, <1>3, <1>4, <1>5, SMT

(* What is in force for each of the seven keys, by its fields. *)
LEMMA InForceIs ==
    ASSUME NEW c
    PROVE  /\ \A key \in Flags : InForce(c, key) = {c[key]}
           /\ InForce(c, "EXPECT_VENDOR") = IF c.HasExpectVendor THEN {c.ExpectVendor} ELSE {}
           /\ InForce(c, "EXPECT_DEVICE") =
                IF ~c.HasExpectDevice THEN {}
                ELSE IF c.ExpectDeviceAny THEN {AnyDevice} ELSE {c.ExpectDevice}
           /\ InForce(c, "AUTOBOOT_DELAY") = {c.AutobootDelay}
           /\ InForce(c, "BOOT_PATH") = IF c.HasBootPath THEN {c.BootPath} ELSE {}
  BY DEF InForce, Flags

(* Two configurations with the same fields for a key agree on it. *)
LEMMA InForceSame ==
    ASSUME NEW c, NEW d
    PROVE  /\ (\A k \in Flags : c[k] = d[k] => InForce(c, k) = InForce(d, k))
           /\ c.HasExpectVendor = d.HasExpectVendor /\ c.ExpectVendor = d.ExpectVendor
                => InForce(c, "EXPECT_VENDOR") = InForce(d, "EXPECT_VENDOR")
           /\ c.HasExpectDevice = d.HasExpectDevice /\ c.ExpectDevice = d.ExpectDevice
              /\ c.ExpectDeviceAny = d.ExpectDeviceAny
                => InForce(c, "EXPECT_DEVICE") = InForce(d, "EXPECT_DEVICE")
           /\ c.AutobootDelay = d.AutobootDelay
                => InForce(c, "AUTOBOOT_DELAY") = InForce(d, "AUTOBOOT_DELAY")
           /\ c.HasBootPath = d.HasBootPath /\ c.BootPath = d.BootPath
                => InForce(c, "BOOT_PATH") = InForce(d, "BOOT_PATH")
<1>1. \A k \in Flags : c[k] = d[k] => InForce(c, k) = InForce(d, k)
  <2> TAKE k \in Flags
  <2>1. InForce(c, k) = {c[k]} /\ InForce(d, k) = {d[k]}
    BY InForceIs
  <2> QED BY <2>1
<1>2. c.HasExpectVendor = d.HasExpectVendor /\ c.ExpectVendor = d.ExpectVendor
        => InForce(c, "EXPECT_VENDOR") = InForce(d, "EXPECT_VENDOR")
  BY InForceIs
<1>3. c.HasExpectDevice = d.HasExpectDevice /\ c.ExpectDevice = d.ExpectDevice
      /\ c.ExpectDeviceAny = d.ExpectDeviceAny
        => InForce(c, "EXPECT_DEVICE") = InForce(d, "EXPECT_DEVICE")
  BY InForceIs
<1>4. c.AutobootDelay = d.AutobootDelay
        => InForce(c, "AUTOBOOT_DELAY") = InForce(d, "AUTOBOOT_DELAY")
  BY InForceIs
<1>5. c.HasBootPath = d.HasBootPath /\ c.BootPath = d.BootPath
        => InForce(c, "BOOT_PATH") = InForce(d, "BOOT_PATH")
  <2>1. InForce(c, "BOOT_PATH") = IF c.HasBootPath THEN {c.BootPath} ELSE {}
    BY InForceIs
  <2>2. InForce(d, "BOOT_PATH") = IF d.HasBootPath THEN {d.BootPath} ELSE {}
    BY InForceIs
  <2> QED BY <2>1, <2>2
<1> QED BY <1>1, <1>2, <1>3, <1>4, <1>5, Zenon

(* A value for a key: what it means comes into force if it means anything, *)
(* and no other key is touched.                                            *)
Takes(c, key, val) ==
    /\ c \in Config
    /\ c.Loaded = config.Loaded /\ c.Encoding = config.Encoding
    /\ \A k \in Keys : InForce(c, k) = IF k = key /\ Meaning(key, val) # {}
                                       THEN Meaning(key, val) ELSE InForce(config, k)

(* EXPECT_VENDOR takes a number of 16 bits and nothing else. *)
LEMMA TakesVendor ==
    ASSUME config \in Config, NEW val \in Seq(Token)
    PROVE  Takes(SetVendor(val), "EXPECT_VENDOR", val)
<1> DEFINE c == SetVendor(val)
<1>1. ParseHex16(val) = Hex(val) /\ (Hex(val) = {} \/ \E n \in Word : Hex(val) = {n})
  BY HexIsParsed
<1>2. Meaning("EXPECT_VENDOR", val) = Hex(val)
  BY MeaningIs
<1>3. CASE Hex(val) = {}
  <2>1. c = config
    BY <1>1, <1>3 DEF SetVendor
  <2> QED BY <1>2, <1>3, <2>1 DEF Takes
<1>4. CASE Hex(val) # {}
  <2>1. PICK v \in Word : Hex(val) = {v}
    BY <1>1, <1>4
  <2>2. v \in Word /\ (CHOOSE w \in Hex(val) : TRUE) = v
    BY <1>1, <2>1
  <2>3. c = [config EXCEPT !.HasExpectVendor = TRUE, !.ExpectVendor = v]
    BY <1>1, <1>4, <2>2 DEF SetVendor
  <2>4. c \in Config
    BY <2>2, <2>3 DEF Config
  <2>5. /\ c.HasExpectVendor = TRUE /\ c.ExpectVendor = v
        /\ c.Loaded = config.Loaded /\ c.Encoding = config.Encoding
        /\ c.HasExpectDevice = config.HasExpectDevice /\ c.ExpectDevice = config.ExpectDevice
        /\ c.ExpectDeviceAny = config.ExpectDeviceAny /\ c.AutobootDelay = config.AutobootDelay
        /\ c.HasBootPath = config.HasBootPath /\ c.BootPath = config.BootPath
        /\ \A k \in Flags : c[k] = config[k]
    BY <2>3 DEF Config, Flags
  <2> HIDE DEF c
  <2>6. \A k \in Keys : k # "EXPECT_VENDOR" => InForce(c, k) = InForce(config, k)
    BY <2>5, InForceSame DEF Keys
  <2>7. InForce(c, "EXPECT_VENDOR") = {v}
    BY <2>5, InForceIs
  <2> QED BY <1>2, <2>1, <2>4, <2>5, <2>6, <2>7 DEF Takes, c
<1> QED BY <1>3, <1>4


(* EXPECT_DEVICE takes a number of 16 bits, or ANY, of which the later     *)
(* wins.                                                                   *)
LEMMA TakesDevice ==
    ASSUME config \in Config, NEW val \in Seq(Token)
    PROVE  Takes(SetDevice(val), "EXPECT_DEVICE", val)
<1> DEFINE c == SetDevice(val)
           Rest == /\ c.Loaded = config.Loaded /\ c.Encoding = config.Encoding
                   /\ c.HasExpectVendor = config.HasExpectVendor
                   /\ c.ExpectVendor = config.ExpectVendor
                   /\ c.AutobootDelay = config.AutobootDelay
                   /\ c.HasBootPath = config.HasBootPath /\ c.BootPath = config.BootPath
                   /\ \A k \in Flags : c[k] = config[k]
<1>1. ParseHex16(val) = Hex(val) /\ (Hex(val) = {} \/ \E n \in Word : Hex(val) = {n})
  BY HexIsParsed
<1>2. Meaning("EXPECT_DEVICE", val) = IF val = <<"ANY">> THEN {AnyDevice} ELSE Hex(val)
  BY MeaningIs
<1>3. Rest => \A k \in Keys : k # "EXPECT_DEVICE" => InForce(c, k) = InForce(config, k)
  <2> HIDE DEF c
  <2> QED BY InForceSame DEF Keys
<1>4. CASE val = <<"ANY">>
  <2>1. c = [config EXCEPT !.HasExpectDevice = TRUE, !.ExpectDeviceAny = TRUE]
    BY <1>4 DEF SetDevice
  <2>2. c \in Config
    BY <2>1 DEF Config
  <2>3. c.HasExpectDevice = TRUE /\ c.ExpectDeviceAny = TRUE /\ Rest
    BY <2>1 DEF Config, Flags
  <2> HIDE DEF c
  <2>4. InForce(c, "EXPECT_DEVICE") = {AnyDevice}
    BY <2>3, InForceIs
  <2> QED BY <1>2, <1>3, <1>4, <2>2, <2>3, <2>4 DEF Takes, c
<1>5. CASE val # <<"ANY">> /\ Hex(val) = {}
  <2>1. c = config
    BY <1>1, <1>5 DEF SetDevice
  <2> QED BY <1>2, <1>5, <2>1 DEF Takes
<1>6. CASE val # <<"ANY">> /\ Hex(val) # {}
  <2>1. PICK v \in Word : Hex(val) = {v}
    BY <1>1, <1>6
  <2>2. (CHOOSE w \in Hex(val) : TRUE) = v
    BY <2>1
  <2>3. c = [config EXCEPT !.HasExpectDevice = TRUE, !.ExpectDeviceAny = FALSE,
                           !.ExpectDevice = v]
    BY <1>1, <1>6, <2>2 DEF SetDevice
  <2>4. c \in Config
    BY <2>3 DEF Config
  <2>5. c.HasExpectDevice = TRUE /\ c.ExpectDeviceAny = FALSE /\ c.ExpectDevice = v /\ Rest
    BY <2>3 DEF Config, Flags
  <2> HIDE DEF c
  <2>6. InForce(c, "EXPECT_DEVICE") = {v}
    BY <2>5, InForceIs
  <2> QED BY <1>2, <1>3, <1>6, <2>1, <2>4, <2>5, <2>6 DEF Takes, c
<1> QED BY <1>4, <1>5, <1>6

(* The three switches take their words, and touch no other key. *)
LEMMA TakesFlag ==
    ASSUME config \in Config, NEW val \in Seq(Token), NEW key \in Flags
    PROVE  Takes(SetFlag(key, val), key, val)
<1> DEFINE c == SetFlag(key, val)
<1>1. ParseBool(val) = {} \/ \E b \in BOOLEAN : ParseBool(val) = {b}
  <2> DEFINE Yes == val \in {<<"1">>, <<"TRUE">>}
             No  == val \in {<<"0">>, <<"FALSE">>}
  <2>1. ParseBool(val) = CASE Yes -> {TRUE} [] No -> {FALSE} [] OTHER -> {}
    BY DEF ParseBool
  <2> HIDE DEF Yes, No
  <2> QED BY <2>1
<1>2. Meaning(key, val) = ParseBool(val)
  BY MeaningIs
<1>3. CASE ParseBool(val) = {}
  <2>1. c = config
    BY <1>3 DEF SetFlag
  <2> QED BY <1>2, <1>3, <2>1 DEF Takes
<1>4. CASE ParseBool(val) # {}
  <2>1. PICK b \in BOOLEAN : ParseBool(val) = {b}
    BY <1>1, <1>4
  <2>2. (CHOOSE w \in ParseBool(val) : TRUE) = b
    BY <2>1
  <2>3. c = [config EXCEPT ![key] = b]
    BY <1>4, <2>2 DEF SetFlag
  <2>4. c \in Config
    BY <2>3 DEF Config, Flags
  <2>5. /\ c[key] = b
        /\ c.Loaded = config.Loaded /\ c.Encoding = config.Encoding
        /\ c.HasExpectVendor = config.HasExpectVendor /\ c.ExpectVendor = config.ExpectVendor
        /\ c.HasExpectDevice = config.HasExpectDevice /\ c.ExpectDevice = config.ExpectDevice
        /\ c.ExpectDeviceAny = config.ExpectDeviceAny /\ c.AutobootDelay = config.AutobootDelay
        /\ c.HasBootPath = config.HasBootPath /\ c.BootPath = config.BootPath
        /\ \A k \in Flags : k # key => c[k] = config[k]
    BY <2>3 DEF Config, Flags
  <2> HIDE DEF c
  <2>6. \A k \in Keys : k # key => InForce(c, k) = InForce(config, k)
    BY <2>5, InForceSame DEF Keys
  <2>7. InForce(c, key) = {b}
    BY <2>5, InForceIs
  <2> QED BY <1>2, <2>1, <2>4, <2>5, <2>6, <2>7 DEF Takes, c
<1> QED BY <1>3, <1>4


(* AUTOBOOT_DELAY takes a number of seconds, of which zero counts as one. *)
LEMMA TakesDelay ==
    ASSUME config \in Config, NEW val \in Seq(Token)
    PROVE  Takes(SetDelay(val), "AUTOBOOT_DELAY", val)
<1> DEFINE c == SetDelay(val)
           Good == (val # <<>> /\ \A i \in DOMAIN val : IsDec(val[i])) /\ Number(10, val) =< 3600
           One(n) == IF n = 0 THEN 1 ELSE n
<1>1. /\ ParseDec(val) = IF Good THEN {Number(10, val)} ELSE {}
      /\ ParseDec(val) = {} \/ \E n \in Seconds : ParseDec(val) = {n}
  BY DecIsParsed
<1>2. Meaning("AUTOBOOT_DELAY", val) = IF Good THEN {One(Number(10, val))} ELSE {}
  BY MeaningIs
<1> HIDE DEF Good
<1>3. CASE ParseDec(val) = {}
  <2>1. c = config
    BY <1>3 DEF SetDelay
  <2>2. ~Good
    BY <1>1, <1>3
  <2> QED BY <1>2, <2>1, <2>2 DEF Takes
<1>4. CASE ParseDec(val) # {}
  <2>1. PICK n \in Seconds : ParseDec(val) = {n}
    BY <1>1, <1>4
  <2>2. (CHOOSE w \in ParseDec(val) : TRUE) = n
    BY <2>1
  <2>3. Good /\ Number(10, val) = n
    BY <1>1, <2>1
  <2>4. One(n) \in Delays
    <3> DEFINE h == 3600
    <3>1. n \in 0 .. h /\ Delays = 1 .. h
      BY DEF Seconds, Delays
    <3>2. h \in Nat /\ h >= 1
      BY SMT
    <3> HIDE DEF h
    <3> QED BY <3>1, <3>2
  <2>5. c = [config EXCEPT !.AutobootDelay = One(n)]
    BY <1>4, <2>2 DEF SetDelay
  <2> HIDE DEF One
  <2>6. c \in Config
    BY <2>4, <2>5 DEF Config
  <2>7. /\ c.AutobootDelay = One(n)
        /\ c.Loaded = config.Loaded /\ c.Encoding = config.Encoding
        /\ c.HasExpectVendor = config.HasExpectVendor /\ c.ExpectVendor = config.ExpectVendor
        /\ c.HasExpectDevice = config.HasExpectDevice /\ c.ExpectDevice = config.ExpectDevice
        /\ c.ExpectDeviceAny = config.ExpectDeviceAny
        /\ c.HasBootPath = config.HasBootPath /\ c.BootPath = config.BootPath
        /\ \A k \in Flags : c[k] = config[k]
    BY <2>5 DEF Config, Flags
  <2> HIDE DEF c
  <2>8. \A k \in Keys : k # "AUTOBOOT_DELAY" => InForce(c, k) = InForce(config, k)
    BY <2>7, InForceSame DEF Keys
  <2>9. InForce(c, "AUTOBOOT_DELAY") = {One(n)}
    BY <2>7, InForceIs
  <2> QED BY <1>2, <2>3, <2>6, <2>7, <2>8, <2>9 DEF Takes, c
<1> QED BY <1>3, <1>4

(* BOOT_PATH takes whatever is not empty, as far as there is room for it. *)
LEMMA TakesPath ==
    ASSUME config \in Config, NEW val \in Seq(Token), val # <<>>
    PROVE  Takes(SetPath(val), "BOOT_PATH", val)
<1> DEFINE c == SetPath(val)
           n == IF Len(val) > MaxPath THEN MaxPath ELSE Len(val)
           path == [i \in 1 .. n |-> IF val[i] = "/" THEN "\\" ELSE val[i]]
<1>1. Meaning("BOOT_PATH", val) = {path}
  BY MeaningIs
<1>2. n \in Nat /\ n =< MaxPath /\ n =< Len(val)
  <2>1. MaxPath \in Nat
    BY ConfigAssumption
  <2>2. Len(val) \in Nat
    OBVIOUS
  <2> QED BY <2>1, <2>2
<1>3. path \in Seq(Token) /\ Len(path) =< MaxPath
  <2>1. path \in [1 .. n -> Token]
    <3> HIDE DEF n
    <3>1. \A i \in 1 .. n : i \in 1 .. Len(val)
      BY <1>2
    <3>2. \A i \in 1 .. n : val[i] \in Token
      BY <3>1
    <3> QED BY <3>2 DEF Token
  <2> HIDE DEF path, n
  <2> QED BY <1>2, <2>1
<1>4. c = [config EXCEPT !.HasBootPath = TRUE, !.BootPath = path]
  BY DEF SetPath
<1> HIDE DEF path
<1>5. c \in Config
  BY <1>3, <1>4 DEF Config
<1>6. /\ c.HasBootPath = TRUE /\ c.BootPath = path
      /\ c.Loaded = config.Loaded /\ c.Encoding = config.Encoding
      /\ c.HasExpectVendor = config.HasExpectVendor /\ c.ExpectVendor = config.ExpectVendor
      /\ c.HasExpectDevice = config.HasExpectDevice /\ c.ExpectDevice = config.ExpectDevice
      /\ c.ExpectDeviceAny = config.ExpectDeviceAny /\ c.AutobootDelay = config.AutobootDelay
      /\ \A k \in Flags : c[k] = config[k]
  BY <1>4 DEF Config, Flags
<1> HIDE DEF c
<1>7. \A k \in Keys : k # "BOOT_PATH" => InForce(c, k) = InForce(config, k)
  BY <1>6, InForceSame DEF Keys
<1>8. InForce(c, "BOOT_PATH") = {path}
  BY <1>6, InForceIs
<1> QED BY <1>1, <1>5, <1>6, <1>7, <1>8 DEF Takes, c

(* An empty value means nothing, whatever the key.                         *)
LEMMA EmptyMeansNothing ==
    \A key \in Keys : Meaning(key, <<>>) = {}
<1> DEFINE e == <<>>
<1>1. ParseBool(e) = {}
  BY DEF ParseBool
<1>2. Hex(e) = {}
  <2>1. Unprefixed(e) = <<>>
    BY DEF Unprefixed, IsPrefix
  <2> QED BY <2>1, SMT DEF Hex, AllIn
<1>3. e # <<"ANY">>
  OBVIOUS
<1> QED BY <1>1, <1>2, <1>3, MeaningIs DEF Keys

(* What ApplySetting does to the settings.                                 *)
LEMMA SettingIsTaken ==
    ASSUME config \in Config, NEW val \in Seq(Token), NEW key \in Keys \union {"UNKNOWN"}
    PROVE  /\ key \in Keys => Takes(ApplySetting(<<key>>, val), key, val)
           /\ key \notin Keys => ApplySetting(<<key>>, val) = config
           /\ ApplySetting(<<>>, val) = config
<1>1. CASE val = <<>>
  <2>1. \A k : ApplySetting(k, val) = config
    BY <1>1 DEF ApplySetting
  <2> QED BY <1>1, <2>1, EmptyMeansNothing DEF Takes
<1>2. CASE val # <<>>
  <2>1. ApplySetting(<<>>, val) = config
    BY <1>2 DEF ApplySetting, Flags
  <2>2. ApplySetting(<<"EXPECT_VENDOR">>, val) = SetVendor(val)
    BY <1>2 DEF ApplySetting, Flags
  <2>3. ApplySetting(<<"EXPECT_DEVICE">>, val) = SetDevice(val)
    BY <1>2 DEF ApplySetting, Flags
  <2>4. \A k \in Flags : ApplySetting(<<k>>, val) = SetFlag(k, val)
    BY <1>2 DEF ApplySetting, Flags
  <2>5. ApplySetting(<<"AUTOBOOT_DELAY">>, val) = SetDelay(val)
    BY <1>2 DEF ApplySetting, Flags
  <2>6. ApplySetting(<<"BOOT_PATH">>, val) = SetPath(val)
    BY <1>2 DEF ApplySetting, Flags
  <2>7. ApplySetting(<<"UNKNOWN">>, val) = config
    BY <1>2 DEF ApplySetting, Flags
  <2> QED
    BY <1>2, <2>1, <2>2, <2>3, <2>4, <2>5, <2>6, <2>7,
       TakesVendor, TakesDevice, TakesFlag, TakesDelay, TakesPath DEF Keys
<1> QED BY <1>1, <1>2

-----------------------------------------------------------------------------
(* Texts *)

(* What comes before a character is a part without it.                     *)
LEMMA BeforeIs ==
    ASSUME NEW S, NEW s \in Seq(S), NEW c, NEW n \in 0 .. Len(s),
           \A i \in 1 .. n : s[i] # c, n = Len(s) \/ s[n + 1] = c
    PROVE  Before(s, c) = SubSeq(s, 1, n)
<1> DEFINE P(m) == (\A i \in 1 .. m : s[i] # c) /\ (m = Len(s) \/ s[m + 1] = c)
<1>1. \A m \in 0 .. Len(s) : P(m) => m = n
  <2> SUFFICES ASSUME NEW m \in 0 .. Len(s), P(m) PROVE m = n
    OBVIOUS
  <2>1. Len(s) \in Nat
    OBVIOUS
  <2>2. CASE m < n
    <3>1. m + 1 \in 1 .. n /\ m # Len(s)
      BY <2>1, <2>2
    <3> QED BY <3>1
  <2>3. CASE n < m
    <3>1. n + 1 \in 1 .. m /\ n # Len(s)
      BY <2>1, <2>3
    <3> QED BY <3>1
  <2> QED BY <2>1, <2>2, <2>3
<1>2. P(n)
  OBVIOUS
<1>3. Before(s, c) = SubSeq(s, 1, CHOOSE m \in 0 .. Len(s) : P(m))
  BY DEF Before
<1> HIDE DEF P
<1>4. (CHOOSE m \in 0 .. Len(s) : P(m)) = n
  BY <1>1, <1>2
<1> QED BY <1>3, <1>4

(* Trimming takes the blanks at either end and nothing else.               *)
LEMMA TrimIs ==
    ASSUME NEW S, NEW s \in Seq(S)
    PROVE  /\ Trim(s) \in Seq(S)
           /\ (\A i \in 1 .. Len(s) : s[i] = " ") => Trim(s) = <<>>
           /\ \A a, b \in 1 .. Len(s) :
                 /\ s[a] # " " /\ \A i \in 1 .. a - 1 : s[i] = " "
                 /\ s[b] # " " /\ \A i \in b + 1 .. Len(s) : s[i] = " "
                 => Trim(s) = SubSeq(s, a, b)
<1> DEFINE solid == {i \in DOMAIN s : s[i] # " "}
           x == CHOOSE i \in solid : \A j \in solid : i =< j
           y == CHOOSE i \in solid : \A j \in solid : j =< i
<1>1. Len(s) \in Nat /\ DOMAIN s = 1 .. Len(s)
  OBVIOUS
<1>2. Trim(s) = IF solid = {} THEN <<>> ELSE SubSeq(s, x, y)
  BY DEF Trim
<1>3. solid \in SUBSET (1 .. Len(s))
  BY <1>1
<1>4. solid # {} => x \in solid /\ \A j \in solid : x =< j
  <2> HIDE DEF solid
  <2>1. solid # {} => \E i \in solid : \A j \in solid : i =< j
    <3>1. solid \in SUBSET Nat
      BY <1>1, <1>3
    <3> QED BY <3>1, Least
  <2> QED BY <2>1
<1>5. solid # {} => y \in solid /\ \A j \in solid : j =< y
  <2> DEFINE T == {Len(s) - i : i \in solid}
  <2> HIDE DEF solid
  <2>1. ASSUME solid # {} PROVE \E i \in solid : \A j \in solid : j =< i
    <3>1. T \in SUBSET Nat /\ T # {}
      <4>1. \A i \in solid : Len(s) - i \in Nat
        BY <1>1, <1>3
      <4> QED BY <2>1, <4>1
    <3> HIDE DEF T
    <3>2. PICK t \in T : \A u \in T : t =< u
      BY <3>1, Least
    <3>3. PICK i \in solid : t = Len(s) - i
      BY DEF T
    <3>4. ASSUME NEW j \in solid PROVE j =< i
      <4>1. Len(s) - j \in T
        BY DEF T
      <4>2. Len(s) - i =< Len(s) - j /\ i \in Int /\ j \in Int /\ Len(s) \in Int
        BY <1>1, <1>3, <3>2, <3>3, <4>1
      <4> QED BY <4>2
    <3> QED BY <3>4
  <2> QED BY <2>1
<1>6. solid = {} <=> \A i \in 1 .. Len(s) : s[i] = " "
  BY <1>1
<1>7. \A i \in 1 .. Len(s) : i \in solid <=> s[i] # " "
  BY <1>1
<1> HIDE DEF solid, x, y
<1>8. Trim(s) \in Seq(S)
  <2>1. CASE solid = {}
    BY <1>2, <2>1
  <2>2. CASE solid # {}
    <3>1. x \in 1 .. Len(s) /\ y \in 1 .. Len(s)
      BY <1>3, <1>4, <1>5, <2>2
    <3>2. \A i \in x .. y : s[i] \in S
      BY <1>1, <3>1
    <3>3. SubSeq(s, x, y) \in Seq(S)
      BY <1>1, <3>1, <3>2, SubSeqProperties
    <3> QED BY <1>2, <2>2, <3>3
  <2> QED BY <2>1, <2>2
<1>9. (\A i \in 1 .. Len(s) : s[i] = " ") => Trim(s) = <<>>
  BY <1>2, <1>6
<1>10. ASSUME NEW a \in 1 .. Len(s), NEW b \in 1 .. Len(s),
              s[a] # " ", \A i \in 1 .. a - 1 : s[i] = " ",
              s[b] # " ", \A i \in b + 1 .. Len(s) : s[i] = " "
       PROVE  Trim(s) = SubSeq(s, a, b)
  <2>1. a \in solid /\ b \in solid /\ solid # {}
    BY <1>7, <1>10
  <2>2. x \in 1 .. Len(s) /\ y \in 1 .. Len(s) /\ s[x] # " " /\ s[y] # " "
        /\ x =< a /\ b =< y
    BY <1>3, <1>4, <1>5, <1>7, <2>1
  <2>3. x \in Int /\ y \in Int /\ a \in Int /\ b \in Int /\ x >= 1 /\ y =< Len(s)
    <3> DEFINE n == Len(s)
    <3>1. n \in Nat /\ x \in 1 .. n /\ y \in 1 .. n /\ a \in 1 .. n /\ b \in 1 .. n
      BY <1>1, <2>2
    <3> HIDE DEF n
    <3>2. x \in Int /\ y \in Int /\ a \in Int /\ b \in Int /\ x >= 1 /\ y =< n
      BY <3>1
    <3> QED BY <3>2 DEF n
  <2>4. ~(x < a)
    <3>1. x < a => x \in 1 .. a - 1
      BY <2>3
    <3> QED BY <1>10, <2>2, <3>1
  <2>5. ~(b < y)
    <3>1. b < y => y \in b + 1 .. Len(s)
      BY <1>1, <2>3
    <3> QED BY <1>10, <2>2, <3>1
  <2>6. x = a /\ y = b
    <3>1. x =< a /\ b =< y
      BY <2>2
    <3> QED BY <2>3, <2>4, <2>5, <3>1
  <2> QED BY <1>2, <2>1, <2>6
<1> QED BY <1>8, <1>9, <1>10

(* A text is trimmed to what lies between its first and last solid         *)
(* character.                                                              *)
LEMMA TrimSolid ==
    ASSUME NEW S, NEW s \in Seq(S), NEW a \in 1 .. Len(s), NEW b \in 1 .. Len(s),
           s[a] # " ", \A i \in 1 .. a - 1 : s[i] = " ",
           s[b] # " ", \A i \in b + 1 .. Len(s) : s[i] = " "
    PROVE  Trim(s) = SubSeq(s, a, b)
  BY TrimIs

-----------------------------------------------------------------------------
(* Lines *)

(* Short texts, and one behind the other.                                  *)
LEMMA Short ==
    ASSUME NEW S, NEW a \in S, NEW b \in S, NEW c \in S, NEW d \in S
    PROVE  /\ <<a>> \in Seq(S) /\ Len(<<a>>) = 1 /\ <<a>>[1] = a
           /\ <<a, b>> \in Seq(S) /\ Len(<<a, b>>) = 2 /\ <<a, b>>[1] = a /\ <<a, b>>[2] = b
           /\ <<a, b, c>> \in Seq(S) /\ Len(<<a, b, c>>) = 3
           /\ <<a, b, c>>[1] = a /\ <<a, b, c>>[2] = b /\ <<a, b, c>>[3] = c
           /\ <<a, b, c, d>> \in Seq(S) /\ Len(<<a, b, c, d>>) = 4
           /\ <<a, b, c, d>>[1] = a /\ <<a, b, c, d>>[2] = b
           /\ <<a, b, c, d>>[3] = c /\ <<a, b, c, d>>[4] = d
  OBVIOUS

IsJoin(S, s, t, u) ==
    /\ u \in Seq(S) /\ Len(u) = Len(s) + Len(t)
    /\ Len(s) \in Nat /\ Len(t) \in Nat
    /\ \A i \in 1 .. Len(s) : u[i] = s[i]
    /\ \A i \in 1 .. Len(t) : u[Len(s) + i] = t[i]

(* What stands where in two texts put together. *)
LEMMA Joined ==
    ASSUME NEW S, NEW s \in Seq(S), NEW t \in Seq(S)
    PROVE  IsJoin(S, s, t, s \o t)
<1> DEFINE m == Len(s)
           n == Len(t)
           u == s \o t
<1>1. u \in Seq(S) /\ Len(u) = m + n
      /\ \A i \in 1 .. m + n : u[i] = IF i <= m THEN s[i] ELSE t[i - m]
  BY ConcatProperties
<1>2. m \in Nat /\ n \in Nat
  OBVIOUS
<1> HIDE DEF m, n, u
<1>3. ASSUME NEW i \in 1 .. m PROVE u[i] = s[i]
  <2>1. i \in 1 .. m + n /\ i <= m
    BY <1>2
  <2> QED BY <1>1, <2>1
<1>4. ASSUME NEW i \in 1 .. n PROVE u[m + i] = t[i]
  <2>1. m + i \in 1 .. m + n /\ ~(m + i <= m) /\ (m + i) - m = i
    BY <1>2
  <2> QED BY <1>1, <2>1
<1> QED BY <1>1, <1>2, <1>3, <1>4 DEF m, n, u, IsJoin

(* A line of a file: neither a newline nor a comment mark in the value,    *)
(* and no blanks around it.                                                *)
Plain(l) ==
    /\ l \in Line
    /\ \A i \in 1 .. Len(l.val) : l.val[i] \notin {"\n", "#"}
    /\ l.val # <<>> => l.val[1] # " " /\ l.val[Len(l.val)] # " "

(* What stands before the '=', and before the comment.                     *)
Lead(l) == IF l.key = "none" THEN 1 ELSE 3
Size(l) == Lead(l) + IF l.eq THEN Len(l.val) + 3 ELSE 0

(* What stands where in a line as it is written. *)
LEMMA WrittenIs ==
    ASSUME NEW l, Plain(l)
    PROVE  LET w == Written(l) IN
           /\ w \in Seq(Token)
           /\ Len(w) = Size(l) + IF l.comment THEN 4 ELSE 0
           /\ \A i \in 1 .. Len(w) : w[i] # "\n"
           /\ \A i \in 1 .. Size(l) : w[i] # "#"
           /\ l.comment => w[Size(l) + 1] = "#"
           /\ \A i \in 1 .. Lead(l) : w[i] # "="
           /\ w[1] = " "
           /\ l.key # "none" => w[2] = l.key /\ w[3] = " "
           /\ l.eq => /\ w[Lead(l) + 1] = "=" /\ w[Lead(l) + 2] = " "
                      /\ \A i \in 1 .. Len(l.val) : w[Lead(l) + 2 + i] = l.val[i]
                      /\ w[Size(l)] = " "
<1> DEFINE A == IF l.key = "none" THEN <<" ">> ELSE <<" ", l.key, " ">>
           B == IF l.eq THEN <<"=", " ">> \o l.val \o <<" ">> ELSE <<>>
           C == IF l.comment THEN <<"#", "EXPECT_VENDOR", "=", "1">> ELSE <<>>
           w == Written(l)
           n == Len(l.val)
           a == Lead(l)
<1>1. l.key \in Token \ {"\n", "#", "="} /\ l.eq \in BOOLEAN /\ l.comment \in BOOLEAN
      /\ l.val \in Seq(Token) /\ n \in Nat
  <2>1. l.key \in Keys \union {"UNKNOWN", "none"} /\ l.eq \in BOOLEAN /\ l.comment \in BOOLEAN
        /\ l.val \in Seq(Token)
    <3>1. l.val \in Seq(STRING) /\ STRING \subseteq Token
      BY DEF Plain, Line, Token
    <3> QED BY <3>1, SeqMonotonic DEF Plain, Line
  <2>2. Keys \union {"UNKNOWN", "none"} \subseteq Token \ {"\n", "#", "="}
    BY DEF Keys, Flags, Token
  <2> QED BY <2>1, <2>2
<1>a. {" ", "=", "#", "\n", "1", "EXPECT_VENDOR"} \subseteq Token
  BY DEF Token, Keys
<1>2. A \in Seq(Token) /\ Len(A) = a /\ a \in {1, 3} /\ A[1] = " "
      /\ (\A i \in 1 .. a : A[i] \notin {"\n", "#", "="})
      /\ (l.key # "none" => a = 3 /\ A[2] = l.key /\ A[3] = " ")
  <2>1. CASE l.key = "none"
    <3>1. A = <<" ">> /\ a = 1
      BY <2>1 DEF Lead
    <3>2. A \in Seq(Token) /\ Len(A) = 1 /\ A[1] = " "
      BY <1>a, <3>1, Short
    <3> HIDE DEF A, a
    <3>3. \A i \in 1 .. 1 : i = 1
      OBVIOUS
    <3>4. \A i \in 1 .. a : A[i] \notin {"\n", "#", "="}
      BY <3>1, <3>2, <3>3
    <3> QED BY <2>1, <3>1, <3>2, <3>4
  <2>2. CASE l.key # "none"
    <3>1. A = <<" ", l.key, " ">> /\ a = 3
      BY <2>2 DEF Lead
    <3>2. A \in Seq(Token) /\ Len(A) = 3 /\ A[1] = " " /\ A[2] = l.key /\ A[3] = " "
      BY <1>1, <1>a, <3>1, Short
    <3>3. \A i \in 1 .. 3 : i = 1 \/ i = 2 \/ i = 3
      OBVIOUS
    <3> HIDE DEF A, a
    <3>4. \A i \in 1 .. a : A[i] \notin {"\n", "#", "="}
      BY <1>1, <3>1, <3>2, <3>3
    <3> QED BY <2>2, <3>1, <3>2, <3>4
  <2> QED BY <2>1, <2>2
<1>3. B \in Seq(Token)
      /\ (~l.eq => Len(B) = 0)
      /\ (l.eq => /\ Len(B) = n + 3 /\ B[1] = "=" /\ B[2] = " " /\ B[n + 3] = " "
                  /\ \A i \in 1 .. n : B[2 + i] = l.val[i])
      /\ (\A i \in 1 .. Len(B) : B[i] \notin {"\n", "#"})
  <2>1. CASE ~l.eq
    <3>1. B = <<>>
      BY <2>1
    <3> HIDE DEF B
    <3>2. B \in Seq(Token) /\ Len(B) = 0
      BY <3>1, EmptySeq
    <3>3. \A i \in 1 .. 0 : FALSE
      OBVIOUS
    <3>4. \A i \in 1 .. Len(B) : FALSE
      BY <3>2, <3>3
    <3> QED BY <2>1, <3>2, <3>4
  <2>2. CASE l.eq
    <3> DEFINE D == <<"=", " ">> \o l.val
    <3>1. B = D \o <<" ">>
      BY <2>2
    <3>2. D \in Seq(Token) /\ Len(D) = n + 2 /\ D[1] = "=" /\ D[2] = " "
          /\ \A i \in 1 .. n : D[2 + i] = l.val[i]
      <4> DEFINE E == <<"=", " ">>
      <4>1. E \in Seq(Token) /\ Len(E) = 2 /\ E[1] = "=" /\ E[2] = " "
        BY <1>a, Short
      <4> HIDE DEF E
      <4>2. IsJoin(Token, E, l.val, E \o l.val)
        <5>1. E \in Seq(Token) /\ l.val \in Seq(Token)
          BY <1>1, <4>1
        <5> QED BY <5>1, Joined
      <4>3. 1 \in 1 .. 2 /\ 2 \in 1 .. 2 /\ 2 + n = n + 2
        BY <1>1
      <4>4. D = E \o l.val
        BY DEF E
      <4> HIDE DEF D
      <4> QED BY <4>1, <4>2, <4>3, <4>4 DEF IsJoin
    <3> HIDE DEF B, D
    <3>3. B \in Seq(Token) /\ Len(B) = n + 3 /\ B[n + 3] = " "
          /\ \A i \in 1 .. n + 2 : B[i] = D[i]
      <4> DEFINE E == <<" ">>
      <4>1. E \in Seq(Token) /\ Len(E) = 1 /\ E[1] = " "
        BY <1>a, Short
      <4>2. B = D \o E
        BY <3>1
      <4> HIDE DEF E
      <4>3. IsJoin(Token, D, E, D \o E)
        <5>1. D \in Seq(Token) /\ E \in Seq(Token)
          BY <3>2, <4>1
        <5> QED BY <5>1, Joined
      <4>4. (n + 2) + 1 = n + 3 /\ 1 \in 1 .. 1
        BY <1>1
      <4>5. /\ B \in Seq(Token) /\ Len(B) = (n + 2) + 1
            /\ \A i \in 1 .. n + 2 : B[i] = D[i]
            /\ \A i \in 1 .. 1 : B[(n + 2) + i] = E[i]
        <5>1. Len(D) = n + 2 /\ Len(E) = 1
          BY <3>2, <4>1
        <5> QED BY <4>2, <4>3, <5>1, Zenon DEF IsJoin
      <4>6. B[n + 3] = " "
        BY <4>1, <4>4, <4>5, Zenon
      <4> QED BY <4>4, <4>5, <4>6, Zenon
    <3>4. B[1] = "=" /\ B[2] = " " /\ \A i \in 1 .. n : B[2 + i] = l.val[i]
      <4>1. 1 \in 1 .. n + 2 /\ 2 \in 1 .. n + 2 /\ \A i \in 1 .. n : 2 + i \in 1 .. n + 2
        BY <1>1
      <4> QED BY <3>2, <3>3, <4>1
    <3>5. ASSUME NEW i \in 1 .. n + 3 PROVE B[i] \notin {"\n", "#"}
      <4>1. i = 1 \/ i = 2 \/ i = n + 3 \/ (i - 2 \in 1 .. n /\ 2 + (i - 2) = i)
        BY <1>1
      <4>2. \A j \in 1 .. n : l.val[j] \notin {"\n", "#"}
        BY DEF Plain
      <4> QED BY <3>3, <3>4, <4>1, <4>2
    <3> QED BY <2>2, <3>3, <3>4, <3>5
  <2> QED BY <1>1, <2>1, <2>2
<1>4. C \in Seq(Token) /\ Len(C) = (IF l.comment THEN 4 ELSE 0)
      /\ (l.comment => C[1] = "#") /\ (\A i \in 1 .. Len(C) : C[i] # "\n")
  <2>1. CASE ~l.comment
    <3>1. C = <<>>
      BY <2>1
    <3> HIDE DEF C
    <3>2. C \in Seq(Token) /\ Len(C) = 0
      BY <3>1, EmptySeq
    <3>3. \A i \in 1 .. 0 : FALSE
      OBVIOUS
    <3>4. \A i \in 1 .. Len(C) : FALSE
      BY <3>2, <3>3
    <3> QED BY <2>1, <3>2, <3>4
  <2>2. CASE l.comment
    <3>1. C = <<"#", "EXPECT_VENDOR", "=", "1">>
      BY <2>2
    <3>2. \A i \in 1 .. 4 : i = 1 \/ i = 2 \/ i = 3 \/ i = 4
      OBVIOUS
    <3> HIDE DEF C
    <3>3. C \in Seq(Token) /\ Len(C) = 4 /\ C[1] = "#" /\ C[2] = "EXPECT_VENDOR"
          /\ C[3] = "=" /\ C[4] = "1"
      <4>1. "#" \in Token /\ "EXPECT_VENDOR" \in Token /\ "=" \in Token /\ "1" \in Token
        BY <1>a
      <4> QED BY <3>1, <4>1, Short
    <3>4. \A i \in 1 .. 4 : C[i] # "\n"
      BY <3>2, <3>3
    <3> QED BY <2>2, <3>3, <3>4
  <2> QED BY <1>1, <2>1, <2>2
<1>5. w = (A \o B) \o C
  BY DEF Written
<1> HIDE DEF A, B, C, w, n, a
<1>6. Size(l) = a + Len(B)
  BY <1>1, <1>2, <1>3 DEF Size, a, n
<1>7. /\ A \o B \in Seq(Token) /\ Len(A \o B) = a + Len(B)
      /\ \A i \in 1 .. a : (A \o B)[i] = A[i]
      /\ \A i \in 1 .. Len(B) : (A \o B)[a + i] = B[i]
  <2>1. IsJoin(Token, A, B, A \o B)
    <3>1. A \in Seq(Token) /\ B \in Seq(Token)
      BY <1>2, <1>3
    <3> QED BY <3>1, Joined
  <2> QED BY <1>2, <2>1 DEF IsJoin
<1>8. /\ w \in Seq(Token) /\ Len(w) = a + Len(B) + Len(C)
      /\ \A i \in 1 .. a + Len(B) : w[i] = (A \o B)[i]
      /\ \A i \in 1 .. Len(C) : w[a + Len(B) + i] = C[i]
  <2> DEFINE D == A \o B
  <2>1. D \in Seq(Token) /\ Len(D) = a + Len(B) /\ w = D \o C
    BY <1>5, <1>7
  <2> HIDE DEF D
  <2>2. IsJoin(Token, D, C, D \o C)
    <3>1. D \in Seq(Token) /\ C \in Seq(Token)
      BY <1>4, <2>1
    <3> QED BY <3>1, Joined
  <2>3. /\ w \in Seq(Token) /\ Len(w) = a + Len(B) + Len(C)
        /\ \A i \in 1 .. a + Len(B) : w[i] = D[i]
        /\ \A i \in 1 .. Len(C) : w[a + Len(B) + i] = C[i]
    BY <2>1, <2>2 DEF IsJoin
  <2> QED BY <2>3 DEF D
<1>9. a \in Nat /\ Len(B) \in Nat /\ Len(C) \in Nat
  <2>1. Len(A) \in Nat /\ Len(B) \in Nat /\ Len(C) \in Nat
    BY <1>2, <1>3, <1>4, LenProperties
  <2> QED BY <1>2, <2>1
<1>10. /\ \A i \in 1 .. a : w[i] = A[i]
       /\ \A i \in 1 .. Len(B) : w[a + i] = B[i]
  <2>1. \A i \in 1 .. a : i \in 1 .. a + Len(B)
    BY <1>9
  <2>2. \A i \in 1 .. Len(B) : a + i \in 1 .. a + Len(B)
    BY <1>9
  <2> QED BY <1>7, <1>8, <2>1, <2>2
<1>11. ASSUME NEW i \in 1 .. Size(l) PROVE w[i] \notin {"\n", "#"}
  <2>1. i \in 1 .. a \/ (i - a \in 1 .. Len(B) /\ a + (i - a) = i)
    BY <1>6, <1>9
  <2> QED BY <1>2, <1>3, <1>10, <2>1
<1>12. ASSUME NEW i \in 1 .. Len(w) PROVE w[i] # "\n"
  <2>1. i \in 1 .. Size(l) \/ (i - Size(l) \in 1 .. Len(C) /\ Size(l) + (i - Size(l)) = i)
    BY <1>6, <1>8, <1>9
  <2> QED BY <1>4, <1>6, <1>8, <1>11, <2>1
<1>13. l.comment => w[Size(l) + 1] = "#"
  <2>1. l.comment => 1 \in 1 .. Len(C)
    BY <1>4
  <2> QED BY <1>4, <1>6, <1>8, <2>1
<1>14. /\ \A i \in 1 .. a : w[i] # "="
       /\ w[1] = " "
       /\ l.key # "none" => w[2] = l.key /\ w[3] = " "
  <2>1. 1 \in 1 .. a /\ (a = 3 => 2 \in 1 .. a /\ 3 \in 1 .. a)
    <3>1. a = 1 \/ a = 3
      BY <1>2
    <3> QED BY <3>1
  <2>2. \A i \in 1 .. a : w[i] # "="
    BY <1>2, <1>10
  <2>3. w[1] = " "
    BY <1>2, <1>10, <2>1
  <2>4. l.key # "none" => w[2] = l.key /\ w[3] = " "
    BY <1>2, <1>10, <2>1
  <2> QED BY <2>2, <2>3, <2>4
<1>15. l.eq => /\ w[a + 1] = "=" /\ w[a + 2] = " "
               /\ \A i \in 1 .. n : w[a + 2 + i] = l.val[i]
               /\ w[Size(l)] = " "
  <2> SUFFICES ASSUME l.eq
               PROVE  /\ w[a + 1] = "=" /\ w[a + 2] = " "
                      /\ \A i \in 1 .. n : w[a + 2 + i] = l.val[i]
                      /\ w[Size(l)] = " "
    OBVIOUS
  <2>1. Len(B) = n + 3 /\ n \in Nat
    BY <1>1, <1>3 DEF n
  <2>2. 1 \in 1 .. Len(B) /\ 2 \in 1 .. Len(B) /\ n + 3 \in 1 .. Len(B)
        /\ \A i \in 1 .. n : 2 + i \in 1 .. Len(B) /\ a + (2 + i) = a + 2 + i
    BY <1>9, <2>1
  <2>a. /\ B[1] = "=" /\ B[2] = " " /\ B[n + 3] = " "
        /\ \A i \in 1 .. n : B[2 + i] = l.val[i]
    BY <1>3
  <2>3. w[a + 1] = "=" /\ w[a + 2] = " " /\ w[a + (n + 3)] = " "
    BY <1>10, <2>2, <2>a
  <2>4. ASSUME NEW i \in 1 .. n PROVE w[a + 2 + i] = l.val[i]
    <3>1. 2 + i \in 1 .. Len(B) /\ a + (2 + i) = a + 2 + i
      BY <2>2
    <3>2. w[a + (2 + i)] = B[2 + i]
      BY <1>10, <3>1
    <3> QED BY <2>a, <3>1, <3>2
  <2> QED BY <1>6, <2>1, <2>3, <2>4
<1>16. Len(w) = Size(l) + IF l.comment THEN 4 ELSE 0
  BY <1>4, <1>6, <1>8
<1> QED BY <1>8, <1>11, <1>12, <1>13, <1>14, <1>15, <1>16 DEF w, a, n

(* A value is a text. *)
LEMMA ValIsText ==
    ASSUME NEW l, Plain(l)
    PROVE  l.val \in Seq(Token) /\ Len(l.val) \in Nat
<1>1. l.val \in Seq(STRING) /\ STRING \subseteq Token
  BY DEF Plain, Line, Token
<1>2. l.val \in Seq(Token)
  BY <1>1, SeqMonotonic
<1> QED BY <1>2, LenProperties

(* The measures of a line are numbers, and no key is so short that nothing *)
(* is before it.                                                           *)
LEMMA SizeIsNat ==
    ASSUME NEW l, Plain(l)
    PROVE  Lead(l) \in Nat /\ Lead(l) >= 1 /\ Size(l) \in Nat
<1> DEFINE d == Len(l.val)
<1>1. d \in Nat
  BY ValIsText
<1>2. Lead(l) \in Nat /\ Lead(l) >= 1
  BY DEF Lead
<1>3. Size(l) = Lead(l) + IF l.eq THEN d + 3 ELSE 0
  BY DEF Size
<1> HIDE DEF d
<1> QED BY <1>1, <1>2, <1>3

(* The turn of the loop for the first m characters of a line.              *)
Parsed(rest) ==
    LET line == Before(rest, "#")
        key  == Before(line, "=")
    IN  IF Len(key) = Len(line) THEN config
        ELSE ApplySetting(Trim(key), Trim(SubSeq(line, Len(key) + 2, Len(line))))

(* Part of a text.                                                         *)
IsPart(S, s, a, b, u) ==
    /\ u \in Seq(S) /\ Len(u) = b - a + 1
    /\ \A i \in 1 .. b - a + 1 : u[i] = s[a + i - 1]

(* A part of a text is a text, with the characters of that part. *)
LEMMA PartIs ==
    ASSUME NEW S, NEW s \in Seq(S), NEW a \in 1 .. Len(s) + 1, NEW b \in a - 1 .. Len(s)
    PROVE  IsPart(S, s, a, b, SubSeq(s, a, b))
<1> DEFINE n == Len(s)
<1>1. n \in Nat
  OBVIOUS
<1>2. a \in 1 .. n + 1 /\ b \in a - 1 .. n
  OBVIOUS
<1> HIDE DEF n
<1>3. a \in Int /\ b \in Int /\ 1 =< a /\ b =< n /\ a =< b + 1
  BY <1>1, <1>2
<1>4. \A i \in a .. b : i \in 1 .. n
  BY <1>1, <1>3
<1>5. \A i \in a .. b : s[i] \in S
  BY <1>4 DEF n
<1>6. /\ SubSeq(s, a, b) \in Seq(S)
      /\ Len(SubSeq(s, a, b)) = IF a <= b THEN b - a + 1 ELSE 0
      /\ \A i \in 1 .. b - a + 1 : SubSeq(s, a, b)[i] = s[a + i - 1]
  BY <1>3, <1>5, SubSeqProperties
<1>7. (IF a <= b THEN b - a + 1 ELSE 0) = b - a + 1
  BY <1>3
<1> QED BY <1>6, <1>7 DEF IsPart

IsStart(S, s, b, u) ==
    /\ u \in Seq(S) /\ Len(u) = b
    /\ \A i \in 1 .. b : u[i] = s[i]

(* The same for the beginning of a text. *)
LEMMA StartIs ==
    ASSUME NEW S, NEW s \in Seq(S), NEW b \in 0 .. Len(s)
    PROVE  IsStart(S, s, b, SubSeq(s, 1, b))
<1> DEFINE n == Len(s)
<1>1. n \in Nat
  OBVIOUS
<1>2. b \in 0 .. n
  OBVIOUS
<1> HIDE DEF n
<1>3. 1 \in 1 .. n + 1 /\ b \in 1 - 1 .. n /\ b - 1 + 1 = b /\ \A i \in 1 .. b : 1 + i - 1 = i
  BY <1>1, <1>2
<1>4. IsPart(S, s, 1, b, SubSeq(s, 1, b))
  BY <1>3, PartIs DEF n
<1> QED BY <1>3, <1>4 DEF IsStart, IsPart

(* The key of a line is found before its '='.                              *)
LEMMA KeyIsFound ==
    ASSUME NEW l, Plain(l), NEW k \in Seq(Token), Len(k) = Lead(l),
           \A i \in 1 .. Lead(l) : k[i] = Written(l)[i]
    PROVE  Trim(k) = IF l.key = "none" THEN <<>> ELSE <<l.key>>
<1>1. CASE l.key = "none"
  <2>1. Lead(l) = 1
    BY <1>1 DEF Lead
  <2>2. Written(l)[1] = " "
    BY WrittenIs
  <2>3. \A i \in 1 .. 1 : i = 1
    OBVIOUS
  <2>4. \A i \in 1 .. Len(k) : k[i] = " "
    BY <2>1, <2>2, <2>3
  <2> QED BY <1>1, <2>4, TrimIs
<1>2. CASE l.key # "none"
  <2>1. Lead(l) = 3 /\ 1 \in 1 .. 3 /\ 2 \in 1 .. 3 /\ 3 \in 1 .. 3
    BY <1>2 DEF Lead
  <2>2. Written(l)[1] = " " /\ Written(l)[2] = l.key /\ Written(l)[3] = " "
    BY <1>2, WrittenIs
  <2>3. k[1] = " " /\ k[2] = l.key /\ k[3] = " " /\ Len(k) = 3
    BY <2>1, <2>2
  <2>4. l.key # " "
    BY DEF Plain, Line, Keys, Flags
  <2>5. (\A i \in 1 .. 2 - 1 : i = 1) /\ (\A i \in 2 + 1 .. 3 : i = 3) /\ 2 \in 1 .. 3
    OBVIOUS
  <2>6. (\A i \in 1 .. 2 - 1 : k[i] = " ") /\ (\A i \in 2 + 1 .. Len(k) : k[i] = " ")
    BY <2>3, <2>5
  <2> DEFINE u == SubSeq(k, 2, 2)
  <2>7. Trim(k) = u
    <3>1. k[2] # " " /\ 2 \in 1 .. Len(k)
      BY <2>3, <2>4, <2>5
    <3> QED BY <2>6, <3>1, TrimSolid
  <2>8. u \in Seq(Token) /\ Len(u) = 1 /\ u[1] = k[2]
    <3>1. 2 \in 1 .. 3 + 1 /\ 2 \in 2 - 1 .. 3
      OBVIOUS
    <3>2. IsPart(Token, k, 2, 2, u)
      <4>1. 2 \in 1 .. Len(k) + 1 /\ 2 \in 2 - 1 .. Len(k)
        BY <2>3, <3>1
      <4> QED BY <4>1, PartIs
    <3>3. 2 - 2 + 1 = 1 /\ 1 \in 1 .. 1 /\ 2 + 1 - 1 = 2
      OBVIOUS
    <3> HIDE DEF u
    <3> QED BY <3>2, <3>3 DEF IsPart
  <2> HIDE DEF u
  <2>9. u = <<l.key>>
    <3> DEFINE t == <<l.key>>
    <3>1. l.key \in Token
      BY DEF Plain, Line, Token
    <3>2. t \in Seq(Token) /\ Len(t) = 1 /\ t[1] = l.key
      BY <3>1, Short
    <3>3. \A i \in 1 .. 1 : i = 1
      OBVIOUS
    <3> HIDE DEF t
    <3>4. \A i \in 1 .. Len(u) : u[i] = t[i]
      BY <2>3, <2>8, <3>2, <3>3
    <3>5. u = t
      BY <2>8, <3>2, <3>4, SeqEqual
    <3> QED BY <3>5 DEF t
  <2> QED BY <1>2, <2>7, <2>9
<1> QED BY <1>1, <1>2

(* The value of a line is found behind its '='.                            *)
Padded(v, s) ==
    /\ Len(v) = Len(s) + 2 /\ v[1] = " " /\ v[Len(s) + 2] = " "
    /\ \A i \in 1 .. Len(s) : v[1 + i] = s[i]

(* A value with one blank on either side is trimmed to the value. *)
LEMMA ValueIsFound ==
    ASSUME NEW l, Plain(l), NEW v \in Seq(Token), Padded(v, l.val)
    PROVE  Trim(v) = l.val
<1> DEFINE s == l.val
           n == Len(s)
<1>1. s \in Seq(Token)
  <2>1. s \in Seq(STRING)
    BY DEF Plain, Line
  <2>2. STRING \subseteq Token
    BY DEF Token
  <2> HIDE DEF s
  <2> QED BY <2>1, <2>2, SeqMonotonic
<1>2. s # <<>> => s[1] # " " /\ s[n] # " "
  BY DEF Plain
<1>3. Len(v) = n + 2 /\ v[1] = " " /\ v[n + 2] = " " /\ \A i \in 1 .. n : v[1 + i] = s[i]
  BY DEF Padded
<1> HIDE DEF s
<1>4. n \in Nat
  BY <1>1, LenProperties
<1>a. s # <<>> => n # 0
  BY <1>1, EmptySeq
<1>5. CASE s = <<>>
  <2>1. n = 0
    BY <1>5, EmptySeq
  <2>2. \A i \in 1 .. 2 : i = 1 \/ i = 2
    OBVIOUS
  <2> HIDE DEF n
  <2>3. Len(v) = 2 /\ v[1] = " " /\ v[2] = " "
    <3>1. n + 2 = 2
      BY <2>1
    <3> QED BY <1>3, <3>1
  <2>4. \A i \in 1 .. Len(v) : v[i] = " "
    BY <2>2, <2>3
  <2>5. Trim(v) = <<>>
    BY <2>4, TrimIs
  <2> QED BY <1>5, <2>5 DEF s
<1> HIDE DEF n
<1>6. CASE s # <<>>
  <2>0. n \in Nat /\ n >= 1
    BY <1>4, <1>a, <1>6
  <2>1. /\ 1 \in 1 .. n /\ n \in 1 .. n /\ 2 \in 1 .. n + 2 /\ n + 1 \in 1 .. n + 2
        /\ 1 + 1 = 2 /\ 1 + n = n + 1
    BY <2>0
  <2>2. v[2] # " " /\ v[n + 1] # " "
    <3>1. v[1 + 1] = s[1] /\ v[1 + n] = s[n]
      BY <1>3, <2>1
    <3> QED BY <1>2, <1>6, <2>1, <3>1
  <2>3. (\A i \in 1 .. 2 - 1 : v[i] = " ") /\ (\A i \in n + 1 + 1 .. Len(v) : v[i] = " ")
    <3>1. (\A i \in 1 .. 2 - 1 : i = 1) /\ (\A i \in n + 1 + 1 .. n + 2 : i = n + 2)
      BY <2>0
    <3> QED BY <1>3, <3>1
  <2> DEFINE u == SubSeq(v, 2, n + 1)
  <2>4. Trim(v) = u
    <3>1. 2 \in 1 .. Len(v) /\ n + 1 \in 1 .. Len(v)
      BY <1>3, <2>1
    <3> QED BY <2>2, <2>3, <3>1, TrimSolid
  <2>5. IsPart(Token, v, 2, n + 1, u)
    <3>1. 2 \in 1 .. (n + 2) + 1 /\ n + 1 \in 2 - 1 .. n + 2
      BY <2>0
    <3>2. 2 \in 1 .. Len(v) + 1 /\ n + 1 \in 2 - 1 .. Len(v)
      BY <1>3, <3>1
    <3> QED BY <3>2, PartIs
  <2> HIDE DEF u
  <2>6. n + 1 - 2 + 1 = n /\ \A i \in 1 .. n : 2 + i - 1 = 1 + i
    BY <2>0
  <2>7. u \in Seq(Token) /\ Len(u) = n /\ \A i \in 1 .. n : u[i] = s[i]
    <3>1. u \in Seq(Token) /\ Len(u) = n /\ \A i \in 1 .. n : u[i] = v[2 + i - 1]
      <4> DEFINE b == n + 1
                 m == b - 2 + 1
      <4>1. u \in Seq(Token) /\ Len(u) = m /\ \A i \in 1 .. m : u[i] = v[2 + i - 1]
        BY <2>5, Zenon DEF IsPart
      <4>2. m = n
        BY <2>0
      <4> QED BY <4>1, <4>2, Zenon
    <3>2. ASSUME NEW i \in 1 .. n PROVE u[i] = s[i]
      <4>1. u[i] = v[1 + i] /\ v[1 + i] = s[i]
        BY <1>3, <2>6, <3>1, Zenon
      <4> QED BY <4>1
    <3> QED BY <3>1, <3>2
  <2>8. u = s
    BY <1>1, <2>7, SeqEqual DEF n
  <2> QED BY <2>4, <2>8 DEF s
<1> QED BY <1>5, <1>6

(* What is left of a line before the comment.                              *)
LEMMA LineIsFound ==
    ASSUME NEW l, Plain(l), NEW m \in Nat, NEW rest,
           IsStart(Token, Written(l), m, rest), m =< Len(Written(l)),
           NEW h, h = IF m =< Size(l) THEN m ELSE Size(l)
    PROVE  IsStart(Token, Written(l), h, Before(rest, "#"))
<1> DEFINE w == Written(l)
           n == Size(l)
           u == Before(rest, "#")
<1>1. /\ w \in Seq(Token)
      /\ Len(w) = n + IF l.comment THEN 4 ELSE 0
      /\ \A i \in 1 .. n : w[i] # "#"
      /\ l.comment => w[n + 1] = "#"
  BY WrittenIs
<1>2. n \in Nat
  BY SizeIsNat
<1>3. rest \in Seq(Token) /\ Len(rest) = m /\ \A i \in 1 .. m : rest[i] = w[i]
  BY DEF IsStart
<1>4. m =< Len(w) /\ h = IF m =< n THEN m ELSE n
  OBVIOUS
<1> HIDE DEF w, n
<1>5. h \in 0 .. m /\ h \in Nat /\ \A i \in 1 .. h : i \in 1 .. n /\ i \in 1 .. m
  BY <1>2, <1>4
<1>6. \A i \in 1 .. h : rest[i] # "#"
  BY <1>1, <1>3, <1>5
<1>7. h = m \/ rest[h + 1] = "#"
  <2>1. h # m => h = n /\ h + 1 \in 1 .. m /\ n < m
    BY <1>2, <1>4
  <2>2. h # m => l.comment
    BY <1>1, <1>2, <1>4, <2>1
  <2> QED BY <1>1, <1>3, <2>1, <2>2
<1>8. u = SubSeq(rest, 1, h)
  <2>1. h \in 0 .. Len(rest) /\ (h = Len(rest) \/ rest[h + 1] = "#")
    BY <1>3, <1>5, <1>7
  <2> QED BY <1>3, <1>6, <2>1, BeforeIs
<1>9. IsStart(Token, rest, h, u)
  <2>1. h \in 0 .. Len(rest)
    BY <1>3, <1>5
  <2> QED BY <1>3, <1>8, <2>1, StartIs
<1> HIDE DEF u
<1>10. IsStart(Token, w, h, u)
  BY <1>3, <1>5, <1>9 DEF IsStart
<1> QED BY <1>10 DEF u, w

(* What a line does, read to its end or not.                               *)
Sets(l, k) == l.eq /\ l.key = k /\ Meaning(k, l.val) # {}

TakesLine(c, l, whole) ==
    /\ c \in Config
    /\ c.Loaded = config.Loaded /\ c.Encoding = config.Encoding
    /\ \A k \in Keys : k # l.key => InForce(c, k) = InForce(config, k)
    /\ whole => \A k \in Keys : InForce(c, k) = IF Sets(l, k) THEN Meaning(k, l.val)
                                                ELSE InForce(config, k)

(* A turn of the loop over the first m characters of a line: no key but the *)
(* line's own is touched, and with the whole line before it, or all of it  *)
(* but the comment, the turn puts in force what the line means, if anything. *)
LEMMA LineParsed ==
    ASSUME config \in Config, NEW l, Plain(l), NEW m \in Nat, NEW rest,
           IsStart(Token, Written(l), m, rest), m =< Len(Written(l))
    PROVE  TakesLine(Parsed(rest), l, m >= Size(l))
<1> DEFINE w == Written(l)
           n == Size(l)
           a == Lead(l)
           h == IF m =< n THEN m ELSE n
           line == Before(rest, "#")
           key == Before(line, "=")
           v == SubSeq(line, Len(key) + 2, Len(line))
           c == Parsed(rest)
<1>1. IsStart(Token, w, h, line)
  BY LineIsFound
<1>2. c = IF Len(key) = Len(line) THEN config ELSE ApplySetting(Trim(key), Trim(v))
  BY DEF Parsed
<1>3. n \in Nat /\ a \in Nat /\ n = a + IF l.eq THEN Len(l.val) + 3 ELSE 0
  BY SizeIsNat DEF Size
<1>4. (\A i \in 1 .. a : w[i] # "=") /\ (l.eq => w[a + 1] = "=")
  BY WrittenIs
<1> HIDE DEF w, n, a, line, key, v, c
<1>5. h \in Nat /\ h =< n /\ (m >= n => h = n)
  BY <1>3
<1> HIDE DEF h
<1>6. line \in Seq(Token) /\ Len(line) = h /\ \A i \in 1 .. h : line[i] = w[i]
  BY <1>1 DEF IsStart
<1>7. CASE h =< a
  <2>1. \A i \in 1 .. h : line[i] # "="
    <3>1. \A i \in 1 .. h : i \in 1 .. a
      BY <1>3, <1>5, <1>7
    <3> QED BY <1>4, <1>6, <3>1
  <2>2. h \in 0 .. Len(line) /\ h = Len(line)
    BY <1>5, <1>6
  <2>3. key = SubSeq(line, 1, h)
    BY <1>6, <2>1, <2>2, BeforeIs DEF key
  <2>4. Len(key) = Len(line)
    BY <1>6, <2>2, <2>3, StartIs DEF IsStart
  <2>5. c = config
    BY <1>2, <2>4
  <2>6. m >= n => ~l.eq
    <3>1. l.eq => n >= a + 3
      BY <1>3, ValIsText
    <3> QED BY <1>3, <1>5, <1>7, <3>1
  <2>7. m >= Size(l) => \A k \in Keys : ~Sets(l, k)
    BY <2>6 DEF Sets, n
  <2> QED BY <2>5, <2>7 DEF TakesLine, c
<1>8. CASE h > a
  <2>1. l.eq
    BY <1>3, <1>5, <1>8
  <2>2. key = SubSeq(line, 1, a) /\ IsStart(Token, line, a, key)
    <3>1. a \in 0 .. Len(line) /\ a + 1 \in 1 .. h /\ \A i \in 1 .. a : i \in 1 .. h
      BY <1>3, <1>5, <1>6, <1>8
    <3>2. (\A i \in 1 .. a : line[i] # "=") /\ line[a + 1] = "="
      BY <1>4, <1>6, <2>1, <3>1
    <3>3. key = SubSeq(line, 1, a)
      BY <1>6, <3>1, <3>2, BeforeIs DEF key
    <3> QED BY <1>6, <3>1, <3>3, StartIs
  <2>3. key \in Seq(Token) /\ Len(key) = a /\ \A i \in 1 .. a : key[i] = w[i]
    <3>1. \A i \in 1 .. a : i \in 1 .. h
      BY <1>3, <1>5, <1>8
    <3> QED BY <1>6, <2>2, <3>1 DEF IsStart
  <2>4. Trim(key) = IF l.key = "none" THEN <<>> ELSE <<l.key>>
    BY <2>3, KeyIsFound DEF a, w
  <2>5. v = SubSeq(line, a + 2, h) /\ IsPart(Token, line, a + 2, h, v)
    <3>1. v = SubSeq(line, a + 2, h)
      BY <1>6, <2>3 DEF v
    <3>2. a + 2 \in 1 .. h + 1 /\ h \in (a + 2) - 1 .. h
      BY <1>3, <1>5, <1>8
    <3>3. a + 2 \in 1 .. Len(line) + 1 /\ h \in (a + 2) - 1 .. Len(line)
      BY <1>6, <3>2
    <3> QED BY <1>6, <3>1, <3>3, PartIs
  <2>6. Trim(v) \in Seq(Token)
    BY <2>5, TrimIs DEF IsPart
  <2>7. c = ApplySetting(Trim(key), Trim(v))
    BY <1>2, <1>3, <1>5, <1>6, <1>8, <2>3
  <2>8. m >= n => Trim(v) = l.val
    <3> SUFFICES ASSUME m >= n PROVE Trim(v) = l.val
      OBVIOUS
    <3> DEFINE d == Len(l.val)
    <3>1. d \in Nat
      BY ValIsText
    <3>2. w[a + 2] = " " /\ (\A i \in 1 .. d : w[a + 2 + i] = l.val[i]) /\ w[n] = " "
      BY <2>1, WrittenIs DEF w, a, n
    <3>3. h = n /\ n = a + d + 3
      BY <1>3, <1>5, <2>1
    <3> HIDE DEF d
    <3>4. h - (a + 2) + 1 = d + 2
      BY <1>3, <3>1, <3>3
    <3>5. v \in Seq(Token) /\ Len(v) = d + 2 /\ \A i \in 1 .. d + 2 : v[i] = line[(a + 2) + i - 1]
      BY <2>5, <3>4 DEF IsPart
    <3>6. \A i \in 1 .. d + 2 : (a + 2) + i - 1 \in 1 .. h
      BY <1>3, <3>1, <3>3
    <3>7. \A i \in 1 .. d + 2 : v[i] = w[(a + 2) + i - 1]
      BY <1>6, <3>5, <3>6
    <3>8. v[1] = " " /\ v[d + 2] = " " /\ \A i \in 1 .. d : v[1 + i] = l.val[i]
      <4>1. 1 \in 1 .. d + 2 /\ (a + 2) + 1 - 1 = a + 2
        BY <1>3, <3>1
      <4>2. d + 2 \in 1 .. d + 2 /\ (a + 2) + (d + 2) - 1 = n
        BY <1>3, <3>1, <3>3
      <4>3. \A i \in 1 .. d : 1 + i \in 1 .. d + 2 /\ (a + 2) + (1 + i) - 1 = a + 2 + i
        BY <1>3, <3>1
      <4>4. v[1] = " "
        BY <3>2, <3>7, <4>1
      <4>5. v[d + 2] = " "
        BY <3>2, <3>7, <4>2
      <4>6. ASSUME NEW i \in 1 .. d PROVE v[1 + i] = l.val[i]
        <5>1. v[1 + i] = w[(a + 2) + (1 + i) - 1]
          BY <3>7, <4>3
        <5>2. v[1 + i] = w[a + 2 + i]
          BY <4>3, <5>1
        <5> QED BY <3>2, <5>2
      <4> QED BY <4>4, <4>5, <4>6
    <3>9. Padded(v, l.val)
      BY <3>5, <3>8 DEF Padded, d
    <3> QED BY <3>5, <3>9, ValueIsFound
  <2>9. l.key \in Keys \union {"UNKNOWN", "none"} /\ "none" \notin Keys
    BY DEF Plain, Line, Keys, Flags
  <2>10. CASE l.key \in Keys
    <3>1. c = ApplySetting(<<l.key>>, Trim(v))
      BY <2>4, <2>7, <2>9, <2>10
    <3>2. Takes(c, l.key, Trim(v))
      BY <2>6, <2>10, <3>1, SettingIsTaken
    <3>3. /\ c \in Config
          /\ c.Loaded = config.Loaded /\ c.Encoding = config.Encoding
          /\ \A k \in Keys : k # l.key => InForce(c, k) = InForce(config, k)
      BY <3>2 DEF Takes
    <3>4. ASSUME m >= n, NEW k \in Keys
          PROVE  InForce(c, k) = IF Sets(l, k) THEN Meaning(k, l.val) ELSE InForce(config, k)
      <4>1. InForce(c, k) = IF k = l.key /\ Meaning(l.key, l.val) # {}
                            THEN Meaning(l.key, l.val) ELSE InForce(config, k)
        BY <2>8, <3>2, <3>4 DEF Takes
      <4> QED BY <2>1, <4>1 DEF Sets
    <3> QED BY <3>3, <3>4 DEF TakesLine, n, c
  <2>11. CASE l.key \notin Keys
    <3>1. c = config
      <4>1. l.key = "UNKNOWN" \/ l.key = "none"
        BY <2>9, <2>11
      <4>2. CASE l.key = "none"
        <5>1. c = ApplySetting(<<>>, Trim(v))
          BY <2>4, <2>7, <4>2
        <5> QED BY <2>6, <5>1, SettingIsTaken
      <4>3. CASE l.key = "UNKNOWN"
        <5>1. c = ApplySetting(<<l.key>>, Trim(v))
          BY <2>4, <2>7, <4>3
        <5> QED BY <2>6, <2>11, <4>3, <5>1, SettingIsTaken
      <4> QED BY <4>1, <4>2, <4>3
    <3>2. \A k \in Keys : ~Sets(l, k)
      BY <2>11 DEF Sets
    <3> QED BY <3>1, <3>2 DEF TakesLine, c
  <2> QED BY <2>10, <2>11
<1> QED BY <1>3, <1>5, <1>7, <1>8

-----------------------------------------------------------------------------
(* Files *)

(* The lines of a file, as ConfigAssumption has them. *)
LEMMA FileIs ==
    ASSUME NEW f \in Files
    PROVE  /\ f.mark \in {"none", "UTF-8", "UTF-16"} /\ f.ended \in BOOLEAN
           /\ Len(f.lines) \in Nat /\ DOMAIN f.lines = 1 .. Len(f.lines)
           /\ \A i \in 1 .. Len(f.lines) : Plain(f.lines[i])
<1>1. /\ f.mark \in {"none", "UTF-8", "UTF-16"} /\ f.ended \in BOOLEAN
      /\ f.lines \in Seq(Line)
      /\ \A i \in DOMAIN f.lines :
           LET val == f.lines[i].val IN
           /\ ToSet(val) \intersect {"\n", "#"} = {}
           /\ val # <<>> => Head(val) # " " /\ Last(val) # " "
  BY ConfigAssumption
<1>2. Len(f.lines) \in Nat /\ DOMAIN f.lines = 1 .. Len(f.lines)
  BY <1>1, LenProperties
<1>3. ASSUME NEW i \in 1 .. Len(f.lines) PROVE Plain(f.lines[i])
  <2> DEFINE l == f.lines[i]
             s == l.val
  <2>1. /\ ToSet(s) \intersect {"\n", "#"} = {}
        /\ s # <<>> => Head(s) # " " /\ Last(s) # " "
    BY <1>1, <1>2
  <2>2. l \in Line
    <3> DEFINE ls == f.lines
    <3>1. ls \in Seq(Line) /\ i \in 1 .. Len(ls)
      BY <1>1
    <3> HIDE DEF ls
    <3>2. ls[i] \in Line
      BY <3>1, ElementOfSeq
    <3> QED BY <3>2 DEF ls
  <2> HIDE DEF l
  <2>3. s \in Seq(STRING)
    BY <2>2 DEF Line
  <2> HIDE DEF s
  <2>4. \A j \in 1 .. Len(s) : s[j] \notin {"\n", "#"}
    <3>1. \A j \in 1 .. Len(s) : s[j] \in ToSet(s)
      BY <2>3, LenProperties DEF ToSet
    <3> QED BY <2>1, <3>1
  <2>5. Last(s) = s[Len(s)] /\ (s # <<>> => Head(s) = s[1])
    <3>1. Last(s) = s[Len(s)]
      BY DEF Last
    <3>2. s # <<>> => Head(s) = s[1]
      BY <2>3
    <3> QED BY <3>1, <3>2
  <2> QED BY <2>1, <2>2, <2>4, <2>5 DEF Plain, s, l
<1> QED BY <1>1, <1>2, <1>3

(* Every line but perhaps the last one ends in a newline. *)
LEMMA LineEndIs ==
    ASSUME NEW f, NEW i
    PROVE  /\ LineEnd(f, i) \in Seq(Token)
           /\ Len(LineEnd(f, i)) = IF i < Len(f.lines) \/ f.ended THEN 1 ELSE 0
           /\ (i < Len(f.lines) \/ f.ended) => LineEnd(f, i)[1] = "\n"
<1> DEFINE E == <<"\n">>
<1>1. E \in Seq(Token) /\ Len(E) = 1 /\ E[1] = "\n"
  <2>1. "\n" \in Token
    BY DEF Token
  <2> QED BY <2>1, Short
<1>2. <<>> \in Seq(Token) /\ Len(<<>>) = 0
  BY EmptySeq
<1>3. LineEnd(f, i) = IF i < Len(f.lines) \/ f.ended THEN E ELSE <<>>
  BY DEF LineEnd
<1> HIDE DEF E
<1> QED BY <1>1, <1>2, <1>3

(* A mark is one token, or none. *)
LEMMA MarkIs ==
    ASSUME NEW f \in Files
    PROVE  /\ Mark(f) \in Seq(Token) /\ Len(Mark(f)) = IF f.mark = "none" THEN 0 ELSE 1
           /\ f.mark # "none" => Mark(f)[1] = f.mark
<1> DEFINE E == <<f.mark>>
<1>1. E \in Seq(Token) /\ Len(E) = 1 /\ E[1] = f.mark
  <2>1. f.mark \in Token
    BY FileIs DEF Token
  <2> QED BY <2>1, Short
<1>2. <<>> \in Seq(Token) /\ Len(<<>>) = 0
  BY EmptySeq
<1>3. Mark(f) = IF f.mark = "none" THEN <<>> ELSE E
  BY DEF Mark
<1> HIDE DEF E
<1> QED BY <1>1, <1>2, <1>3

(* A file is written line by line.                                         *)
LEMMA PrefixIs ==
    ASSUME NEW f \in Files
    PROVE  /\ Prefix(f, 0) = Mark(f)
           /\ \A i \in 0 .. Len(f.lines) : Prefix(f, i) \in Seq(Token)
           /\ \A i \in 1 .. Len(f.lines) :
                Prefix(f, i) = (Prefix(f, i - 1) \o Written(f.lines[i])) \o LineEnd(f, i)
<1> DEFINE n == Len(f.lines)
           S == Seq(Token)
           m == Mark(f)
           Next1(p, i) == (p \o Written(f.lines[i])) \o LineEnd(f, i)
           step == [p \in S \X (1 .. n) |-> Next1(p[1], p[2])]
           Is(g) == g = [i \in 0 .. n |-> IF i = 0 THEN m ELSE Next1(g[i - 1], i)]
           up == CHOOSE h : Is(h)
<1>1. n \in Nat /\ m \in S
  BY FileIs, MarkIs
<1>2. \A x \in S, i \in 1 .. n : Next1(x, i) \in S
  <2> TAKE x \in S, i \in 1 .. n
  <2> DEFINE w == Written(f.lines[i])
             e == LineEnd(f, i)
  <2>1. w \in S /\ e \in S
    BY FileIs, WrittenIs, LineEndIs
  <2> HIDE DEF w, e
  <2>2. x \o w \in S
    BY <2>1, Joined DEF IsJoin
  <2> DEFINE y == x \o w
  <2>3. y \in S
    BY <2>2
  <2> HIDE DEF y
  <2>4. y \o e \in S
    BY <2>1, <2>3, Joined DEF IsJoin
  <2> QED BY <2>4 DEF y, w, e
<1>3. \A i : Prefix(f, i) = up[i]
  BY DEF Prefix
<1> HIDE DEF Next1
<1>4. step \in [S \X (1 .. n) -> S]
  BY <1>2
<1>5. \A x \in S, i \in 1 .. n : step[<<x, i>>] = Next1(x, i)
  OBVIOUS
<1>6. Is(up) \/ ~\E g : Is(g)
  <2> HIDE DEF Is
  <2> QED OBVIOUS
<1> HIDE DEF step, n, up, m, S
<1>7. PICK g : IsRun(g, n, S, m, step)
  BY <1>1, <1>4, Recursion
<1>8. \A i \in 1 .. n : g[i] = Next1(g[i - 1], i)
  <2> TAKE i \in 1 .. n
  <2>1. i - 1 \in 0 .. n
    BY <1>1
  <2>2. g[i - 1] \in S
    BY <1>7, <2>1 DEF IsRun
  <2> QED BY <1>5, <1>7, <2>2 DEF IsRun
<1>9. Is(g)
  BY <1>1, <1>7, <1>8 DEF IsRun
<1>10. up = [i \in 0 .. n |-> IF i = 0 THEN m ELSE Next1(up[i - 1], i)]
  BY <1>6, <1>9
<1>11. up[0] = m /\ \A i \in 1 .. n : up[i] = Next1(up[i - 1], i)
  BY <1>1, <1>10
<1>12. \A i \in 0 .. n : up[i] \in S
  <2> DEFINE T == {i \in 0 .. n : up[i] \in S}
  <2>1. 0 \in T
    BY <1>1, <1>11
  <2>2. ASSUME NEW i \in 0 .. n - 1, i \in T PROVE i + 1 \in T
    <3>1. i + 1 \in 1 .. n /\ (i + 1) - 1 = i
      BY <1>1
    <3>2. up[i] \in S /\ i + 1 \in 0 .. n
      BY <1>1, <2>2
    <3>3. up[i + 1] = Next1(up[i], i + 1)
      BY <1>11, <3>1
    <3>4. up[i + 1] \in S
      BY <1>2, <3>1, <3>2, <3>3
    <3> QED BY <3>2, <3>4
  <2>3. T \in SUBSET (0 .. n)
    OBVIOUS
  <2> HIDE DEF T
  <2>4. \A i \in 0 .. n : i \in T
    BY <1>1, <2>1, <2>2, <2>3, InductionTo
  <2> QED BY <2>4 DEF T
<1> QED BY <1>3, <1>11, <1>12, Zenon DEF Next1, n, m, S

(* Where the n-th line ends.                                               *)
Ends(f, n) == Len(Prefix(f, n))

IsNext(f, i, p, q, w) ==
    /\ Len(w) \in Nat /\ Len(w) >= 1 /\ Len(p) \in Nat /\ Len(q) \in Nat
    /\ Len(q) = Len(p) + Len(w) + IF i < Len(f.lines) \/ f.ended THEN 1 ELSE 0
    /\ \A j \in 1 .. Len(p) : q[j] = p[j]
    /\ \A j \in 1 .. Len(w) : q[Len(p) + j] = w[j]
    /\ (i < Len(f.lines) \/ f.ended) => q[Len(q)] = "\n"

(* A line and its end are appended to the lines before it. *)
LEMMA NextIs ==
    ASSUME NEW f \in Files, NEW i \in 1 .. Len(f.lines)
    PROVE  IsNext(f, i, Prefix(f, i - 1), Prefix(f, i), Written(f.lines[i]))
<1> DEFINE p == Prefix(f, i - 1)
           q == Prefix(f, i)
           w == Written(f.lines[i])
           e == LineEnd(f, i)
           More == i < Len(f.lines) \/ f.ended
           r == p \o w
<1>1. p \in Seq(Token) /\ q = r \o e
  <2>1. i - 1 \in 0 .. Len(f.lines)
    BY FileIs
  <2> QED BY <2>1, PrefixIs
<1>2. w \in Seq(Token) /\ Len(w) >= 1
  <2> DEFINE l == f.lines[i]
             z == Size(l)
  <2>1. Plain(l)
    BY FileIs
  <2> HIDE DEF l
  <2>2. w \in Seq(Token) /\ Len(w) = z + IF l.comment THEN 4 ELSE 0
    BY <2>1, WrittenIs DEF l
  <2>3. z \in Nat /\ z >= 1
    <3>1. Lead(l) \in Nat /\ Lead(l) >= 1 /\ z = Lead(l) + IF l.eq THEN Len(l.val) + 3 ELSE 0
      BY <2>1, SizeIsNat DEF Size
    <3>2. Len(l.val) \in Nat /\ z \in Nat
      BY <2>1, ValIsText, SizeIsNat
    <3> QED BY <3>1, <3>2
  <2> HIDE DEF z
  <2> QED BY <2>2, <2>3
<1>3. e \in Seq(Token) /\ Len(e) = (IF More THEN 1 ELSE 0) /\ (More => e[1] = "\n")
  BY LineEndIs
<1> HIDE DEF p, q, w, e, More
<1>4. IsJoin(Token, p, w, r)
  BY <1>1, <1>2, Joined
<1> HIDE DEF r
<1>5. IsJoin(Token, r, e, q)
  <2>1. r \in Seq(Token)
    BY <1>4 DEF IsJoin
  <2> QED BY <1>1, <1>3, <2>1, Joined
<1>6. Len(p) \in Nat /\ Len(w) \in Nat /\ Len(r) = Len(p) + Len(w)
      /\ Len(q) = Len(p) + Len(w) + IF More THEN 1 ELSE 0
  BY <1>3, <1>4, <1>5 DEF IsJoin
<1> DEFINE a == Len(p)
           b == Len(w)
<1>7. a \in Nat /\ b \in Nat /\ Len(r) = a + b /\ Len(q) = a + b + IF More THEN 1 ELSE 0
  BY <1>6
<1>8. /\ \A j \in 1 .. a : r[j] = p[j]
      /\ \A j \in 1 .. b : r[a + j] = w[j]
  BY <1>4 DEF IsJoin
<1>9. /\ \A j \in 1 .. a + b : q[j] = r[j]
      /\ More => q[a + b + 1] = "\n"
  <2>1. More => 1 \in 1 .. Len(e)
    BY <1>3
  <2>2. (\A j \in 1 .. a + b : q[j] = r[j]) /\ \A j \in 1 .. Len(e) : q[a + b + j] = e[j]
    BY <1>5, <1>7 DEF IsJoin
  <2> QED BY <1>3, <2>1, <2>2
<1> HIDE DEF a, b
<1>10. ASSUME NEW j \in 1 .. a PROVE q[j] = p[j]
  <2>1. j \in 1 .. a + b
    BY <1>7
  <2> QED BY <1>8, <1>9, <2>1
<1>11. ASSUME NEW j \in 1 .. b PROVE q[a + j] = w[j]
  <2>1. a + j \in 1 .. a + b
    BY <1>7
  <2> QED BY <1>8, <1>9, <2>1
<1>12. More => q[Len(q)] = "\n"
  BY <1>7, <1>9
<1>13. Len(q) \in Nat /\ b >= 1
  BY <1>2, <1>7 DEF b
<1> QED BY <1>7, <1>10, <1>11, <1>12, <1>13 DEF IsNext, a, b, p, q, w, More

(* Each line ends after those before it, and the file is all of them.      *)
LEMMA Layout ==
    ASSUME NEW f \in Files
    PROVE  /\ \A k \in 0 .. Len(f.lines) : Ends(f, k) \in Nat
           /\ Ends(f, 0) = IF f.mark = "none" THEN 0 ELSE 1
           /\ \A k \in 0 .. Len(f.lines), j \in 0 .. Len(f.lines) :
                 j < k => Ends(f, j) < Ends(f, k)
           /\ Bytes(f) \in Seq(Token) /\ Len(Bytes(f)) = Ends(f, Len(f.lines))
           /\ \A k \in 0 .. Len(f.lines) : \A j \in 1 .. Ends(f, k) :
                 Bytes(f)[j] = Prefix(f, k)[j]
           /\ f.mark # "none" => Bytes(f)[1] = f.mark
<1> DEFINE n == Len(f.lines)
           E(k) == Ends(f, k)
           P(k) == Prefix(f, k)
<1>1. n \in Nat
  BY FileIs
<1>2. \A k \in 0 .. n : P(k) \in Seq(Token) /\ E(k) \in Nat
  BY PrefixIs, LenProperties DEF Ends
<1>3. P(0) = Mark(f)
  BY PrefixIs
<1>4. E(0) = (IF f.mark = "none" THEN 0 ELSE 1) /\ (f.mark # "none" => P(0)[1] = f.mark)
  BY <1>3, MarkIs DEF Ends
<1>5. \A i \in 1 .. n : E(i - 1) < E(i) /\ \A j \in 1 .. E(i - 1) : P(i)[j] = P(i - 1)[j]
  <2> TAKE i \in 1 .. n
  <2> DEFINE w == Len(Written(f.lines[i]))
             o == IF i < Len(f.lines) \/ f.ended THEN 1 ELSE 0
  <2>1. /\ w \in Nat /\ w >= 1 /\ E(i - 1) \in Nat /\ E(i) \in Nat
        /\ E(i) = E(i - 1) + w + o
        /\ \A j \in 1 .. E(i - 1) : P(i)[j] = P(i - 1)[j]
    BY NextIs DEF IsNext, Ends
  <2>2. o \in {0, 1}
    OBVIOUS
  <2> HIDE DEF w, o, E, P
  <2>3. E(i - 1) < E(i)
    BY <2>1, <2>2
  <2> QED BY <2>1, <2>3
<1>6. Bytes(f) = P(n)
  BY DEF Bytes
<1>7. E(n) = Len(P(n))
  BY DEF Ends
<1> HIDE DEF E, P, n
<1>8. \A k \in 0 .. n : \A j \in 0 .. n : j < k => E(j) < E(k)
  <2> DEFINE T == {k \in 0 .. n : \A j \in 0 .. n : j < k => E(j) < E(k)}
  <2>1. T \in SUBSET (0 .. n) /\ 0 \in T
    BY <1>1
  <2>2. ASSUME NEW k \in 0 .. n - 1, k \in T PROVE k + 1 \in T
    <3>1. k + 1 \in 1 .. n /\ (k + 1) - 1 = k /\ k \in 0 .. n /\ k + 1 \in 0 .. n
      BY <1>1
    <3>2. E(k) < E(k + 1) /\ E(k) \in Nat /\ E(k + 1) \in Nat
      BY <1>2, <1>5, <3>1
    <3>3. ASSUME NEW j \in 0 .. n, j < k + 1 PROVE E(j) < E(k + 1)
      <4>1. E(j) \in Nat
        BY <1>2
      <4>2. j = k \/ E(j) < E(k)
        <5>1. j = k \/ j < k
          BY <1>1, <3>3
        <5> QED BY <2>2, <5>1
      <4> QED BY <3>2, <4>1, <4>2
    <3> QED BY <3>1, <3>3
  <2> HIDE DEF T
  <2>3. \A k \in 0 .. n : k \in T
    BY <1>1, <2>1, <2>2, InductionTo
  <2> QED BY <2>3 DEF T
<1>9. \A k \in 0 .. n : \A j \in 1 .. E(k) : P(n)[j] = P(k)[j]
  <2> DEFINE T == {i \in 0 .. n : \A j \in 1 .. E(n - i) : P(n)[j] = P(n - i)[j]}
  <2>1. T \in SUBSET (0 .. n)
    OBVIOUS
  <2>2. 0 \in T
    BY <1>1
  <2>3. ASSUME NEW i \in 0 .. n - 1, i \in T PROVE i + 1 \in T
    <3> DEFINE k == n - i
    <3>1. /\ k \in 1 .. n /\ k \in 0 .. n /\ k - 1 \in 0 .. n
          /\ n - (i + 1) = k - 1 /\ i + 1 \in 0 .. n
      BY <1>1
    <3>2. \A j \in 1 .. E(k) : P(n)[j] = P(k)[j]
      BY <2>3
    <3> HIDE DEF k
    <3>3. E(k - 1) < E(k) /\ E(k - 1) \in Nat /\ E(k) \in Nat
      BY <1>2, <1>5, <3>1
    <3>4. ASSUME NEW j \in 1 .. E(k - 1) PROVE P(n)[j] = P(k - 1)[j]
      <4>1. j \in 1 .. E(k)
        BY <3>3
      <4>2. P(k)[j] = P(k - 1)[j]
        BY <1>5, <3>1
      <4> QED BY <3>2, <4>1, <4>2
    <3>5. \A j \in 1 .. E(n - (i + 1)) : P(n)[j] = P(n - (i + 1))[j]
      BY <3>1, <3>4
    <3> QED BY <3>1, <3>5
  <2> HIDE DEF T
  <2>4. \A i \in 0 .. n : i \in T
    BY <1>1, <2>1, <2>2, <2>3, InductionTo
  <2>5. \A k \in 0 .. n : n - k \in 0 .. n /\ n - (n - k) = k
    BY <1>1
  <2>6. ASSUME NEW k \in 0 .. n PROVE \A j \in 1 .. E(k) : P(n)[j] = P(k)[j]
    <3>1. \A j \in 1 .. E(n - (n - k)) : P(n)[j] = P(n - (n - k))[j]
      BY <2>4, <2>5 DEF T
    <3> QED BY <2>5, <3>1
  <2> QED BY <2>6
<1>10. f.mark # "none" => P(n)[1] = f.mark
  <2>1. f.mark # "none" => 1 \in 1 .. E(0)
    BY <1>4
  <2>2. 0 \in 0 .. n
    BY <1>1
  <2> QED BY <1>4, <1>9, <2>1, <2>2
<1>11. n \in 0 .. n
  BY <1>1
<1> QED BY <1>2, <1>4, <1>6, <1>7, <1>8, <1>9, <1>10, <1>11 DEF E, P, n

(* Where the i-th line stands.                                             *)
Stands(f, i, l) ==
    /\ Len(Written(l)) \in Nat /\ Len(Written(l)) >= 1
    /\ Ends(f, i) = Ends(f, i - 1) + Len(Written(l))
                      + IF i < Len(f.lines) \/ f.ended THEN 1 ELSE 0
    /\ \A j \in 1 .. Len(Written(l)) : Bytes(f)[Ends(f, i - 1) + j] = Written(l)[j]
    /\ (i < Len(f.lines) \/ f.ended) => Bytes(f)[Ends(f, i)] = "\n"

(* Each line stands in the file behind the end of the one before it. *)
LEMMA LineStands ==
    ASSUME NEW f \in Files, NEW i \in 1 .. Len(f.lines)
    PROVE  Stands(f, i, f.lines[i])
<1> DEFINE n == Len(f.lines)
           a == Ends(f, i - 1)
           b == Ends(f, i)
           q == Prefix(f, i)
           w == Written(f.lines[i])
           m == Len(w)
           More == i < n \/ f.ended
<1>1. /\ m \in Nat /\ m >= 1 /\ a \in Nat /\ b \in Nat
      /\ b = a + m + IF More THEN 1 ELSE 0
      /\ \A j \in 1 .. m : q[a + j] = w[j]
      /\ More => q[b] = "\n"
  BY NextIs DEF IsNext, Ends
<1>2. \A j \in 1 .. b : Bytes(f)[j] = q[j]
  <2>1. i \in 0 .. n
    BY FileIs
  <2> QED BY <2>1, Layout
<1> HIDE DEF a, b, q, w, m, More
<1>3. (\A j \in 1 .. m : a + j \in 1 .. b) /\ b \in 1 .. b
  <2> DEFINE o == IF More THEN 1 ELSE 0
  <2>1. o \in {0, 1} /\ b = a + m + o
    BY <1>1
  <2> HIDE DEF o
  <2> QED BY <1>1, <2>1
<1>4. \A j \in 1 .. m : Bytes(f)[a + j] = w[j]
  BY <1>1, <1>2, <1>3
<1>5. More => Bytes(f)[b] = "\n"
  BY <1>1, <1>2, <1>3
<1> QED BY <1>1, <1>4, <1>5 DEF Stands, a, b, w, m, More

-----------------------------------------------------------------------------
(* The invariant *)

(* As much of the file as is read, and the lines whose end is.             *)
ReadSize(f)   == IF Len(Bytes(f)) > MaxSize THEN MaxSize ELSE Len(Bytes(f))
Reached(f, k) == Ends(f, k) =< ReadSize(f)

(* What the first k lines leave in force for a key.                        *)
GoodUpTo(f, key, k) == {i \in Settings(f, key) : i =< k}

LastGood(f, key, k) ==
    IF GoodUpTo(f, key, k) = {} THEN InForce(GpuConfigSetDefaults, key)
    ELSE LET last == CHOOSE i \in GoodUpTo(f, key, k) :
                        \A j \in GoodUpTo(f, key, k) : j =< i
         IN  Meaning(key, f.lines[last].val)

AllDefault == \A key \in Keys : InForce(config, key) = InForce(GpuConfigSetDefaults, key)

(* The text is what follows the mark.                                      *)
TextIs ==
    /\ Len(text) = ReadSize(file) - Ends(file, 0)
    /\ \A i \in 1 .. Len(text) : text[i] = Bytes(file)[Ends(file, 0) + i]

(* Between two lines: those before have been taken.                        *)
AfterLine(k) ==
    /\ pos = Ends(file, k) - Ends(file, 0) + 1
    /\ \A key \in Keys : InForce(config, key) = LastGood(file, key, k)

(* In a line that was cut: nothing is known of its own key.                *)
InCut(k) ==
    /\ pos = Len(text) + 1
    /\ k < Len(file.lines) /\ ~Reached(file, k + 1)
    /\ \A key \in Keys : key # file.lines[k + 1].key =>
                            InForce(config, key) = LastGood(file, key, k)

(* The last line to be reached.                                            *)
AtEnd(k) ==
    /\ k = Len(file.lines) \/ ~Reached(file, k + 1)
    /\ \A key \in Keys : \/ InForce(config, key) = LastGood(file, key, k)
                         \/ k < Len(file.lines) /\ file.lines[k + 1].key = key

Where ==
    CASE pc = "load"  -> /\ text = <<>> /\ pos = 1
                         /\ ~config.Loaded /\ config.Encoding = "ok" /\ AllDefault
      [] pc = "mark"  -> /\ IsStart(Token, Bytes(file), ReadSize(file), text)
                         /\ Bytes(file) # <<>> /\ pos = 1
                         /\ config.Loaded /\ config.Encoding = "ok" /\ AllDefault
      [] pc = "lines" -> /\ Bytes(file) # <<>> /\ file.mark # "UTF-16" /\ TextIs
                         /\ config.Loaded /\ config.Encoding = "ok"
                         /\ \E k \in 0 .. Len(file.lines) :
                               Reached(file, k) /\ (AfterLine(k) \/ InCut(k))
      [] OTHER        -> \/ ~config.Loaded /\ AllDefault
                         \/ /\ config.Loaded /\ config.Encoding # "ok" /\ AllDefault
                            /\ file.mark = "UTF-16"
                         \/ /\ config.Loaded /\ config.Encoding = "ok"
                            /\ Bytes(file) # <<>> /\ file.mark # "UTF-16"
                            /\ \E k \in 0 .. Len(file.lines) : Reached(file, k) /\ AtEnd(k)

IInv ==
    /\ file \in Files /\ config \in Config
    /\ pc \in {"load", "mark", "lines", "done"}
    /\ text \in Seq(Token) /\ pos \in 1 .. Len(text) + 1
    /\ Where

(* The defaults are a configuration, not loaded. *)
LEMMA DefaultsAre ==
    /\ GpuConfigSetDefaults \in Config
    /\ ~GpuConfigSetDefaults.Loaded /\ GpuConfigSetDefaults.Encoding = "ok"
<1>1. 0 \in Word
  <2>1. 65535 >= 0 /\ 65535 \in Int
    BY SMT
  <2> QED BY <2>1, SMT DEF Word
<1>2. 3 \in Delays
  BY SMT DEF Delays
<1>3. <<>> \in {p \in Seq(Token) : Len(p) =< MaxPath}
  <2>1. <<>> \in Seq(Token) /\ Len(<<>>) = 0
    BY EmptySeq
  <2>2. 0 =< MaxPath
    <3>1. MaxPath \in Nat
      BY ConfigAssumption
    <3> QED BY <3>1
  <2> QED BY <2>1, <2>2
<1> QED BY <1>1, <1>2, <1>3 DEF GpuConfigSetDefaults, Config

(* A good line for a key is the last one, until the next.                  *)
LEMMA LastGoodIs ==
    ASSUME NEW f \in Files, NEW key \in Keys
    PROVE  /\ LastGood(f, key, 0) = InForce(GpuConfigSetDefaults, key)
           /\ \A k \in 1 .. Len(f.lines) :
                LastGood(f, key, k) = IF Sets(f.lines[k], key) THEN Meaning(key, f.lines[k].val)
                                      ELSE LastGood(f, key, k - 1)
<1> DEFINE n == Len(f.lines)
           G(k) == GoodUpTo(f, key, k)
<1>1. n \in Nat /\ DOMAIN f.lines = 1 .. n
  BY FileIs
<1>2. \A k, i : i \in G(k) <=> i \in 1 .. n /\ Sets(f.lines[i], key) /\ i =< k
  BY <1>1 DEF GoodUpTo, Settings, Sets
<1>3. \A k : LastGood(f, key, k) =
               IF G(k) = {} THEN InForce(GpuConfigSetDefaults, key)
               ELSE LET last == CHOOSE i \in G(k) : \A j \in G(k) : j =< i
                    IN  Meaning(key, f.lines[last].val)
  BY DEF LastGood
<1> HIDE DEF G, n
<1>4. LastGood(f, key, 0) = InForce(GpuConfigSetDefaults, key)
  <2>1. \A i : i \notin G(0)
    <3>1. \A i \in 1 .. n : ~(i =< 0)
      BY <1>1
    <3> QED BY <1>2, <3>1
  <2> QED BY <1>3, <2>1
<1>5. ASSUME NEW k \in 1 .. n
      PROVE  LastGood(f, key, k) = IF Sets(f.lines[k], key) THEN Meaning(key, f.lines[k].val)
                                   ELSE LastGood(f, key, k - 1)
  <2>1. \A i \in 1 .. n : i =< k <=> i = k \/ i =< k - 1
    BY <1>1
  <2>2. CASE Sets(f.lines[k], key)
    <3>1. k \in G(k)
      BY <1>1, <1>2, <2>2
    <3>2. \A j \in G(k) : j =< k
      BY <1>2
    <3>3. \A i \in G(k) : (\A j \in G(k) : j =< i) => i = k
      <4>1. \A i \in G(k) : i \in 1 .. n
        BY <1>2
      <4>2. \A i \in 1 .. n : i =< k /\ k =< i => i = k
        BY <1>1
      <4> QED BY <3>1, <3>2, <4>1, <4>2
    <3>4. (CHOOSE i \in G(k) : \A j \in G(k) : j =< i) = k
      BY <3>1, <3>2, <3>3
    <3> QED BY <1>3, <2>2, <3>1, <3>4
  <2>3. CASE ~Sets(f.lines[k], key)
    <3>1. \A i : i \in G(k) <=> i \in G(k - 1)
      BY <1>2, <2>1, <2>3
    <3>2. G(k) = G(k - 1)
      BY <3>1
    <3> QED BY <1>3, <2>3, <3>2
  <2> QED BY <2>2, <2>3
<1> QED BY <1>4, <1>5 DEF n

(* Only one line is the last to be reached.                                *)
LEMMA ReachedIs ==
    ASSUME NEW f \in Files
    PROVE  /\ ReadSize(f) \in Nat /\ ReadSize(f) =< MaxSize
           /\ ReadSize(f) =< Ends(f, Len(f.lines))
           /\ Bytes(f) # <<>> => ReadSize(f) >= 1 /\ Reached(f, 0)
           /\ \A k \in 1 .. Len(f.lines) : Reached(f, k) <=> ReadWhole(f, k)
           /\ \A j \in 0 .. Len(f.lines), k \in 0 .. Len(f.lines) :
                 j =< k /\ Reached(f, k) => Reached(f, j)
<1> DEFINE n == Len(f.lines)
           b == Bytes(f)
           e == Ends(f, n)
           s == ReadSize(f)
           z == Ends(f, 0)
<1>1. n \in Nat /\ n \in 0 .. n /\ 0 \in 0 .. n /\ \A k \in 1 .. n : k \in 0 .. n
  BY FileIs
<1>2. b \in Seq(Token) /\ Len(b) = e /\ e \in Nat /\ z \in Nat /\ z =< 1
      /\ \A k \in 0 .. n : Ends(f, k) \in Nat
  BY <1>1, Layout
<1>3. s = IF e > MaxSize THEN MaxSize ELSE e
  BY <1>2 DEF ReadSize
<1>4. \A j \in 0 .. n, k \in 0 .. n : j < k => Ends(f, j) < Ends(f, k)
  BY Layout
<1>a. b # <<>> => e # 0
  BY <1>2, EmptySeq
<1>b. \A k \in 0 .. n : Ends(f, k) =< e
  <2> TAKE k \in 0 .. n
  <2>1. k = n \/ k < n
    BY <1>1
  <2>2. k < n => Ends(f, k) < e
    BY <1>1, <1>4
  <2>3. Ends(f, k) \in Nat
    BY <1>2
  <2> HIDE DEF n, e
  <2>4. k = n => Ends(f, k) = e
    BY DEF e
  <2> QED BY <1>2, <2>1, <2>2, <2>3, <2>4
<1>c. \A k : Reached(f, k) <=> Ends(f, k) =< s
  BY DEF Reached
<1>d. \A k : ReadWhole(f, k) <=> Ends(f, k) =< MaxSize
  BY DEF ReadWhole, Ends
<1>e. MaxSize \in Nat /\ MaxSize >= 1
  <2>1. MaxSize \in Nat \ {0}
    BY ConfigAssumption
  <2> QED BY <2>1
<1> HIDE DEF n, b, e, s, z
<1>5. s \in Nat /\ s =< MaxSize /\ s =< e
  BY <1>2, <1>3, <1>e
<1>6. b # <<>> => s >= 1 /\ z =< s
  BY <1>2, <1>3, <1>5, <1>a, <1>e
<1>7. \A k \in 0 .. n : Ends(f, k) =< s <=> Ends(f, k) =< MaxSize
  <2> TAKE k \in 0 .. n
  <2> DEFINE d == Ends(f, k)
  <2>1. d \in Nat /\ d =< e
    BY <1>2, <1>b
  <2> HIDE DEF d
  <2>2. d =< s <=> d =< MaxSize
    BY <1>2, <1>3, <1>e, <2>1
  <2> QED BY <2>2 DEF d
<1>8. ASSUME NEW j \in 0 .. n, NEW k \in 0 .. n, j =< k, Reached(f, k)
      PROVE  Reached(f, j)
  <2> DEFINE d == Ends(f, k)
             c == Ends(f, j)
  <2>1. d \in Nat /\ c \in Nat /\ d =< s
    BY <1>2, <1>8, <1>c
  <2>2. j = k \/ j < k
    BY <1>1, <1>8
  <2>3. c = d \/ c < d
    BY <1>4, <2>2
  <2> HIDE DEF c, d
  <2>4. c =< s
    BY <1>5, <2>1, <2>3
  <2> QED BY <1>c, <2>4 DEF c
<1>9. b # <<>> => Reached(f, 0)
  BY <1>6, <1>c DEF z
<1>10. \A k \in 1 .. n : Reached(f, k) <=> ReadWhole(f, k)
  BY <1>1, <1>7, <1>c, <1>d
<1> QED BY <1>5, <1>6, <1>8, <1>9, <1>10 DEF n, b, e, s

(* What is read of a file shows its mark.                                  *)
LEMMA MarkIsSeen ==
    ASSUME file \in Files, Bytes(file) # <<>>, IsStart(Token, Bytes(file), ReadSize(file), text)
    PROVE  /\ text[1] = "UTF-16" <=> file.mark = "UTF-16"
           /\ text[1] = "UTF-8" <=> file.mark = "UTF-8"
           /\ Len(text) >= 1 /\ Len(text) \in Nat
<1> DEFINE n == Len(file.lines)
<1>1. ReadSize(file) \in Nat /\ ReadSize(file) >= 1
  BY ReachedIs
<1>2. Len(text) = ReadSize(file) /\ text[1] = Bytes(file)[1]
  <2>1. 1 \in 1 .. ReadSize(file)
    BY <1>1
  <2> QED BY <2>1 DEF IsStart
<1>3. CASE file.mark = "none"
  <2>1. Ends(file, 0) = 0
    BY <1>3, Layout
  <2>2. n # 0
    <3>1. Bytes(file) \in Seq(Token) /\ Len(Bytes(file)) = Ends(file, n)
      BY Layout
    <3>2. Len(Bytes(file)) # 0
      BY <3>1, EmptySeq
    <3> QED BY <2>1, <3>1, <3>2
  <2>3. 1 \in 1 .. n
    <3>1. n \in Nat
      BY FileIs
    <3> HIDE DEF n
    <3> QED BY <2>2, <3>1
  <2> DEFINE l == file.lines[1]
  <2>4. Plain(l) /\ Stands(file, 1, l)
    BY <2>3, FileIs, LineStands
  <2> HIDE DEF l
  <2>5. Len(Written(l)) \in Nat /\ Len(Written(l)) >= 1
        /\ \A j \in 1 .. Len(Written(l)) : Bytes(file)[Ends(file, 1 - 1) + j] = Written(l)[j]
    BY <2>4 DEF Stands
  <2>6. Bytes(file)[Ends(file, 1 - 1) + 1] = Written(l)[1]
    <3>1. 1 \in 1 .. Len(Written(l))
      BY <2>5
    <3> QED BY <2>5, <3>1
  <2>7. Ends(file, 1 - 1) + 1 = 1
    <3>1. 1 - 1 = 0
      OBVIOUS
    <3>2. Ends(file, 1 - 1) = 0
      BY <2>1, <3>1
    <3> QED BY <3>2
  <2>8. Written(l)[1] = " "
    BY <2>4, WrittenIs
  <2>9. text[1] = " "
    BY <1>2, <2>6, <2>7, <2>8
  <2> QED BY <1>1, <1>2, <1>3, <2>9
<1>4. CASE file.mark # "none"
  BY <1>1, <1>2, <1>4, Layout
<1> QED BY <1>3, <1>4

-----------------------------------------------------------------------------
(* A turn of the loop between two lines takes the next one, or what was    *)
(* read of it.                                                             *)
Turn(k, rest, next) ==
    /\ k < Len(file.lines) /\ next \in 1 .. Len(text) + 1
    /\ \E m \in Nat :
         /\ m =< Len(Written(file.lines[k + 1]))
         /\ IsStart(Token, Written(file.lines[k + 1]), m, rest)
         /\ \/ /\ m >= Size(file.lines[k + 1]) /\ Reached(file, k + 1)
               /\ next = Ends(file, k + 1) - Ends(file, 0) + 1
            \/ next = Len(text) + 1 /\ ~Reached(file, k + 1)

InLoop(rest, next) ==
    /\ pos \in 1 .. Len(text) + 1 /\ pos =< Len(text)
    /\ rest = Before(SubSeq(text, pos, Len(text)), "\n")
    /\ next = pos + Len(rest) + IF pos + Len(rest) =< Len(text) THEN 1 ELSE 0

(* What a turn between two lines reads is the beginning of the next line, and *)
(* it ends behind that line or at the end of the text.                     *)
LEMMA TurnIs ==
    ASSUME file \in Files, text \in Seq(Token), TextIs, NEW k \in 0 .. Len(file.lines),
           AfterLine(k), NEW rest, NEW next, InLoop(rest, next)
    PROVE  Turn(k, rest, next)
<1> DEFINE n == Len(file.lines)
           l == file.lines[k + 1]
           w == Written(l)
           c == Len(w)
           z == Ends(file, 0)
           a == Ends(file, k)
           b == Ends(file, k + 1)
           e == Ends(file, n)
           t == Len(text)
           s == ReadSize(file)
           B == Bytes(file)
           u == SubSeq(text, pos, t)
           r == t - pos + 1
           m == IF r =< c THEN r ELSE c
           More == k + 1 < n \/ file.ended
<1>1. n \in Nat /\ k \in 0 .. n /\ n \in 0 .. n /\ 0 \in 0 .. n
  BY FileIs
<1>2. z \in Nat /\ a \in Nat /\ e \in Nat /\ s \in Nat /\ s =< e /\ t \in Nat
  <2>1. z \in Nat /\ a \in Nat /\ e \in Nat
    BY <1>1, Layout
  <2>2. t \in Nat
    BY LenProperties
  <2> QED BY <2>1, <2>2, ReachedIs
<1>3. t = s - z /\ \A i \in 1 .. t : text[i] = B[z + i]
  BY DEF TextIs
<1>4. pos = a - z + 1 /\ pos \in 1 .. t + 1 /\ pos =< t
  BY DEF AfterLine, InLoop
<1>5. next = pos + Len(rest) + IF pos + Len(rest) =< t THEN 1 ELSE 0
  BY DEF InLoop
<1>6. rest = Before(u, "\n")
  BY DEF InLoop
<1>7. IsPart(Token, text, pos, t, u)
  <2>1. t \in pos - 1 .. t
    BY <1>2, <1>4
  <2>2. pos \in 1 .. Len(text) + 1 /\ t \in pos - 1 .. Len(text)
    BY <1>4, <2>1
  <2> QED BY <2>2, PartIs
<1>8. k < n
  <2>1. k = n => a = e
    OBVIOUS
  <2> HIDE DEF n, a, e, t, s, z
  <2>2. a < e
    BY <1>2, <1>3, <1>4
  <2> QED BY <1>1, <1>2, <2>1, <2>2
<1>9. k + 1 \in 1 .. n /\ k + 1 \in 0 .. n /\ (k + 1) - 1 = k
  <2> HIDE DEF n
  <2> QED BY <1>1, <1>8
<1>10. Plain(l) /\ Stands(file, k + 1, l)
  BY <1>9, FileIs, LineStands
<1>11. w \in Seq(Token) /\ (\A i \in 1 .. c : w[i] # "\n") /\ c >= Size(l) /\ Size(l) \in Nat
  <2>1. w \in Seq(Token) /\ c = Size(l) + (IF l.comment THEN 4 ELSE 0)
        /\ \A i \in 1 .. c : w[i] # "\n"
    BY <1>10, WrittenIs
  <2>2. Size(l) \in Nat
    BY <1>10, SizeIsNat
  <2> HIDE DEF c, l, w
  <2>3. c >= Size(l)
    BY <2>1, <2>2
  <2> QED BY <2>1, <2>2, <2>3
<1>12. /\ c \in Nat /\ c >= 1
       /\ b = a + c + IF More THEN 1 ELSE 0
       /\ \A j \in 1 .. c : B[a + j] = w[j]
       /\ More => B[b] = "\n"
  BY <1>9, <1>10 DEF Stands
<1>13. ~More => k + 1 = n
  <2> HIDE DEF n
  <2>1. ~More => ~(k + 1 < n)
    OBVIOUS
  <2> HIDE DEF More
  <2> QED BY <1>1, <1>9, <2>1
<1>14. ~More => b = e
  BY <1>13
<1>15. Reached(file, k + 1) <=> b =< s
  BY DEF Reached
<1>16. u \in Seq(Token) /\ Len(u) = r /\ \A i \in 1 .. r : u[i] = text[pos + i - 1]
  BY <1>7 DEF IsPart
<1> HIDE DEF n, w, c, z, a, b, e, t, s, B, u, r, More, l
<1>17. r \in Nat /\ r >= 1 /\ r = s - a
  BY <1>2, <1>3, <1>4 DEF r
<1>18. ASSUME NEW i \in 1 .. r PROVE u[i] = B[a + i]
  <2>1. pos + i - 1 \in 1 .. t /\ z + (pos + i - 1) = a + i
    BY <1>2, <1>4, <1>17 DEF r
  <2> QED BY <1>3, <1>16, <2>1
<1>19. m \in Nat /\ m =< r /\ m =< c /\ (\A i \in 1 .. m : i \in 1 .. r /\ i \in 1 .. c)
  BY <1>12, <1>17
<1>20. c < r => More /\ b = a + c + 1
  <2>1. (More /\ b = a + c + 1) \/ (~More /\ b = a + c)
    BY <1>2, <1>12
  <2>2. c < r => ~(b = e /\ b = a + c)
    BY <1>2, <1>12, <1>17
  <2> QED BY <1>14, <2>1, <2>2, Zenon
<1>21. m = r \/ (m = c /\ c < r)
  BY <1>12, <1>17
<1> HIDE DEF m
<1>22. \A i \in 1 .. m : u[i] = w[i] /\ u[i] # "\n"
  BY <1>11, <1>12, <1>18, <1>19
<1>23. m = r \/ u[m + 1] = "\n"
  <2>1. c < r => c + 1 \in 1 .. r /\ a + (c + 1) = a + c + 1
    BY <1>2, <1>12, <1>17
  <2>2. c < r => u[c + 1] = B[b]
    <3>1. c < r => u[c + 1] = B[a + (c + 1)]
      BY <1>18, <2>1
    <3> QED BY <1>20, <2>1, <3>1
  <2>3. c < r => u[c + 1] = "\n"
    BY <1>12, <1>20, <2>2
  <2> QED BY <1>21, <2>3
<1>24. IsStart(Token, u, m, rest)
  <2>1. m \in 0 .. Len(u) /\ (m = Len(u) \/ u[m + 1] = "\n")
    BY <1>16, <1>17, <1>19, <1>23
  <2>2. rest = SubSeq(u, 1, m)
    BY <1>6, <1>16, <1>22, <2>1, BeforeIs
  <2> QED BY <1>16, <2>1, <2>2, StartIs
<1>25. rest \in Seq(Token) /\ Len(rest) = m /\ \A i \in 1 .. m : rest[i] = w[i]
  BY <1>22, <1>24 DEF IsStart
<1>26. next = pos + m + IF pos + m =< t THEN 1 ELSE 0
  BY <1>5, <1>25
<1>27. pos \in Int /\ pos + r = t + 1 /\ pos >= 1
  BY <1>2, <1>4 DEF r
<1>28. next \in 1 .. t + 1
  <2>1. CASE pos + m =< t
    <3>1. next = pos + m + 1
      BY <1>26, <2>1
    <3> QED BY <1>2, <1>19, <1>27, <2>1, <3>1
  <2>2. CASE ~(pos + m =< t)
    <3>1. next = pos + m
      BY <1>19, <1>26, <1>27, <2>2
    <3> QED BY <1>2, <1>17, <1>19, <1>27, <2>2, <3>1
  <2> QED BY <2>1, <2>2
<1>29. CASE c < r
  <2>1. m = c /\ pos + m =< t
    BY <1>2, <1>12, <1>17, <1>19, <1>21, <1>27, <1>29
  <2>2. next = pos + c + 1
    BY <1>26, <2>1
  <2>3. next = b - z + 1
    BY <1>2, <1>4, <1>12, <1>20, <1>29, <2>2
  <2>4. b =< s
    BY <1>2, <1>12, <1>17, <1>20, <1>29
  <2>5. m >= Size(l)
    BY <1>11, <2>1
  <2> QED BY <1>8, <1>15, <1>19, <1>25, <1>28, <2>3, <2>4, <2>5
          DEF Turn, IsStart, n, l, w, c, z, b, t
<1>30. CASE ~(c < r)
  <2>1. m = r
    BY <1>21, <1>30
  <2>2. next = t + 1
    <3>1. pos + m = t + 1
      BY <1>27, <2>1
    <3>2. ~(t + 1 =< t)
      BY <1>2
    <3>3. next = (t + 1) + 0
      BY <1>26, <3>1, <3>2
    <3> QED BY <1>2, <3>3
  <2>3. CASE b =< s
    <3>1. c = r /\ b = a + c /\ b = s
      <4>1. b = a + c + 1 \/ b = a + c
        BY <1>2, <1>12
      <4> QED BY <1>2, <1>12, <1>17, <1>30, <2>3, <4>1
    <3>2. next = b - z + 1
      BY <1>2, <1>3, <2>2, <3>1
    <3>3. m >= Size(l)
      BY <1>11, <2>1, <3>1
    <3> QED BY <1>8, <1>15, <1>19, <1>25, <1>28, <2>3, <3>2, <3>3
            DEF Turn, IsStart, n, l, w, c, z, b, t
  <2>4. CASE ~(b =< s)
    BY <1>8, <1>15, <1>19, <1>25, <1>28, <2>2, <2>4
    DEF Turn, IsStart, n, l, w, c, t
  <2> QED BY <2>3, <2>4
<1> QED BY <1>29, <1>30

(* What the file's end leaves: the last good line for each key, unless the *)
(* cut went through a line for it.                                         *)
LEMMA EndIs ==
    ASSUME NEW k \in 0 .. Len(file.lines), file \in Files, Reached(file, k),
           AfterLine(k) \/ InCut(k), pos > Len(text), TextIs, text \in Seq(Token)
    PROVE  AtEnd(k)
<1> DEFINE n == Len(file.lines)
           z == Ends(file, 0)
           a == Ends(file, k)
           b == Ends(file, k + 1)
           s == ReadSize(file)
           t == Len(text)
<1>1. CASE InCut(k)
  BY <1>1 DEF InCut, AtEnd
<1>2. CASE AfterLine(k)
  <2>1. \A key \in Keys : InForce(config, key) = LastGood(file, key, k)
    BY <1>2 DEF AfterLine
  <2>2. pos = a - z + 1 /\ t = s - z /\ pos > t
    BY <1>2 DEF AfterLine, TextIs
  <2>3. n \in Nat /\ k \in 0 .. n /\ 0 \in 0 .. n
    BY FileIs
  <2>4. z \in Nat /\ a \in Nat /\ s \in Nat
    BY <2>3, Layout, ReachedIs
  <2>5. k # n => k + 1 \in 0 .. n /\ k < k + 1
    <3> HIDE DEF n
    <3> QED BY <2>3
  <2>6. k # n => b \in Nat /\ a < b
    BY <2>3, <2>5, Layout
  <2>7. b =< s <=> Reached(file, k + 1)
    BY DEF Reached
  <2> HIDE DEF n, z, a, b, s, t
  <2>8. k # n => ~(b =< s)
    BY <2>2, <2>4, <2>6
  <2> QED BY <2>1, <2>7, <2>8 DEF AtEnd, n
<1> QED BY <1>1, <1>2

(* What is in force rests on the fields of the keys alone.                 *)
SameSettings(c, d) ==
    /\ \A k \in Flags : c[k] = d[k]
    /\ c.HasExpectVendor = d.HasExpectVendor /\ c.ExpectVendor = d.ExpectVendor
    /\ c.HasExpectDevice = d.HasExpectDevice /\ c.ExpectDevice = d.ExpectDevice
    /\ c.ExpectDeviceAny = d.ExpectDeviceAny
    /\ c.AutobootDelay = d.AutobootDelay
    /\ c.HasBootPath = d.HasBootPath /\ c.BootPath = d.BootPath

(* Configurations that agree on all those fields have the same in force. *)
LEMMA SameInForce ==
    ASSUME NEW c, NEW d, SameSettings(c, d)
    PROVE  \A key \in Keys : InForce(c, key) = InForce(d, key)
<1>1. \A key \in Flags : InForce(c, key) = InForce(d, key)
  BY InForceSame DEF SameSettings
<1>2. InForce(c, "EXPECT_VENDOR") = InForce(d, "EXPECT_VENDOR")
  BY InForceSame DEF SameSettings
<1>3. InForce(c, "EXPECT_DEVICE") = InForce(d, "EXPECT_DEVICE")
  BY InForceSame DEF SameSettings
<1>4. InForce(c, "AUTOBOOT_DELAY") = InForce(d, "AUTOBOOT_DELAY")
  BY InForceSame DEF SameSettings
<1>5. InForce(c, "BOOT_PATH") = InForce(d, "BOOT_PATH")
  BY InForceSame DEF SameSettings
<1> QED BY <1>1, <1>2, <1>3, <1>4, <1>5 DEF Keys

(* That a file was read, or was not plain text, is no setting. *)
LEMMA LoadedIsNoSetting ==
    ASSUME config \in Config,
           NEW c \in {[config EXCEPT !.Loaded = TRUE],
                      [config EXCEPT !.Encoding = "UTF-16 rejected"]}
    PROVE  c \in Config /\ \A key \in Keys : InForce(c, key) = InForce(config, key)
<1>1. CASE c = [config EXCEPT !.Loaded = TRUE]
  <2>1. c \in Config /\ SameSettings(c, config)
    BY <1>1 DEF Config, Flags, SameSettings
  <2> QED BY <2>1, SameInForce
<1>2. CASE c = [config EXCEPT !.Encoding = "UTF-16 rejected"]
  <2>1. c \in Config /\ SameSettings(c, config)
    BY <1>2 DEF Config, Flags, SameSettings
  <2> QED BY <2>1, SameInForce
<1> QED BY <1>1, <1>2

(* A turn of the loop: a line that is read whole is taken, one that is cut *)
(* leaves all keys but its own alone.                                      *)
LEMMA ParseLineKeeps == IInv /\ ParseLine => IInv'
<1> SUFFICES ASSUME IInv, ParseLine PROVE IInv'
  OBVIOUS
<1> DEFINE rest == Before(SubSeq(text, pos, Len(text)), "\n")
           next == pos + Len(rest) + IF pos + Len(rest) =< Len(text) THEN 1 ELSE 0
<1>1. /\ file \in Files /\ config \in Config /\ text \in Seq(Token)
      /\ pos \in 1 .. Len(text) + 1 /\ Where
  BY DEF IInv
<1>2. pc = "lines" /\ pos =< Len(text)
  BY DEF ParseLine
<1>3. pos' = next /\ config' = Parsed(rest) /\ file' = file /\ text' = text /\ pc' = pc
  BY DEF ParseLine, Parsed
<1>4. /\ Bytes(file) # <<>> /\ file.mark # "UTF-16" /\ TextIs
      /\ config.Loaded /\ config.Encoding = "ok"
      /\ \E k \in 0 .. Len(file.lines) : Reached(file, k) /\ (AfterLine(k) \/ InCut(k))
  BY <1>1, <1>2 DEF Where
<1>5. PICK k \in 0 .. Len(file.lines) : Reached(file, k) /\ (AfterLine(k) \/ InCut(k))
  BY <1>4
<1>6. Len(text) \in Nat
  BY <1>1, LenProperties
<1>7. AfterLine(k)
  <2>1. InCut(k) => pos = Len(text) + 1
    BY DEF InCut
  <2> QED BY <1>2, <1>5, <1>6, <2>1
<1>8. InLoop(rest, next)
  BY <1>1, <1>2 DEF InLoop
<1> HIDE DEF rest, next
<1>9. Turn(k, rest, next)
  BY <1>1, <1>4, <1>7, <1>8, TurnIs
<1> DEFINE n == Len(file.lines)
           i == k + 1
           l == file.lines[i]
<1>10. k < n /\ next \in 1 .. Len(text) + 1
  BY <1>9 DEF Turn
<1>11. PICK m \in Nat :
         /\ m =< Len(Written(l)) /\ IsStart(Token, Written(l), m, rest)
         /\ \/ m >= Size(l) /\ Reached(file, i) /\ next = Ends(file, i) - Ends(file, 0) + 1
            \/ next = Len(text) + 1 /\ ~Reached(file, i)
  BY <1>9 DEF Turn
<1>12. n \in Nat /\ DOMAIN file.lines = 1 .. n
  BY <1>1, FileIs
<1>13. i \in 1 .. n /\ i \in 0 .. n /\ i - 1 = k
  <2>1. k \in 0 .. n
    OBVIOUS
  <2> HIDE DEF n
  <2> QED BY <1>10, <1>12, <2>1
<1>14. Plain(l)
  BY <1>1, <1>13, FileIs
<1> HIDE DEF l, n
<1>15. TakesLine(config', l, m >= Size(l))
  BY <1>1, <1>3, <1>11, <1>14, LineParsed
<1>16. /\ config' \in Config
       /\ config'.Loaded /\ config'.Encoding = "ok"
  BY <1>4, <1>15 DEF TakesLine
<1>17. \A key \in Keys : InForce(config, key) = LastGood(file, key, k)
  BY <1>7 DEF AfterLine
<1>18. \E j \in 0 .. Len(file.lines) : Reached(file, j) /\ (AfterLine(j)' \/ InCut(j)')
  <2>1. CASE m >= Size(l) /\ Reached(file, i) /\ next = Ends(file, i) - Ends(file, 0) + 1
    <3>1. ASSUME NEW key \in Keys PROVE InForce(config', key) = LastGood(file, key, i)
      <4>1. InForce(config', key) = IF Sets(l, key) THEN Meaning(key, l.val)
                                    ELSE InForce(config, key)
        BY <1>15, <2>1 DEF TakesLine
      <4>2. LastGood(file, key, i) = IF Sets(l, key) THEN Meaning(key, l.val)
                                     ELSE LastGood(file, key, k)
        BY <1>1, <1>13, LastGoodIs DEF l, n
      <4> QED BY <1>17, <4>1, <4>2
    <3>2. AfterLine(i)'
      BY <1>3, <2>1, <3>1 DEF AfterLine
    <3> QED BY <1>13, <2>1, <3>2 DEF n
  <2>2. CASE next = Len(text) + 1 /\ ~Reached(file, i)
    <3>1. \A key \in Keys : key # l.key => InForce(config', key) = LastGood(file, key, k)
      BY <1>15, <1>17 DEF TakesLine
    <3>2. InCut(k)'
      BY <1>3, <1>10, <2>2, <3>1 DEF InCut, l, n
    <3> QED BY <1>5, <3>2
  <2> QED BY <1>11, <2>1, <2>2
<1>19. TextIs'
  BY <1>3, <1>4 DEF TextIs
<1>20. Where'
  <2>1. \E j \in 0 .. Len(file'.lines) : Reached(file', j) /\ (AfterLine(j)' \/ InCut(j)')
    BY <1>3, <1>18
  <2>2. Bytes(file') # <<>> /\ file'.mark # "UTF-16" /\ pc' = "lines"
    BY <1>2, <1>3, <1>4
  <2> QED BY <1>16, <1>19, <2>1, <2>2 DEF Where
<1>21. /\ file' \in Files /\ text' \in Seq(Token)
       /\ pc' \in {"load", "mark", "lines", "done"} /\ pos' \in 1 .. Len(text') + 1
  BY <1>1, <1>2, <1>3, <1>10
<1> QED BY <1>16, <1>20, <1>21 DEF IInv

(* Reading the file: no setting is touched yet. *)
LEMMA LoadKeeps == IInv /\ GpuConfigLoad => IInv'
<1> SUFFICES ASSUME IInv, GpuConfigLoad PROVE IInv'
  OBVIOUS
<1> DEFINE b == Bytes(file)
           s == ReadSize(file)
<1>1. /\ file \in Files /\ config \in Config /\ Where /\ pc = "load" /\ b # <<>>
      /\ text' = SubSeq(b, 1, s) /\ config' = [config EXCEPT !.Loaded = TRUE]
      /\ pc' = "mark" /\ file' = file /\ pos' = pos
  BY DEF IInv, GpuConfigLoad, ReadSize
<1>2. pos = 1 /\ config.Encoding = "ok" /\ AllDefault
  BY <1>1 DEF Where
<1>3. config' \in Config /\ \A key \in Keys : InForce(config', key) = InForce(config, key)
  BY <1>1, LoadedIsNoSetting
<1>4. config'.Loaded /\ config'.Encoding = "ok"
  BY <1>1, <1>2 DEF Config
<1>5. AllDefault'
  BY <1>2, <1>3 DEF AllDefault
<1>6. b \in Seq(Token) /\ s \in 0 .. Len(b)
  <2>1. b \in Seq(Token) /\ Len(b) = Ends(file, Len(file.lines))
    BY <1>1, Layout
  <2>2. Len(b) \in Nat /\ s \in Nat /\ s =< Len(b)
    BY <1>1, <2>1, LenProperties, ReachedIs
  <2> HIDE DEF s, b
  <2> QED BY <2>1, <2>2
<1>7. IsStart(Token, b, s, text')
  BY <1>1, <1>6, StartIs
<1>8. text' \in Seq(Token) /\ Len(text') \in Nat
  <2>1. text' \in Seq(Token)
    BY <1>7 DEF IsStart
  <2> QED BY <2>1, LenProperties
<1>9. 1 \in 1 .. Len(text') + 1
  BY <1>8
<1>10. Where'
  BY <1>1, <1>2, <1>4, <1>5, <1>7 DEF Where
<1> QED BY <1>1, <1>2, <1>3, <1>8, <1>9, <1>10 DEF IInv

(* Behind the mark the first line begins, and all defaults are in force. *)
LEMMA SkipKeeps == IInv /\ SkipMark => IInv'
<1> SUFFICES ASSUME IInv, SkipMark PROVE IInv'
  OBVIOUS
<1> DEFINE b == Bytes(file)
           s == ReadSize(file)
           z == Ends(file, 0)
           Marked == text[1] = "UTF-8"
<1>1. /\ file \in Files /\ config \in Config /\ text \in Seq(Token) /\ Where
      /\ pc = "mark" /\ text[1] # "UTF-16"
      /\ text' = (IF Marked THEN Tail(text) ELSE text)
      /\ pc' = "lines" /\ file' = file /\ pos' = pos /\ config' = config
  BY DEF IInv, SkipMark
<1>2. /\ IsStart(Token, b, s, text) /\ b # <<>> /\ pos = 1
      /\ config.Loaded /\ config.Encoding = "ok" /\ AllDefault
  BY <1>1 DEF Where
<1>3. file.mark # "UTF-16" /\ (Marked <=> file.mark = "UTF-8") /\ Len(text) >= 1
      /\ Len(text) \in Nat
  BY <1>1, <1>2, MarkIsSeen
<1>4. z = IF Marked THEN 1 ELSE 0
  <2>1. file.mark \in {"none", "UTF-8", "UTF-16"}
    BY <1>1, FileIs
  <2>2. z = IF file.mark = "none" THEN 0 ELSE 1
    BY <1>1, Layout
  <2> HIDE DEF z, Marked
  <2> QED BY <1>3, <2>1, <2>2
<1>5. Len(text) = s /\ \A i \in 1 .. s : text[i] = b[i]
  BY <1>2 DEF IsStart
<1> HIDE DEF b, s, z, Marked
<1>6. text' \in Seq(Token) /\ Len(text') = s - z /\ Len(text') \in Nat
      /\ \A i \in 1 .. Len(text') : text'[i] = b[z + i]
  <2>1. CASE Marked
    <3>1. text # <<>>
      <4>1. Len(text) # 0
        BY <1>3
      <4> QED BY <1>1, <4>1, EmptySeq
    <3>2. Tail(text) \in Seq(Token) /\ Len(Tail(text)) = Len(text) - 1
          /\ \A i \in 1 .. Len(Tail(text)) : Tail(text)[i] = text[i + 1]
      BY <1>1, <3>1, HeadTailProperties
    <3>3. text' = Tail(text) /\ z = 1 /\ s \in Nat /\ s >= 1
      BY <1>1, <1>3, <1>4, <1>5, <2>1
    <3>4. text' \in Seq(Token) /\ Len(text') = s - 1
          /\ \A i \in 1 .. Len(text') : text'[i] = text[i + 1]
      BY <1>5, <3>2, <3>3
    <3>5. s - 1 \in Nat /\ \A i \in 1 .. s - 1 : i + 1 \in 1 .. s /\ 1 + i = i + 1
      BY <3>3
    <3>6. ASSUME NEW i \in 1 .. s - 1 PROVE text'[i] = b[1 + i]
      BY <1>5, <3>4, <3>5
    <3> QED BY <3>3, <3>4, <3>5, <3>6
  <2>2. CASE ~Marked
    <3>1. text' = text /\ z = 0 /\ s \in Nat
      BY <1>1, <1>3, <1>4, <1>5, <2>2
    <3>2. s - 0 = s /\ \A i \in 1 .. s : 0 + i = i
      BY <3>1
    <3> QED BY <1>1, <1>5, <3>1, <3>2
  <2> QED BY <2>1, <2>2
<1>7. TextIs'
  BY <1>1, <1>6 DEF TextIs, s, z, b
<1>8. \E k \in 0 .. Len(file.lines) : Reached(file, k) /\ AfterLine(k)'
  <2>1. 0 \in 0 .. Len(file.lines) /\ Reached(file, 0)
    <3>1. Len(file.lines) \in Nat
      BY <1>1, FileIs
    <3> QED BY <1>1, <1>2, <3>1, ReachedIs DEF b
  <2>2. \A key \in Keys : InForce(config, key) = LastGood(file, key, 0)
    BY <1>1, <1>2, LastGoodIs DEF AllDefault
  <2>3. 1 = z - z + 1
    <3>1. z \in Nat
      BY <1>4
    <3> QED BY <3>1
  <2>4. AfterLine(0)'
    BY <1>1, <1>2, <2>2, <2>3 DEF AfterLine, z
  <2> QED BY <2>1, <2>4
<1>9. Where'
  <2>1. \E k \in 0 .. Len(file'.lines) : Reached(file', k) /\ (AfterLine(k)' \/ InCut(k)')
    BY <1>1, <1>8
  <2>2. Bytes(file') # <<>> /\ file'.mark # "UTF-16" /\ pc' = "lines"
        /\ config'.Loaded /\ config'.Encoding = "ok"
    BY <1>1, <1>2, <1>3 DEF b
  <2> QED BY <1>7, <2>1, <2>2 DEF Where
<1>10. 1 \in 1 .. Len(text') + 1
  BY <1>6
<1> QED BY <1>1, <1>2, <1>6, <1>9, <1>10 DEF IInv

(* Only a file with that mark is rejected, and its settings are not        *)
(* touched.                                                                *)
LEMMA RejectKeeps == IInv /\ RejectUtf16 => IInv'
<1> SUFFICES ASSUME IInv, RejectUtf16 PROVE IInv'
  OBVIOUS
<1>1. /\ file \in Files /\ config \in Config /\ text \in Seq(Token) /\ Where
      /\ pos \in 1 .. Len(text) + 1
      /\ pc = "mark" /\ text[1] = "UTF-16"
      /\ config' = [config EXCEPT !.Encoding = "UTF-16 rejected"]
      /\ pc' = "done" /\ file' = file /\ pos' = pos /\ text' = text
  BY DEF IInv, RejectUtf16
<1>2. /\ IsStart(Token, Bytes(file), ReadSize(file), text) /\ Bytes(file) # <<>>
      /\ config.Loaded /\ AllDefault
  BY <1>1 DEF Where
<1>3. file.mark = "UTF-16"
  BY <1>1, <1>2, MarkIsSeen
<1>4. config' \in Config /\ \A key \in Keys : InForce(config', key) = InForce(config, key)
  BY <1>1, LoadedIsNoSetting
<1>5. config'.Loaded /\ config'.Encoding # "ok"
  BY <1>1, <1>2 DEF Config
<1>6. AllDefault'
  BY <1>2, <1>4 DEF AllDefault
<1>7. Where'
  BY <1>1, <1>3, <1>5, <1>6 DEF Where
<1> QED BY <1>1, <1>4, <1>7 DEF IInv

(* At the end of the text the last line reached is settled. *)
LEMMA EndKeeps == IInv /\ EndOfText => IInv'
<1> SUFFICES ASSUME IInv, EndOfText PROVE IInv'
  OBVIOUS
<1>1. /\ file \in Files /\ config \in Config /\ text \in Seq(Token) /\ Where
      /\ pos \in 1 .. Len(text) + 1 /\ pc = "lines" /\ pos > Len(text)
      /\ pc' = "done" /\ file' = file /\ pos' = pos /\ text' = text /\ config' = config
  BY DEF IInv, EndOfText
<1>2. /\ Bytes(file) # <<>> /\ file.mark # "UTF-16" /\ TextIs
      /\ config.Loaded /\ config.Encoding = "ok"
      /\ \E k \in 0 .. Len(file.lines) : Reached(file, k) /\ (AfterLine(k) \/ InCut(k))
  BY <1>1 DEF Where
<1>3. PICK k \in 0 .. Len(file.lines) : Reached(file, k) /\ (AfterLine(k) \/ InCut(k))
  BY <1>2
<1>4. AtEnd(k)
  BY <1>1, <1>2, <1>3, EndIs
<1>5. AtEnd(k)'
  BY <1>1, <1>4 DEF AtEnd
<1>6. Where'
  BY <1>1, <1>2, <1>3, <1>5 DEF Where
<1> QED BY <1>1, <1>6 DEF IInv

(* Before the file is read the defaults are in force. *)
LEMMA InitHolds == Init => IInv
<1> SUFFICES ASSUME Init PROVE IInv
  OBVIOUS
<1>1. /\ file \in Files /\ text = <<>> /\ pos = 1
      /\ config = GpuConfigSetDefaults /\ pc = "load"
  BY DEF Init
<1>2. config \in Config /\ ~config.Loaded /\ config.Encoding = "ok" /\ AllDefault
  BY <1>1, DefaultsAre DEF AllDefault
<1>3. text \in Seq(Token) /\ Len(text) = 0
  BY <1>1, EmptySeq
<1>4. pos \in 1 .. Len(text) + 1
  BY <1>1, <1>3
<1>5. Where
  BY <1>1, <1>2 DEF Where
<1> QED BY <1>1, <1>2, <1>3, <1>4, <1>5 DEF IInv

(* No step breaks the invariant. *)
LEMMA NextKeeps == IInv /\ [Next]_vars => IInv'
<1> SUFFICES ASSUME IInv, [Next]_vars PROVE IInv'
  OBVIOUS
<1>1. CASE Unreadable
  <2>1. /\ pc = "load" /\ pc' = "done" /\ file' = file /\ text' = text /\ pos' = pos
        /\ config' = config
    BY <1>1 DEF Unreadable
  <2>2. Where
    BY DEF IInv
  <2>3. ~config.Loaded /\ AllDefault
    BY <2>1, <2>2 DEF Where
  <2>4. AllDefault'
    BY <2>1, <2>3 DEF AllDefault
  <2>5. Where'
    BY <2>1, <2>3, <2>4 DEF Where
  <2> QED BY <2>1, <2>5 DEF IInv
<1>2. CASE GpuConfigLoad
  BY <1>2, LoadKeeps
<1>3. CASE SkipMark
  BY <1>3, SkipKeeps
<1>4. CASE RejectUtf16
  BY <1>4, RejectKeeps
<1>5. CASE ParseLine
  BY <1>5, ParseLineKeeps
<1>6. CASE EndOfText
  BY <1>6, EndKeeps
<1>7. CASE UNCHANGED vars
  <2>1. file' = file /\ text' = text /\ pos' = pos /\ config' = config /\ pc' = pc
    BY <1>7 DEF vars
  <2>2. Where'
    <3>1. Where
      BY DEF IInv
    <3>2. AllDefault' <=> AllDefault
      BY <2>1 DEF AllDefault
    <3>3. TextIs' <=> TextIs
      BY <2>1 DEF TextIs
    <3>4. \A k : (AfterLine(k)' <=> AfterLine(k)) /\ (InCut(k)' <=> InCut(k))
                 /\ (AtEnd(k)' <=> AtEnd(k))
      BY <2>1 DEF AfterLine, InCut, AtEnd
    <3> QED BY <2>1, <3>1, <3>2, <3>3, <3>4 DEF Where
  <2> QED BY <2>1, <2>2 DEF IInv
<1> QED BY <1>1, <1>2, <1>3, <1>4, <1>5, <1>6, <1>7 DEF Next, Done

(* The invariant holds throughout. *)
LEMMA Invariant == Spec => []IInv
  BY InitHolds, NextKeeps, PTL DEF Spec

-----------------------------------------------------------------------------
(* The fields keep their types at every step of every file's pass: no      *)
(* sequence of lines takes an ID past 16 bits, the delay to nothing or     *)
(* past an hour, the path past what it is kept in, or the position past    *)
(* the byte behind the text (GpuConfig.c, ParseHex16, ParseDec, ParseBuffer). *)
THEOREM ConfigTypes == Spec => []TypeOK
<1>1. IInv => TypeOK
  BY DEF IInv, Config, Flags, TypeOK
<1> QED BY <1>1, Invariant, PTL

(* For files of any number of lines, of any length, with anything in their *)
(* values, cut by the limit anywhere: when ParseBuffer is done, each key   *)
(* has what the last good line for it means, or its default, whatever      *)
(* stands around that line; the line that is cut is all that is in doubt.  *)
THEOREM LastGoodSettingIsInForce == Spec => []LastGoodSettingWins
<1>1. IInv => LastGoodSettingWins
  <2> SUFFICES ASSUME IInv, pc = "done" PROVE LastGoodSettingWins
    BY DEF LastGoodSettingWins
  <2> DEFINE n == Len(file.lines)
             Last1(k) == (k = 0 \/ ReadWhole(file, k)) /\ (k = n \/ ~ReadWhole(file, k + 1))
             c == CHOOSE k \in 0 .. n : Last1(k)
             read == config.Loaded /\ config.Encoding = "ok"
             Good(key) == {i \in Settings(file, key) : read /\ i =< c}
             Mean(key) == IF Good(key) = {} THEN InForce(GpuConfigSetDefaults, key)
                          ELSE LET last == CHOOSE i \in Good(key) : \A j \in Good(key) : j =< i
                               IN  Meaning(key, file.lines[last].val)
             Cut(key) == read /\ c < n /\ file.lines[c + 1].key = key
  <2>1. file \in Files /\ Where
    BY DEF IInv
  <2>2. \/ ~config.Loaded /\ AllDefault
        \/ config.Loaded /\ config.Encoding # "ok" /\ AllDefault /\ file.mark = "UTF-16"
        \/ /\ config.Loaded /\ config.Encoding = "ok"
           /\ Bytes(file) # <<>> /\ file.mark # "UTF-16"
           /\ \E k \in 0 .. n : Reached(file, k) /\ AtEnd(k)
    BY <2>1 DEF Where
  <2>3. \A key \in Keys : Cut(key) \/ InForce(config, key) = Mean(key)
    <3>1. CASE ~read
      <4>1. AllDefault
        BY <2>2, <3>1
      <4>2. \A key : Good(key) = {}
        BY <3>1
      <4>3. \A key : Mean(key) = InForce(GpuConfigSetDefaults, key)
        BY <4>2
      <4> HIDE DEF Mean
      <4> QED BY <4>1, <4>3 DEF AllDefault
    <3>2. CASE read
      <4>1. PICK k \in 0 .. n : Reached(file, k) /\ AtEnd(k)
        BY <2>2, <3>2
      <4>2. n \in Nat
        BY <2>1, FileIs
      <4>3. Bytes(file) # <<>>
        BY <2>2, <3>2
      <4>4. \A j \in 0 .. n : (j = 0 \/ ReadWhole(file, j)) <=> Reached(file, j)
        <5>1. \A j \in 0 .. n : j = 0 \/ j \in 1 .. n
          BY <4>2
        <5> QED BY <2>1, <4>3, <5>1, ReachedIs
      <4>5. \A j \in 0 .. n : j # n => j + 1 \in 1 .. n /\ j + 1 \in 0 .. n
        <5> HIDE DEF n
        <5> QED BY <4>2
      <4>6. \A j \in 0 .. n : Last1(j) <=> Reached(file, j) /\ (j = n \/ ~Reached(file, j + 1))
        BY <2>1, <4>4, <4>5, ReachedIs
      <4>7. Last1(k)
        BY <4>1, <4>6 DEF AtEnd
      <4>8. ASSUME NEW j \in 0 .. n, Last1(j) PROVE j = k
        <5>1. Reached(file, j) /\ (j = n \/ ~Reached(file, j + 1))
          BY <4>6, <4>8
        <5>2. Reached(file, k) /\ (k = n \/ ~Reached(file, k + 1))
          BY <4>6, <4>7
        <5>3. \A a \in 0 .. n, b \in 0 .. n : a =< b /\ Reached(file, b) => Reached(file, a)
          BY <2>1, ReachedIs
        <5> HIDE DEF n, Last1
        <5>4. ~(j < k)
          <6>1. j < k => j # n /\ j + 1 =< k /\ j + 1 \in 0 .. n
            BY <4>2
          <6> QED BY <5>1, <5>2, <5>3, <6>1
        <5>5. ~(k < j)
          <6>1. k < j => k # n /\ k + 1 =< j /\ k + 1 \in 0 .. n
            BY <4>2
          <6> QED BY <5>1, <5>2, <5>3, <6>1
        <5> QED BY <4>2, <5>4, <5>5
      <4> HIDE DEF Last1
      <4>9. c = k
        BY <4>7, <4>8
      <4> HIDE DEF c
      <4>10. \A key : Good(key) = GoodUpTo(file, key, k)
        BY <3>2, <4>9 DEF GoodUpTo
      <4>11. \A key : Mean(key) = LastGood(file, key, k)
        <5> DEFINE OfLast(G, key) ==
                     IF G = {} THEN InForce(GpuConfigSetDefaults, key)
                     ELSE LET last == CHOOSE i \in G : \A j \in G : j =< i
                          IN  Meaning(key, file.lines[last].val)
        <5> TAKE key
        <5>1. Mean(key) = OfLast(Good(key), key)
          OBVIOUS
        <5>2. LastGood(file, key, k) = OfLast(GoodUpTo(file, key, k), key)
          BY DEF LastGood
        <5> HIDE DEF Good, Mean, OfLast
        <5> QED BY <4>10, <5>1, <5>2
      <4> HIDE DEF Mean
      <4> QED BY <3>2, <4>1, <4>9, <4>11 DEF AtEnd
    <3> QED BY <3>1, <3>2
  <2>4. config.Loaded => (file.mark = "UTF-16") = (config.Encoding # "ok")
    BY <2>2
  <2> QED BY <2>3, <2>4, Zenon DEF LastGoodSettingWins
<1> QED BY <1>1, Invariant, PTL
=============================================================================
