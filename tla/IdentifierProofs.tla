-------------------------- MODULE IdentifierProofs --------------------------
(***************************************************************************)
(* What the check digits detect and what the generators make, for numbers  *)
(* of every digit.                                                         *)
(***************************************************************************)
EXTENDS Identifiers, ListProofs

\* The states of the loop of Mod and of Total.
ModRun(f, digits) ==
  /\ f[0] = 0
  /\ \A n \in 1 .. Len(digits) : f[n] = (10 * f[n - 1] + digits[n]) % 97
  /\ \A n \in 0 .. Len(digits) : f[n] \in 0 .. 96
TotalRun(f, terms) ==
  /\ f[0] = 0
  /\ \A n \in 1 .. Len(terms) : f[n] = f[n - 1] + terms[n]
  /\ \A n \in 0 .. Len(terms) : f[n] \in Int

LEMMA ModLoops ==
  ASSUME NEW digits \in Seq(Nat)
  PROVE  \E f : ModRun(f, digits) /\ Mod(digits, 97) = f[Len(digits)]
<1> DEFINE l == Len(digits)
           X == 0 .. 96
           F == [q \in X \X (1 .. l) |-> (10 * q[1] + digits[q[2]]) % 97]
           run(f) == [n \in 0 .. l |-> IF n = 0 THEN 0 ELSE (10 * f[n - 1] + digits[n]) % 97]
           state == CHOOSE f : f = run(f)
<1>1. l \in Nat /\ 0 \in X
  OBVIOUS
<1>2. Mod(digits, 97) = state[l]
  BY DEF Mod, Loop
<1>3. \A x \in X, n \in 1 .. l : (10 * x + digits[n]) % 97 \in X
  <2> SUFFICES ASSUME NEW x \in X, NEW n \in 1 .. l PROVE (10 * x + digits[n]) % 97 \in X
    OBVIOUS
  <2>1. PICK d \in Nat : d = digits[n]
    OBVIOUS
  <2>2. PICK y \in Int : y = 10 * x + d
    OBVIOUS
  <2>3. y % 97 \in 0 .. 96
    OBVIOUS
  <2> QED BY <2>1, <2>2, <2>3
<1> HIDE DEF X, l
<1>4. F \in [X \X (1 .. l) -> X]
  BY <1>3
<1>5. \E f : f = run(f)
  <2>1. PICK f : IsRun(f, X, 0, l, F)
    <3> HIDE DEF F
    <3> QED BY <1>1, <1>4, Recursion
  <2>2. f \in [0 .. l -> X] /\ f[0] = 0
    BY <2>1 DEF IsRun
  <2>3. ASSUME NEW n \in 1 .. l PROVE f[n] = (10 * f[n - 1] + digits[n]) % 97
    <3>1. f[n] = F[<<f[n - 1], n>>]
      BY <2>1 DEF IsRun
    <3>2. n - 1 \in 0 .. l
      BY <1>1
    <3>3. f[n - 1] \in X
      BY <2>2, <3>2
    <3> QED BY <3>1, <3>3
  <2>4. f = run(f)
    BY <1>1, <2>2, <2>3
  <2> QED BY <2>4
<1>6. state = run(state)
  BY <1>5
<1> HIDE DEF state
<1>7. state[0] = 0 /\ \A n \in 1 .. l : state[n] = (10 * state[n - 1] + digits[n]) % 97
  BY <1>1, <1>6
<1>8. \A n \in 0 .. l : state[n] \in X
  <2>1. \A n \in 1 .. l : state[n - 1] \in X => state[n] \in X
    BY <1>3, <1>7
  <2>2. state[0] \in X
    BY <1>1, <1>7
  <2> QED BY <1>1, <2>1, <2>2, RunStays
<1> QED BY <1>2, <1>7, <1>8 DEF X, l, ModRun

LEMMA TotalLoops ==
  ASSUME NEW terms \in Seq(Int)
  PROVE  \E f : TotalRun(f, terms) /\ Total(terms) = f[Len(terms)]
<1> DEFINE l == Len(terms)
           X == Int
           F == [q \in X \X (1 .. l) |-> q[1] + terms[q[2]]]
           run(f) == [n \in 0 .. l |-> IF n = 0 THEN 0 ELSE f[n - 1] + terms[n]]
           state == CHOOSE f : f = run(f)
<1>1. l \in Nat /\ 0 \in X
  OBVIOUS
<1>2. Total(terms) = state[l]
  BY DEF Total, Loop
<1>3. \A x \in X, n \in 1 .. l : x + terms[n] \in X
  OBVIOUS
<1> HIDE DEF l, X
<1>4. F \in [X \X (1 .. l) -> X]
  BY <1>3
<1>5. \E f : f = run(f)
  <2>1. PICK f : IsRun(f, X, 0, l, F)
    <3> HIDE DEF F
    <3> QED BY <1>1, <1>4, Recursion
  <2>2. f \in [0 .. l -> X] /\ f[0] = 0
    BY <2>1 DEF IsRun
  <2>3. ASSUME NEW n \in 1 .. l PROVE f[n] = f[n - 1] + terms[n]
    <3>1. f[n] = F[<<f[n - 1], n>>]
      BY <2>1 DEF IsRun
    <3>2. n - 1 \in 0 .. l
      BY <1>1
    <3>3. f[n - 1] \in X
      BY <2>2, <3>2
    <3> QED BY <3>1, <3>3
  <2>4. f = run(f)
    BY <1>1, <2>2, <2>3
  <2> QED BY <2>4
<1>6. state = run(state)
  BY <1>5
<1> HIDE DEF state
<1>7. state[0] = 0 /\ \A n \in 1 .. l : state[n] = state[n - 1] + terms[n]
  BY <1>1, <1>6
<1>8. \A n \in 0 .. l : state[n] \in X
  <2>1. \A n \in 1 .. l : state[n - 1] \in X => state[n] \in X
    BY <1>3, <1>7
  <2>2. state[0] \in X
    BY <1>1, <1>7
  <2> QED BY <1>1, <2>1, <2>2, RunStays
<1> QED BY <1>2, <1>7, <1>8 DEF X, l, TotalRun

-----------------------------------------------------------------------------
\* As long as the digits are the same, remainders modulo 97 that are equal stay
\* equal and ones that differ stay different: ten is invertible.
Same(d, e, a, b) ==
  /\ a \in 0 .. Len(d) /\ b \in a .. Len(d)
  /\ \A n \in a + 1 .. b : d[n] = e[n]

LEMMA RemaindersKept ==
  ASSUME NEW d \in Seq(Digit), NEW e \in Seq(Digit), Len(d) = Len(e),
         NEW f, NEW g, ModRun(f, d), ModRun(g, e),
         NEW a, NEW b, Same(d, e, a, b)
  PROVE  f[a] = g[a] <=> f[b] = g[b]
<1>0. a \in 0 .. Len(d) /\ b \in a .. Len(d) /\ \A n \in a + 1 .. b : d[n] = e[n]
  BY DEF Same
<1> DEFINE T == {k \in Nat : a + k <= b => (f[a] = g[a] <=> f[a + k] = g[a + k])}
<1>1. 0 \in T
  BY <1>0
<1>2. ASSUME NEW k \in T PROVE k + 1 \in T
  <2> SUFFICES ASSUME a + k + 1 <= b
               PROVE  f[a + k] = g[a + k] <=> f[a + k + 1] = g[a + k + 1]
    BY <1>0
  <2>1. PICK n : n = a + k + 1 /\ n \in a + 1 .. b /\ n \in 1 .. Len(d) /\ n - 1 = a + k /\ n - 1 \in 0 .. Len(d)
    BY <1>0
  <2>2. PICK x, y, z : x = f[n - 1] /\ y = g[n - 1] /\ z = d[n]
    OBVIOUS
  <2>3. x \in 0 .. 96 /\ y \in 0 .. 96 /\ z \in 0 .. 9
    BY <2>1, <2>2 DEF ModRun, Digit
  <2>4. f[n] = (10 * x + z) % 97 /\ g[n] = (10 * y + z) % 97
    BY <1>0, <2>1, <2>2 DEF ModRun
  <2>5. (10 * x + z) % 97 = (10 * y + z) % 97 <=> x = y
    <3> SUFFICES ASSUME (10 * x + z) % 97 = (10 * y + z) % 97 PROVE x = y
      OBVIOUS
    <3>1. PICK u, v : u = (10 * x + z) \div 97 /\ v = (10 * y + z) \div 97
      OBVIOUS
    <3>2. u \in 0 .. 9 /\ v \in 0 .. 9
      BY <2>3, <3>1
    <3>3. 10 * (x - y) = 97 * (u - v)
      BY <2>3, <3>1
    <3> QED BY <2>3, <3>2, <3>3
  <2> QED BY <2>1, <2>2, <2>4, <2>5
<1> HIDE DEF T
<1>3. T = Nat
  <2>1. T \in SUBSET Nat
    BY DEF T
  <2> QED BY <1>1, <1>2, <2>1, SetInduction
<1>4. b - a \in T
  BY <1>0, <1>3
<1> QED BY <1>0, <1>4 DEF T

\* Arithmetic of one wrong digit and of two swapped ones.
LEMMA Quotient ==
  ASSUME NEW n \in Nat, NEW y, y = n % 97
  PROVE  \E q \in Int : n = 97 * q + y /\ y \in 0 .. 96
  OBVIOUS

Remainder == 0 .. 96
Takes(x, r, a) == x = (10 * r + a) % 97
Leaves(x, r, a) == \E q \in Int : 10 * r + a = 97 * q + x

LEMMA Taken ==
  ASSUME NEW r \in Remainder, NEW a \in Digit, NEW x, Takes(x, r, a)
  PROVE  x \in Remainder /\ Leaves(x, r, a)
<1>1. PICK n \in Nat : n = 10 * r + a
  BY DEF Remainder, Digit
<1>2. x = n % 97
  BY <1>1 DEF Takes
<1> QED BY <1>1, <1>2, Quotient, ZenonT(30) DEF Remainder, Leaves

LEMMA DigitShows ==
  ASSUME NEW r \in Remainder, NEW a \in Digit, NEW b \in Digit, a # b,
         NEW x, Takes(x, r, a), NEW y, Takes(y, r, b)
  PROVE  x # y
<1> SUFFICES ASSUME x = y PROVE FALSE
  OBVIOUS
<1>1. x \in Remainder /\ Leaves(x, r, a) /\ Leaves(y, r, b)
  BY Taken
<1>2. PICK p \in Int, q \in Int : 10 * r + a = 97 * p + x /\ 10 * r + b = 97 * q + y
  BY <1>1 DEF Leaves
<1>3. a - b = 97 * (p - q)
  BY <1>1, <1>2 DEF Remainder, Digit
<1> QED BY <1>3 DEF Digit

LEMMA SwapShows ==
  ASSUME NEW r \in Remainder, NEW a \in Digit, NEW b \in Digit, a # b,
         NEW u, Takes(u, r, a), NEW v, Takes(v, r, b), NEW x, Takes(x, u, b), NEW y, Takes(y, v, a)
  PROVE  x # y
<1> SUFFICES ASSUME x = y PROVE FALSE
  OBVIOUS
<1>1. u \in Remainder /\ v \in Remainder /\ Leaves(u, r, a) /\ Leaves(v, r, b)
  BY Taken
<1>2. x \in Remainder /\ Leaves(x, u, b) /\ Leaves(y, v, a)
  BY <1>1, Taken
<1>3. PICK p \in Int, q \in Int : 10 * r + a = 97 * p + u /\ 10 * r + b = 97 * q + v
  BY <1>1 DEF Leaves
<1>4. PICK s \in Int, t \in Int : 10 * u + b = 97 * s + x /\ 10 * v + a = 97 * t + y
  BY <1>2 DEF Leaves
<1>5. PICK k \in Int : k = 10 * p - 10 * q + s - t
  OBVIOUS
<1>6. 9 * (a - b) = 97 * k
  BY <1>1, <1>2, <1>3, <1>4, <1>5 DEF Remainder, Digit
<1> QED BY <1>6 DEF Digit

LEMMA KeySwapShows ==
  ASSUME NEW r \in Remainder, NEW a \in Digit, NEW b \in Digit, a # b, NEW e \in Digit, NEW o, o = 0,
         NEW u, Takes(u, r, a), NEW w, Takes(w, u, o), NEW x, Takes(x, w, o),
         NEW v, Takes(v, r, b), NEW z, Takes(z, v, o), NEW y, Takes(y, z, o),
         10 * b + e = 97 - x, 10 * a + e = 97 - y
  PROVE  FALSE
<1>0. o \in Digit
  BY DEF Digit
<1>1. u \in Remainder /\ v \in Remainder /\ Leaves(u, r, a) /\ Leaves(v, r, b)
  BY Taken
<1>2. w \in Remainder /\ z \in Remainder /\ Leaves(w, u, o) /\ Leaves(z, v, o)
  BY <1>0, <1>1, Taken
<1>3. x \in Remainder /\ y \in Remainder /\ Leaves(x, w, o) /\ Leaves(y, z, o)
  BY <1>0, <1>2, Taken
<1>4. PICK p \in Int, q \in Int : 10 * r + a = 97 * p + u /\ 10 * r + b = 97 * q + v
  BY <1>1 DEF Leaves
<1>5. PICK s \in Int, t \in Int : 10 * u + o = 97 * s + w /\ 10 * v + o = 97 * t + z
  BY <1>2 DEF Leaves
<1>6. PICK m \in Int, n \in Int : 10 * w + o = 97 * m + x /\ 10 * z + o = 97 * n + y
  BY <1>3 DEF Leaves
<1>7. PICK k \in Int : k = 100 * (p - q) + 10 * (s - t) + m - n
  OBVIOUS
<1>8. 100 * (a - b) = 97 * k + (x - y)
  BY <1>1, <1>2, <1>3, <1>4, <1>5, <1>6, <1>7 DEF Remainder, Digit
<1>9. 90 * (a - b) = 97 * k
  BY <1>3, <1>8 DEF Remainder, Digit
<1> QED BY <1>9 DEF Digit

Number(n) == [1 .. n -> Digit]

LEMMA ListOf == ASSUME NEW n \in Nat, NEW S, NEW x \in [1 .. n -> S] PROVE x \in Seq(S) /\ Len(x) = n
  OBVIOUS

LEMMA NumberLists == ASSUME NEW n \in Nat, NEW x \in Number(n) PROVE x \in Seq(Digit) /\ Len(x) = n
  BY DEF Number

\* What the key check of an account number computes: c is the body with two zeros
\* behind it, f the remainders of its beginnings.
KeyCheck(rib, c, f) ==
  /\ c \in Seq(Digit) /\ Len(c) = 20
  /\ \A n \in 1 .. 18 : c[n] = rib[n]
  /\ c[19] = 0 /\ c[20] = 0
  /\ ModRun(f, c)
  /\ _rib_key_valid(rib) <=> 10 * rib[19] + rib[20] = 97 - f[20]

LEMMA KeyChecks ==
  ASSUME NEW rib \in Number(20)
  PROVE  \E c, f : KeyCheck(rib, c, f)
<1>1. rib \in Seq(Digit) /\ Len(rib) = 20 /\ \A n \in 1 .. 20 : rib[n] \in Digit
  <2>1. rib \in Seq(Digit) /\ Len(rib) = 20
    BY NumberLists
  <2> QED BY <2>1 DEF Number
<1>2. PICK body : body = SubSeq(rib, 1, 18)
  OBVIOUS
<1>3. body \in Seq(Digit) /\ Len(body) = 18 /\ \A n \in 1 .. 18 : body[n] = rib[n]
  BY <1>1, <1>2, SubSeqProperties
<1>4. PICK z : z = Zeros(2) /\ z \in Seq(Digit) /\ Len(z) = 2 /\ z[1] = 0 /\ z[2] = 0
  <2>1. PICK z : z = Zeros(2)
    OBVIOUS
  <2>2. z \in Number(2) /\ z[1] = 0 /\ z[2] = 0
    BY <2>1 DEF Zeros, Number, Digit
  <2> QED BY <2>1, <2>2, NumberLists
<1>5. PICK c : c = body \o z
  OBVIOUS
<1>6. /\ c \in Seq(Digit) /\ Len(c) = 20
      /\ \A n \in 1 .. 18 : c[n] = rib[n]
      /\ c[19] = 0 /\ c[20] = 0
  <2>1. /\ c \in Seq(Digit) /\ Len(c) = Len(body) + Len(z)
        /\ \A n \in 1 .. Len(body) + Len(z) : c[n] = IF n <= Len(body) THEN body[n] ELSE z[n - Len(body)]
    <3>1. body \in Seq(Digit) /\ z \in Seq(Digit)
      BY <1>3, <1>4
    <3> QED BY <1>5, <3>1, ConcatProperties, Zenon
  <2>2. Len(c) = 20 /\ \A n \in 1 .. 20 : c[n] = IF n <= 18 THEN body[n] ELSE z[n - 18]
    <3>1. Len(body) = 18
      BY <1>3
    <3>2. Len(z) = 2
      BY <1>4
    <3>3. Len(body) + Len(z) = 20
      BY <3>1, <3>2
    <3> QED BY <2>1, <3>1, <3>3
  <2>3. c[19] = z[1] /\ c[20] = z[2] /\ \A n \in 1 .. 18 : c[n] = body[n]
    BY <2>2
  <2> QED BY <1>3, <1>4, <2>1, <2>2, <2>3
<1>7. PICK f : ModRun(f, c) /\ Mod(c, 97) = f[20]
  <2>1. c \in Seq(Nat)
    BY <1>6, SMTT(30) DEF Digit
  <2> QED BY <1>6, <2>1, ModLoops, ZenonT(30)
<1>8. f[20] \in 0 .. 96
  BY <1>6, <1>7 DEF ModRun
<1>9. PICK key : key = 97 - f[20] /\ key \in 1 .. 97
  BY <1>8
<1>10. RibKey(body) = key
  BY <1>4, <1>5, <1>7, <1>9 DEF RibKey
<1>11. PICK t : t = SubSeq(rib, 19, 20)
  OBVIOUS
<1>12. t \in Seq(Digit) /\ Len(t) = 2 /\ t[1] = rib[19] /\ t[2] = rib[20]
  BY <1>1, <1>11, SubSeqProperties
<1>13. _rib_key_valid(rib) <=> t = <<key \div 10, key % 10>>
  BY <1>1, <1>2, <1>10, <1>11 DEF _rib_key_valid, RIB_DIGITS, RIB_BODY, TwoDigits
<1>14. t = <<key \div 10, key % 10>> <=> t[1] = key \div 10 /\ t[2] = key % 10
  BY <1>12
<1>15. PICK a \in 0 .. 9, b \in 0 .. 9 : a = rib[19] /\ b = rib[20]
  BY <1>1 DEF Digit
<1>16. a = key \div 10 /\ b = key % 10 <=> 10 * a + b = key
  BY <1>9
<1> QED BY <1>6, <1>7, <1>9, <1>12, <1>13, <1>14, <1>15, <1>16 DEF KeyCheck

\* An account number with one digit wrong, or two neighbours swapped, has a wrong
\* key.
LEMMA MistypedFails ==
  ASSUME NEW rib \in Number(20), _rib_key_valid(rib), NEW other \in Mistyped(rib), other # rib
  PROVE  ~_rib_key_valid(other)
<1>1. DOMAIN rib = 1 .. 20 /\ Len(rib) = 20 /\ \A n \in 1 .. 20 : rib[n] \in 0 .. 9
  BY DEF Number, Digit
<1>2. \/ \E i \in 1 .. 20, x \in 0 .. 9 : other = [rib EXCEPT ![i] = x]
      \/ \E k \in 1 .. 19 : other = [rib EXCEPT ![k] = rib[k + 1], ![k + 1] = rib[k]]
  BY <1>1 DEF Mistyped, Digit
<1>3. other \in Number(20)
  BY <1>1, <1>2 DEF Number, Digit
<1>4. PICK c, f : KeyCheck(rib, c, f)
  BY KeyChecks
<1>5. PICK d, g : KeyCheck(other, d, g)
  BY <1>3, KeyChecks
<1>6. c \in Seq(Digit) /\ Len(c) = 20 /\ ModRun(f, c) /\ d \in Seq(Digit) /\ Len(d) = 20 /\ ModRun(g, d)
  BY <1>4, <1>5 DEF KeyCheck
<1>7. \A n \in 1 .. 18 : c[n] = rib[n] /\ d[n] = other[n]
  BY <1>4, <1>5 DEF KeyCheck
<1>8. c[19] = 0 /\ c[20] = 0 /\ d[19] = 0 /\ d[20] = 0
  BY <1>4, <1>5 DEF KeyCheck
<1>9. 10 * rib[19] + rib[20] = 97 - f[20]
  BY <1>4 DEF KeyCheck
<1> SUFFICES ASSUME 10 * other[19] + other[20] = 97 - g[20] PROVE FALSE
  BY <1>5 DEF KeyCheck
<1>10. f[0] = g[0] /\ \A n \in 0 .. 20 : f[n] \in 0 .. 96 /\ g[n] \in 0 .. 96
  BY <1>6 DEF ModRun
<1>11. \A n \in 1 .. 20 : f[n] = (10 * f[n - 1] + c[n]) % 97 /\ g[n] = (10 * g[n - 1] + d[n]) % 97
  BY <1>6 DEF ModRun
<1>12. ASSUME NEW a \in 0 .. 20, NEW b \in a .. 20, \A n \in a + 1 .. b : c[n] = d[n]
       PROVE  f[a] = g[a] <=> f[b] = g[b]
  <2>1. Len(c) = Len(d)
    BY <1>6
  <2>2. Same(c, d, a, b)
    BY <1>6, <1>12 DEF Same
  <2> QED BY <1>6, <2>1, <2>2, RemaindersKept, SMTT(30)
<1>13. f[20] \in 0 .. 96 /\ g[20] \in 0 .. 96 /\ rib[19] \in 0 .. 9 /\ rib[20] \in 0 .. 9
  BY <1>1, <1>10
<1>14. \A n \in 1 .. 20 : (n \in 1 .. 18 => other[n] = rib[n]) => c[n] = d[n]
  <2>1. \A n \in 1 .. 20 : n \in 1 .. 18 \/ n = 19 \/ n = 20
    OBVIOUS
  <2> QED BY <1>7, <1>8, <2>1
<1> HIDE DEF Digit, Number, KeyCheck
<1>15. ASSUME NEW i \in 1 .. 20, NEW x \in 0 .. 9, other = [rib EXCEPT ![i] = x] PROVE FALSE
  <2>1. other[i] = x /\ \A n \in 1 .. 20 : n # i => other[n] = rib[n]
    BY <1>1, <1>15
  <2>2. x # rib[i]
    <3>1. x = rib[i] => \A n \in 1 .. 20 : other[n] = rib[n]
      BY <2>1
    <3> QED BY <1>3, <3>1 DEF Number
  <2>3. CASE i \in 1 .. 18
    <3>1. f[i - 1] = g[i - 1]
      <4>1. \A n \in 0 + 1 .. i - 1 : c[n] = d[n]
        BY <1>14, <2>1
      <4> QED BY <1>10, <1>12, <4>1
    <3>0. i - 1 \in 0 .. 20
      BY <2>3
    <3>a. f[i - 1] \in 0 .. 96 /\ rib[i] \in 0 .. 9
      BY <1>1, <1>10, <3>0
    <3>2. PICK r \in 0 .. 96, a \in 0 .. 9 : r = f[i - 1] /\ a = rib[i]
      BY <3>a
    <3>3. f[i] = (10 * r + a) % 97 /\ g[i] = (10 * r + x) % 97
      BY <1>7, <1>11, <2>1, <2>3, <3>1, <3>2
    <3>4. f[i] # g[i]
      <4>1. PICK u, v : u = f[i] /\ v = g[i]
        OBVIOUS
      <4>2. Takes(u, r, a) /\ Takes(v, r, x) /\ a # x /\ r \in Remainder /\ a \in Digit /\ x \in Digit
        BY <2>2, <3>2, <3>3, <4>1 DEF Takes, Remainder, Digit
      <4>3. u # v
        BY <4>2, DigitShows
      <4> QED BY <4>1, <4>3
    <3>5. f[20] # g[20]
      <4>1. \A n \in i + 1 .. 20 : c[n] = d[n]
        BY <1>14, <2>1
      <4> QED BY <1>12, <3>4, <4>1
    <3>6. other[19] = rib[19] /\ other[20] = rib[20]
      BY <2>1, <2>3
    <3> QED BY <1>9, <1>13, <3>5, <3>6, SMTT(30)
  <2>4. CASE i = 19 \/ i = 20
    <3>1. f[20] = g[20]
      <4>1. \A n \in 0 + 1 .. 20 : c[n] = d[n]
        BY <1>14, <2>1, <2>4
      <4> QED BY <1>10, <1>12, <4>1
    <3>2. 10 * other[19] + other[20] # 10 * rib[19] + rib[20]
      <4>1. CASE i = 19
        <5>1. other[19] = x /\ x # rib[19] /\ other[20] = rib[20]
          BY <2>1, <2>2, <4>1
        <5> QED BY <1>13, <5>1
      <4>2. CASE i = 20
        <5>1. other[20] = x /\ x # rib[20] /\ other[19] = rib[19]
          BY <2>1, <2>2, <4>2
        <5> QED BY <1>13, <5>1
      <4> QED BY <2>4, <4>1, <4>2
    <3> QED BY <1>9, <1>13, <3>1, <3>2
  <2> QED BY <2>3, <2>4
<1>16. ASSUME NEW k \in 1 .. 19, other = [rib EXCEPT ![k] = rib[k + 1], ![k + 1] = rib[k]] PROVE FALSE
  <2>1. PICK a \in 0 .. 9, b \in 0 .. 9 : a = rib[k] /\ b = rib[k + 1]
    BY <1>1
  <2>2. other[k] = b /\ other[k + 1] = a /\ \A n \in 1 .. 20 : n # k /\ n # k + 1 => other[n] = rib[n]
    BY <1>1, <1>16, <2>1
  <2>3. a # b
    <3>1. a = b => \A n \in 1 .. 20 : other[n] = rib[n]
      BY <2>1, <2>2
    <3> QED BY <1>3, <3>1 DEF Number
  <2>4. CASE k # 19
    <3>1. k \in 1 .. 18 /\ k - 1 \in 0 .. 20
      BY <2>4
    <3>2. f[k - 1] = g[k - 1]
      <4>1. \A n \in 0 + 1 .. k - 1 : c[n] = d[n]
        BY <1>14, <2>2
      <4> QED BY <1>10, <1>12, <3>1, <4>1
    <3>3. PICK r \in 0 .. 96 : r = f[k - 1]
      BY <1>10, <3>1
    <3>4. f[k] = (10 * r + a) % 97 /\ g[k] = (10 * r + b) % 97
      BY <1>7, <1>11, <2>1, <2>2, <3>1, <3>2, <3>3
    <3>5. CASE k # 18
      <4>1. k + 1 \in 1 .. 18
        BY <3>1, <3>5
      <4>2. f[k + 1] = (10 * f[k] + b) % 97 /\ g[k + 1] = (10 * g[k] + a) % 97
        BY <1>7, <1>11, <2>1, <2>2, <4>1
      <4>3. f[k + 1] # g[k + 1]
        <5>1. PICK u, v, x, y : u = f[k] /\ v = g[k] /\ x = f[k + 1] /\ y = g[k + 1]
          OBVIOUS
        <5>2. Takes(u, r, a) /\ Takes(v, r, b) /\ Takes(x, u, b) /\ Takes(y, v, a)
          BY <3>4, <4>2, <5>1 DEF Takes
        <5>3. r \in Remainder /\ a \in Digit /\ b \in Digit
          BY DEF Remainder, Digit
        <5>4. x # y
          BY <2>3, <5>2, <5>3, SwapShows
        <5> QED BY <5>1, <5>4
      <4>4. f[20] # g[20]
        <5>1. \A n \in (k + 1) + 1 .. 20 : c[n] = d[n]
          BY <1>14, <2>2
        <5> QED BY <1>12, <4>1, <4>3, <5>1
      <4>5. other[19] = rib[19] /\ other[20] = rib[20]
        BY <2>2, <4>1
      <4> QED BY <1>9, <1>13, <4>4, <4>5, SMTT(30)
    <3>6. CASE k = 18
      <4>0. PICK o : o = 0
        OBVIOUS
      <4>1. PICK u, v, w, z : u = f[18] /\ v = g[18] /\ w = f[19] /\ z = g[19]
        OBVIOUS
      <4>2. u \in 0 .. 96 /\ v \in 0 .. 96 /\ w \in 0 .. 96 /\ z \in 0 .. 96
        BY <1>10, <4>1
      <4>3. PICK x, y : x = f[20] /\ y = g[20]
        OBVIOUS
      <4>4. Takes(u, r, a) /\ Takes(v, r, b)
        BY <3>4, <3>6, <4>1 DEF Takes
      <4>5. Takes(w, u, o) /\ Takes(z, v, o)
        BY <4>0, <1>8, <1>11, <4>1, 19 \in 1 .. 20, 19 - 1 = 18 DEF Takes
      <4>6. Takes(x, w, o) /\ Takes(y, z, o)
        BY <4>0, <1>8, <1>11, <4>1, <4>3, 20 \in 1 .. 20, 20 - 1 = 19 DEF Takes
      <4>7. PICK e \in 0 .. 9 : rib[20] = e /\ other[20] = e
        BY <1>13, <2>2, <3>6
      <4>8. 10 * b + e = 97 - x /\ 10 * a + e = 97 - y
        BY <1>9, <2>1, <2>2, <3>6, <4>3, <4>7
      <4>9. r \in Remainder /\ a \in Digit /\ b \in Digit /\ e \in Digit
        BY DEF Remainder, Digit
      <4> QED BY <2>3, <4>0, <4>4, <4>5, <4>6, <4>8, <4>9, KeySwapShows
    <3> QED BY <3>5, <3>6
  <2>5. CASE k = 19
    <3>1. f[20] = g[20]
      <4>1. \A n \in 0 + 1 .. 20 : c[n] = d[n]
        BY <1>14, <2>2, <2>5
      <4> QED BY <1>10, <1>12, <4>1
    <3>2. 10 * b + a # 10 * a + b
      BY <2>3
    <3> QED BY <1>9, <1>13, <2>1, <2>2, <2>5, <3>1, <3>2
  <2> QED BY <2>4, <2>5
<1> QED BY <1>2, <1>15, <1>16

\* A generated account number has a valid key.
LEMMA RibForValid ==
  ASSUME NEW body \in Number(18)
  PROVE  _rib_key_valid(_rib_for(body))
<1>1. body \in Seq(Digit) /\ Len(body) = 18
  BY NumberLists
<1>2. PICK z : z = Zeros(2) /\ z \in Seq(Nat)
  <2>1. PICK z : z = Zeros(2)
    OBVIOUS
  <2>2. z \in Number(2)
    BY <2>1 DEF Zeros, Number, Digit
  <2>3. z \in Seq(Digit)
    BY <2>2, NumberLists
  <2> QED BY <2>1, <2>3 DEF Digit
<1>3. PICK c : c = body \o z
  OBVIOUS
<1>4. c \in Seq(Nat)
  <2>1. body \in Seq(Nat)
    BY <1>1 DEF Digit
  <2> QED BY <1>2, <1>3, <2>1, ConcatProperties
<1>5. PICK f : ModRun(f, c) /\ Mod(c, 97) = f[Len(c)]
  BY <1>4, ModLoops
<1>6. PICK r \in 0 .. 96 : Mod(c, 97) = r
  <2>1. Len(c) \in 0 .. Len(c)
    BY <1>4
  <2>2. f[Len(c)] \in 0 .. 96
    BY <1>5, <2>1 DEF ModRun
  <2> QED BY <1>5, <2>2
<1>7. PICK key \in 1 .. 97 : key = 97 - r
  OBVIOUS
<1>7a. RibKey(body) = key
  BY <1>2, <1>3, <1>6, <1>7 DEF RibKey
<1>7b. 97 - Mod(body \o Zeros(2), 97) = key
  BY <1>2, <1>3, <1>6, <1>7
<1>8. PICK t : t = TwoDigits(key)
  OBVIOUS
<1>9. t \in Seq(Digit) /\ Len(t) = 2
  BY <1>8 DEF TwoDigits, Digit
<1>10. PICK rib : rib = body \o t
  OBVIOUS
<1>11. rib \in Seq(Digit) /\ Len(rib) = 20 /\ SubSeq(rib, 1, 18) = body /\ SubSeq(rib, 19, 20) = t
  <2>1. /\ rib \in Seq(Digit) /\ Len(rib) = Len(body) + Len(t)
        /\ \A n \in 1 .. Len(body) + Len(t) : rib[n] = IF n <= Len(body) THEN body[n] ELSE t[n - Len(body)]
    BY <1>1, <1>9, <1>10, ConcatProperties, Zenon
  <2>2. Len(body) + Len(t) = 20
    BY <1>1, <1>9
  <2>3. Len(rib) = 20 /\ \A n \in 1 .. 20 : rib[n] = IF n <= 18 THEN body[n] ELSE t[n - 18]
    BY <1>1, <2>1, <2>2
  <2>4. PICK p, q : p = SubSeq(rib, 1, 18) /\ q = SubSeq(rib, 19, 20)
    OBVIOUS
  <2> rib \in Seq(Digit) /\ Len(rib) = 20 /\ \A n \in 1 .. 20 : rib[n] \in Digit
    <3>1. rib \in Seq(Digit)
      BY <2>1
    <3>2. Len(rib) = 20
      BY <2>3
    <3>3. \A n \in 1 .. Len(rib) : rib[n] \in Digit
      BY <3>1, ElementOfSeq
    <3> QED BY <3>1, <3>2, <3>3
  <2>5. p \in Seq(Digit) /\ Len(p) = 18 /\ \A n \in 1 .. 18 : p[n] = rib[n]
    BY <2>4, SubSeqProperties
  <2>6. q \in Seq(Digit) /\ Len(q) = 2 /\ q[1] = rib[19] /\ q[2] = rib[20]
    BY <2>4, SubSeqProperties
  <2>7. p = body
    <3>1. \A n \in 1 .. 18 : p[n] = body[n]
      BY <2>3, <2>5, SMTT(30)
    <3> QED BY <1>1, <2>5, <3>1, SeqEqual
  <2>8. q = t
    <3>1. rib[19] = t[1] /\ rib[20] = t[2]
      BY <2>3
    <3>2. \A n \in 1 .. 2 : q[n] = t[n]
      BY <2>6, <3>1
    <3> QED BY <1>9, <2>6, <3>2, SeqEqual
  <2> QED BY <2>1, <2>3, <2>4, <2>7, <2>8
<1>12. _rib_for(body) = rib
  BY <1>7b, <1>8, <1>10 DEF _rib_for
<1>13. TwoDigits(RibKey(SubSeq(rib, 1, 18))) = SubSeq(rib, 19, 20)
  BY <1>7a, <1>8, <1>11
<1>14. 20 - 2 = 18 /\ 18 + 1 = 19
  OBVIOUS
<1> QED BY <1>11, <1>12, <1>13, <1>14 DEF _rib_key_valid, RIB_DIGITS, RIB_BODY

-----------------------------------------------------------------------------
\* A sum is the same from the right as from the left.
Mirrored(f, s, g, t, l) ==
  /\ f[0] = 0 /\ g[0] = 0
  /\ \A n \in 0 .. l : f[n] \in Int /\ g[n] \in Int
  /\ \A n \in 1 .. l : f[n] = f[n - 1] + s[n] /\ g[n] = g[n - 1] + t[n]
  /\ \A n \in 1 .. l : s[n] \in Int /\ s[n] = t[(l + 1) - n]

LEMMA Backwards ==
  ASSUME NEW l \in Nat, NEW s, NEW t, NEW f, NEW g, Mirrored(f, s, g, t, l)
  PROVE  f[l] = g[l]
<1> USE DEF Mirrored
<1> DEFINE T == {n \in Nat : n <= l => f[n] + g[l - n] = g[l]}
<1>1. 0 \in T
  OBVIOUS
<1>2. ASSUME NEW k \in T PROVE k + 1 \in T
  <2> SUFFICES ASSUME k + 1 <= l PROVE f[k + 1] + g[l - (k + 1)] = g[l]
    OBVIOUS
  <2>1. PICK n \in 1 .. l : n = k + 1
    OBVIOUS
  <2>2. PICK m \in 1 .. l : m = (l + 1) - n
    OBVIOUS
  <2>3. f[n] = f[n - 1] + s[n] /\ s[n] = t[m] /\ g[m] = g[m - 1] + t[m] /\ t[m] \in Int
    BY <2>2
  <2>4. f[k] + g[l - k] = g[l]
    BY <2>1
  <2>5. n - 1 = k /\ m = l - k /\ m - 1 = l - n
    BY <2>1, <2>2
  <2>6. PICK x \in Int, y \in Int, z \in Int : x = f[n - 1] /\ y = g[m - 1] /\ z = t[m]
    BY <2>1, <2>2, <2>3
  <2>7. f[n] = x + z /\ g[m] = y + z
    BY <2>3, <2>6
  <2>8. x + (y + z) = g[l]
    BY <2>4, <2>5, <2>6, <2>7
  <2>9. (x + z) + y = g[l]
    BY <2>6, <2>8
  <2> QED BY <2>1, <2>5, <2>6, <2>7, <2>9
<1> HIDE DEF T
<1>3. T = Nat
  <2>1. T \in SUBSET Nat
    BY DEF T
  <2> QED BY <1>1, <1>2, <2>1, SetInduction
<1>4. l \in T
  BY <1>3
<1> QED BY <1>4 DEF T

\* What a doubled digit counts: its product less nine when that has two digits
\* is the sum of the product's digits.
Counts(i, x) == IF i % 2 = 0 THEN x ELSE IF 2 * x > 9 THEN 2 * x - 9 ELSE 2 * x
Adds(i, x) == LET w == IF i % 2 = 1 THEN 2 * x ELSE x IN (w \div 10) + (w % 10)

LEMMA CountsAdds ==
  ASSUME NEW i \in Nat, NEW x \in Digit
  PROVE  Counts(i, x) \in Nat /\ Counts(i, x) = Adds(i, x)
<1> x \in 0 .. 9
  BY DEF Digit
<1>1. i % 2 = 0 \/ i % 2 = 1
  OBVIOUS
<1>2. Counts(i, x) \in Nat
  BY DEF Counts
<1>3. CASE i % 2 = 0
  <2>1. x \div 10 = 0 /\ x % 10 = x
    OBVIOUS
  <2> QED BY <1>2, <1>3, <2>1 DEF Counts, Adds
<1>4. CASE i % 2 = 1
  <2>1. PICK w \in 0 .. 18 : w = 2 * x
    OBVIOUS
  <2>2. (w \div 10) + (w % 10) = IF w > 9 THEN w - 9 ELSE w
    OBVIOUS
  <2> QED BY <1>2, <1>4, <2>1, <2>2 DEF Counts, Adds
<1> QED BY <1>1, <1>3, <1>4

\* A generated card number passes the Luhn test, whatever its length.
LEMMA LuhnForHolds ==
  ASSUME NEW l \in Nat, NEW base \in Number(l)
  PROVE  LuhnHolds(_luhn_for(base))
<1>1. base \in Seq(Digit) /\ Len(base) = l
  BY NumberLists
<1>0. \A k \in 1 .. l : base[k] \in Digit
  BY DEF Number
<1>2. PICK s : s = [i \in 1 .. l |-> LET digit == base[l + 1 - i] doubled == 2 * digit
                                     IN  IF i % 2 = 0 THEN digit
                                         ELSE IF doubled > 9 THEN doubled - 9 ELSE doubled]
  OBVIOUS
<1>3. s \in Seq(Int) /\ Len(s) = l /\ \A i \in 1 .. l : s[i] = Counts(i, base[(l + 1) - i]) /\ s[i] \in Int
  <2>1. \A i \in 1 .. l : Counts(i, base[(l + 1) - i]) \in Int
    <3> SUFFICES ASSUME NEW i \in 1 .. l PROVE Counts(i, base[(l + 1) - i]) \in Int
      OBVIOUS
    <3>1. PICK x \in Digit : x = base[(l + 1) - i]
      BY <1>0
    <3>2. i \in Nat
      OBVIOUS
    <3>3. Counts(i, x) \in Nat
      BY <3>2, CountsAdds
    <3> QED BY <3>1, <3>3
  <2>2. \A i \in 1 .. l : s[i] = Counts(i, base[(l + 1) - i])
    BY <1>2 DEF Counts
  <2>3. s \in [1 .. l -> Int]
    BY <1>2, <2>1, <2>2
  <2> QED BY <2>1, <2>2, <2>3, ListOf
<1>4. PICK f : TotalRun(f, s) /\ Total(s) = f[l]
  BY <1>3, TotalLoops
<1>5. PICK n : n = f[l] /\ n \in Int
  BY <1>3, <1>4 DEF TotalRun
<1>6. PICK c : c = (10 - (n % 10)) % 10
  OBVIOUS
<1>7. c \in 0 .. 9 /\ (n + c) % 10 = 0
  <2>2. PICK r \in 0 .. 9 : r = n % 10
    BY <1>5
  <2>3. c = (10 - r) % 10
    BY <1>6, <2>2
  <2>4. c = IF r = 0 THEN 0 ELSE 10 - r
    BY <2>3
  <2>5. PICK q \in Int : n = 10 * q + r
    BY <1>5, <2>2
  <2>6. (n + c) % 10 = 0
    BY <2>4, <2>5
  <2> QED BY <2>4, <2>6
<1>8. PICK card : card = Append(base, c)
  OBVIOUS
<1>9. Len(card) = l + 1 /\ (\A k \in 1 .. l : card[k] = base[k]) /\ card[l + 1] = c
  <2>1. c \in Digit
    BY <1>7 DEF Digit
  <2> QED BY <1>1, <1>8, <2>1, AppendProperties
<1>10. _luhn_for(base) = card
  <2>1. _luhn_for(base) = Append(base, (10 - (Total(s) % 10)) % 10)
    <3>1. s = [i \in 1 .. l |-> LET digit == base[l + 1 - i] doubled == 2 * digit
                                IN  IF i % 2 = 0 THEN digit
                                    ELSE IF doubled > 9 THEN doubled - 9 ELSE doubled]
      BY <1>2
    <3> QED BY <1>1, <3>1, Zenon DEF _luhn_for
  <2>2. Total(s) = n
    BY <1>4, <1>5
  <2> QED BY <1>6, <1>8, <2>1, <2>2
<1>11. PICK t : t = [k \in 1 .. l + 1 |-> Adds((l + 1) - k, card[k])]
  OBVIOUS
<1>12. LuhnHolds(card) <=> Total(t) % 10 = 0
  BY <1>9, <1>11 DEF LuhnHolds, Adds
<1>13. \A k \in 1 .. l : t[k] = s[(l + 1) - k]
  <2> SUFFICES ASSUME NEW k \in 1 .. l PROVE t[k] = s[(l + 1) - k]
    OBVIOUS
  <2>1. PICK i \in 1 .. l : i = (l + 1) - k /\ k = (l + 1) - i
    OBVIOUS
  <2>2. PICK x \in Digit : x = base[k]
    BY <1>0
  <2>3. t[k] = Adds(i, x)
    BY <1>9, <1>11, <2>1, <2>2
  <2>4. s[i] = Counts(i, x)
    BY <1>3, <2>1, <2>2
  <2>5. i \in Nat
    OBVIOUS
  <2>6. Counts(i, x) = Adds(i, x)
    BY <2>5, CountsAdds
  <2> QED BY <2>1, <2>3, <2>4, <2>6
<1>14. t[l + 1] = c
  <2>1. PICK i : i = (l + 1) - (l + 1) /\ i = 0
    OBVIOUS
  <2>2. l + 1 \in 1 .. l + 1
    OBVIOUS
  <2>3. t[l + 1] = Adds(i, c)
    BY <1>9, <1>11, <2>1, <2>2
  <2> QED BY <1>7, <2>1, <2>3 DEF Adds
<1>15. t \in Seq(Int) /\ Len(t) = l + 1
  <2>1. ASSUME NEW k \in 1 .. l + 1 PROVE t[k] \in Int
    <3>1. CASE k = l + 1
      BY <1>7, <1>14, <3>1
    <3>2. CASE k \in 1 .. l
      <4>1. (l + 1) - k \in 1 .. l
        BY <3>2
      <4> QED BY <1>3, <1>13, <3>2, <4>1
    <3> QED BY <3>1, <3>2
  <2>2. t \in [1 .. l + 1 -> Int]
    BY <1>11, <2>1
  <2>3. PICK m \in Nat : m = l + 1
    OBVIOUS
  <2> QED BY <2>2, <2>3, ListOf
<1>16. PICK g : TotalRun(g, t) /\ Total(t) = g[l + 1]
  BY <1>15, TotalLoops
<1>17. f[l] = g[l]
  <2>1. f[0] = 0 /\ g[0] = 0
    BY <1>4, <1>16 DEF TotalRun
  <2>2. \A k \in 0 .. l : f[k] \in Int /\ g[k] \in Int
    <3>1. \A k \in 0 .. l : k \in 0 .. l + 1
      OBVIOUS
    <3> QED BY <1>3, <1>4, <1>15, <1>16, <3>1 DEF TotalRun
  <2>3. \A k \in 1 .. l : f[k] = f[k - 1] + s[k] /\ g[k] = g[k - 1] + t[k]
    <3>1. \A k \in 1 .. l : k \in 1 .. l + 1
      OBVIOUS
    <3> QED BY <1>3, <1>4, <1>15, <1>16, <3>1 DEF TotalRun
  <2>4. \A k \in 1 .. l : s[k] \in Int /\ s[k] = t[(l + 1) - k]
    <3>1. \A k \in 1 .. l : (l + 1) - k \in 1 .. l /\ (l + 1) - ((l + 1) - k) = k
      OBVIOUS
    <3> QED BY <1>3, <1>13, <3>1
  <2>5. Mirrored(f, s, g, t, l)
    BY <2>1, <2>2, <2>3, <2>4 DEF Mirrored
  <2> QED BY <2>5, Backwards
<1>18. g[l + 1] = n + c
  <2>1. l + 1 \in 1 .. l + 1 /\ (l + 1) - 1 = l
    OBVIOUS
  <2>2. g[l + 1] = g[(l + 1) - 1] + t[l + 1]
    BY <1>15, <1>16, <2>1 DEF TotalRun
  <2> QED BY <1>5, <1>14, <1>17, <2>1, <2>2
<1> QED BY <1>7, <1>10, <1>12, <1>16, <1>18
=============================================================================
