------------------------- MODULE SubstitutionProofs -------------------------
(***************************************************************************)
(* Forward substitution gives the text with the accepted spans replaced,   *)
(* for any request, any dictionaries and any salt.                         *)
(***************************************************************************)
EXTENDS Substitution, ListProofs

\* text[a:b]
Cut(t, a, b) == SubSeq(t, a + 1, b)

Within(t, a, b) == a \in Nat /\ b \in Nat /\ a <= b /\ b <= Len(t)
Piece(c, S, t, a, b) == c \in Seq(S) /\ Len(c) = b - a /\ \A i \in 1 .. b - a : c[i] = t[a + i]

LEMMA CutList ==
  ASSUME NEW S, NEW t \in Seq(S), NEW a, NEW b, Within(t, a, b), NEW c, c = Cut(t, a, b)
  PROVE  Piece(c, S, t, a, b)
<1> a \in Nat /\ b \in Nat /\ a <= b /\ b <= Len(t)
  BY DEF Within
<1>1. PICK m \in Int : m = a + 1
  OBVIOUS
<1>2. \A i \in m .. b : t[i] \in S
  <2>1. \A i \in m .. b : i \in 1 .. Len(t)
    BY <1>1
  <2> QED BY <2>1, ElementOfSeq
<1>3. c = SubSeq(t, m, b)
  BY <1>1 DEF Cut
<1>4. c \in Seq(S) /\ Len(c) = (IF m <= b THEN b - m + 1 ELSE 0) /\ \A i \in 1 .. b - m + 1 : c[i] = t[m + i - 1]
  BY <1>2, <1>3, SubSeqProperties
<1>6. Len(c) = b - a /\ b - m + 1 = b - a
  BY <1>1, <1>4
<1>7. ASSUME NEW i \in 1 .. b - a PROVE c[i] = t[a + i]
  <2>1. m + i - 1 = a + i
    BY <1>1
  <2> QED BY <1>4, <1>6, <2>1
<1> QED BY <1>4, <1>6, <1>7 DEF Piece

LEMMA CutJoin ==
  ASSUME NEW S, NEW t \in Seq(S), NEW a \in Nat, NEW b \in Nat, NEW c \in Nat, a <= b, b <= c, c <= Len(t)
  PROVE  Cut(t, a, b) \o Cut(t, b, c) = Cut(t, a, c)
<1>1. PICK m : m = a + 1 /\ m \in 1 .. Len(t) + 1
  OBVIOUS
<1>2. b \in m - 1 .. Len(t) /\ c \in b .. Len(t)
  BY <1>1
<1>3. SubSeq(t, m, b) \o SubSeq(t, b + 1, c) = SubSeq(t, m, c)
  BY <1>1, <1>2, ConcatAdjacentSubSeq
<1> QED BY <1>1, <1>3 DEF Cut

LEMMA CutEdges ==
  ASSUME NEW S, NEW t \in Seq(S)
  PROVE  Cut(t, 0, Len(t)) = t /\ \A a \in Nat : Cut(t, a, a) = <<>>
<1>1. Cut(t, 0, Len(t)) = t
  <2>1. 0 + 1 = 1
    OBVIOUS
  <2> QED BY <2>1, SubSeqFull DEF Cut
<1>2. ASSUME NEW a \in Nat PROVE Cut(t, a, a) = <<>>
  <2>1. PICK m \in Int : m = a + 1 /\ a < m /\ a \in Int
    OBVIOUS
  <2>2. SubSeq(t, m, a) = <<>>
    BY <2>1, SubSeqEmpty
  <2> QED BY <2>1, <2>2 DEF Cut
<1> QED BY <1>1, <1>2

\* The pieces of a concatenation.
SameStart(z, x) == \A k \in 0 .. Len(x) : Cut(z, 0, k) = Cut(x, 0, k)

LEMMA CutConcat ==
  ASSUME NEW S, NEW x \in Seq(S), NEW y \in Seq(S), NEW z, z = x \o y
  PROVE  Cut(z, Len(x), Len(z)) = y /\ SameStart(z, x)
<1>1. PICK l \in Nat, m \in Nat : l = Len(x) /\ m = Len(y)
  OBVIOUS
<1>2. z \in Seq(S) /\ Len(z) = l + m /\ \A i \in 1 .. l + m : z[i] = IF i <= l THEN x[i] ELSE y[i - l]
  BY <1>1, ConcatProperties
<1>3. Cut(z, l, Len(z)) = y
  <2>1. PICK n, c : n \in Nat /\ n = Len(z) /\ c = Cut(z, l, n)
    BY <1>2
  <2>2. n = l + m
    BY <1>2, <2>1
  <2>a. Within(z, l, n) /\ n - l = m
    BY <1>2, <2>1, <2>2 DEF Within
  <2>b. Piece(c, S, z, l, n)
    BY <1>2, <2>1, <2>a, CutList
  <2>3. c \in Seq(S) /\ Len(c) = m /\ \A i \in 1 .. m : c[i] = z[l + i]
    BY <2>a, <2>b DEF Piece
  <2>4. Len(c) = m /\ \A i \in 1 .. m : c[i] = z[l + i]
    BY <2>3
  <2>5. ASSUME NEW i \in 1 .. m PROVE c[i] = y[i]
    <3>1. PICK j : j = l + i /\ j \in 1 .. l + m /\ ~(j <= l) /\ j - l = i
      OBVIOUS
    <3>2. z[j] = y[i]
      BY <1>2, <3>1
    <3> QED BY <2>4, <3>1, <3>2
  <2>6. c = y
    BY <1>1, <2>3, <2>4, <2>5, SeqEqual
  <2> QED BY <2>1, <2>6
<1>4. ASSUME NEW k \in 0 .. l PROVE Cut(z, 0, k) = Cut(x, 0, k)
  <2>0. PICK o \in Nat : o = 0
    OBVIOUS
  <2>1. PICK c, d : c = Cut(z, o, k) /\ d = Cut(x, o, k)
    OBVIOUS
  <2>2. Within(z, o, k) /\ Within(x, o, k) /\ k - o = k
    BY <1>1, <1>2, <2>0 DEF Within
  <2>a. Piece(c, S, z, o, k) /\ Piece(d, S, x, o, k)
    BY <1>2, <2>1, <2>2, CutList
  <2>3. c \in Seq(S) /\ Len(c) = k /\ \A i \in 1 .. k : c[i] = z[o + i]
    BY <2>2, <2>a DEF Piece
  <2>4. d \in Seq(S) /\ Len(d) = k /\ \A i \in 1 .. k : d[i] = x[o + i]
    BY <2>2, <2>a DEF Piece
  <2>5. ASSUME NEW i \in 1 .. k PROVE c[i] = d[i]
    <3>1. o + i = i /\ i \in 1 .. l + m /\ i <= l
      BY <2>0
    <3>2. z[i] = x[i]
      BY <1>2, <3>1
    <3> QED BY <2>3, <2>4, <3>1, <3>2
  <2>6. c = d
    BY <2>3, <2>4, <2>5, SeqEqual
  <2> QED BY <2>0, <2>1, <2>6
<1> QED BY <1>1, <1>3, <1>4 DEF SameStart

\* A beginning of a beginning.
LEMMA CutTwice ==
  ASSUME NEW S, NEW t \in Seq(S), NEW a \in Nat, NEW b \in Nat, a <= b, b <= Len(t), NEW x, x = Cut(t, 0, b)
  PROVE  Cut(x, 0, a) = Cut(t, 0, a)
<1>1. PICK l \in Nat, o \in Nat : l = Len(t) /\ o = 0
  OBVIOUS
<1>2. PICK y : y = Cut(t, b, l)
  OBVIOUS
<1>3. Within(t, o, b) /\ Within(t, b, l) /\ b - o = b /\ o <= b /\ b <= l /\ l <= Len(t)
  BY <1>1 DEF Within
<1>a. x = Cut(t, o, b)
  BY <1>1
<1>4. x \in Seq(S) /\ Len(x) = b
  <2>1. Piece(x, S, t, o, b)
    BY <1>3, <1>a, CutList
  <2> QED BY <1>3, <2>1 DEF Piece
<1>5. y \in Seq(S)
  <2>1. Piece(y, S, t, b, l)
    BY <1>2, <1>3, CutList
  <2> QED BY <2>1 DEF Piece
<1>6. t = x \o y
  <2>1. Cut(t, o, b) \o Cut(t, b, l) = Cut(t, o, l)
    BY <1>3, CutJoin
  <2> QED BY <1>1, <1>2, <1>a, <2>1, CutEdges
<1>7. a \in 0 .. Len(x)
  BY <1>4
<1>8. SameStart(t, x)
  BY <1>4, <1>5, <1>6, CutConcat
<1> QED BY <1>7, <1>8 DEF SameStart

-----------------------------------------------------------------------------
\* Moving the parentheses of a concatenation.
Rest(r, g, v, q) == r = (g \o v) \o q
Regrouped(p, g, v, q, r) == ((p \o g) \o v) \o q = p \o r

LEMMA Regroup ==
  ASSUME NEW S, NEW p \in Seq(S), NEW g \in Seq(S), NEW v \in Seq(S), NEW q \in Seq(S), NEW r, Rest(r, g, v, q)
  PROVE  r \in Seq(S) /\ Regrouped(p, g, v, q, r)
<1>1. PICK w : w = g \o v
  OBVIOUS
<1>2. w \in Seq(S)
  BY <1>1, ConcatProperties
<1>3. r = w \o q
  BY <1>1 DEF Rest
<1>4. r \in Seq(S)
  BY <1>2, <1>3, ConcatProperties
<1>5. (p \o g) \o v = p \o w
  BY <1>1, ConcatAssociative
<1>6. (p \o w) \o q = p \o r
  BY <1>2, <1>3, ConcatAssociative, SMTT(30)
<1> QED BY <1>4, <1>5, <1>6 DEF Regrouped

\* Replacing the spans from the left, with a cursor, and from the right: s and e
\* are where they start and end, y what replaces them, out what is written after n
\* of them, t the text after the last n are replaced.
Spans(S, text, N, s, e, y) ==
  /\ N \in Nat /\ text \in Seq(S) /\ e[0] = 0
  /\ \A n \in 0 .. N : e[n] \in Nat /\ e[n] <= Len(text)
  /\ \A n \in 1 .. N : s[n] \in Nat /\ e[n - 1] <= s[n] /\ s[n] <= e[n] /\ y[n] \in Seq(S)

FromLeft(S, text, N, s, e, y, out) ==
  /\ out[0] = <<>>
  /\ \A n \in 0 .. N : out[n] \in Seq(S)
  /\ \A n \in 1 .. N : out[n] = (out[n - 1] \o Cut(text, e[n - 1], s[n])) \o y[n]

Replaced(t, a, b, v) == (Cut(t, 0, a) \o v) \o Cut(t, b, Len(t))
FromRight(text, N, s, e, y, t) ==
  /\ t[0] = text
  /\ \A j \in 1 .. N : t[j] = Replaced(t[j - 1], s[(N + 1) - j], e[(N + 1) - j], y[(N + 1) - j])

Begins(z, text, c, q) == z = Cut(text, 0, c) \o q

LEMMA ReplacesOne ==
  ASSUME NEW S, NEW text \in Seq(S), NEW a \in Nat, NEW b \in Nat, NEW c \in Nat, a <= b, b <= c, c <= Len(text),
         NEW v \in Seq(S), NEW q \in Seq(S), NEW z, Begins(z, text, c, q),
         NEW g, g = Cut(text, a, b), NEW r, Rest(r, g, v, q)
  PROVE  r \in Seq(S) /\ Begins(Replaced(z, b, c, v), text, a, r)
<1>0. PICK o \in Nat : o = 0
  OBVIOUS
<1>1. PICK x, p : x = Cut(text, o, c) /\ p = Cut(text, o, a)
  OBVIOUS
<1>2. Within(text, o, c) /\ Within(text, o, a) /\ Within(text, a, b) /\ c - o = c
  BY <1>0 DEF Within
<1>3. x \in Seq(S) /\ Len(x) = c /\ p \in Seq(S) /\ g \in Seq(S)
  <2>1. Piece(x, S, text, o, c) /\ Piece(p, S, text, o, a) /\ Piece(g, S, text, a, b)
    BY <1>1, <1>2, CutList
  <2> QED BY <1>2, <2>1 DEF Piece
<1>4. z = x \o q
  BY <1>0, <1>1 DEF Begins
<1>5. Cut(z, Len(x), Len(z)) = q /\ SameStart(z, x)
  BY <1>3, <1>4, CutConcat
<1>6. Cut(z, c, Len(z)) = q
  BY <1>3, <1>5
<1>7. Cut(z, 0, b) = Cut(text, 0, b)
  <2>1. b \in 0 .. Len(x)
    BY <1>3
  <2>2. Cut(z, 0, b) = Cut(x, 0, b)
    BY <1>5, <2>1 DEF SameStart
  <2>3. Cut(x, 0, b) = Cut(text, 0, b)
    BY <1>0, <1>1, CutTwice
  <2> QED BY <2>2, <2>3
<1>8. Cut(text, 0, b) = p \o g
  <2>1. o <= a /\ b <= Len(text)
    BY <1>0
  <2>2. Cut(text, o, a) \o Cut(text, a, b) = Cut(text, o, b)
    BY <2>1, CutJoin
  <2> QED BY <1>0, <1>1, <2>2
<1>9. Replaced(z, b, c, v) = ((p \o g) \o v) \o q
  BY <1>6, <1>7, <1>8 DEF Replaced
<1>10. r \in Seq(S) /\ Regrouped(p, g, v, q, r)
  BY <1>3, Regroup
<1> QED BY <1>0, <1>1, <1>9, <1>10 DEF Regrouped, Begins

SameText(text, N, e, out, t) == out[N] \o Cut(text, e[N], Len(text)) = t[N]

LEMMA SameFromBothEnds ==
  ASSUME NEW S, NEW text, NEW N, NEW s, NEW e, NEW y, NEW out, NEW t,
         Spans(S, text, N, s, e, y), FromLeft(S, text, N, s, e, y, out), FromRight(text, N, s, e, y, t)
  PROVE  SameText(text, N, e, out, t)
<1>0. N \in Nat /\ text \in Seq(S) /\ Len(text) \in Nat
  BY DEF Spans
<1>a. PICK done : done = out[N] \o Cut(text, e[N], Len(text))
  OBVIOUS
<1> DEFINE Stands(j, n) == \E q \in Seq(S) : t[j] = Cut(text, 0, e[n]) \o q /\ out[n] \o q = done
           T == {j \in Nat : j <= N => Stands(j, N - j)}
<1>1. 0 \in T
  <2>1. PICK q, c, l : q = Cut(text, c, l) /\ c = e[N] /\ l = Len(text)
    OBVIOUS
  <2>2. c \in Nat /\ l \in Nat /\ 0 \in Nat /\ 0 <= c /\ c <= l /\ l <= Len(text)
    BY <1>0, <2>1 DEF Spans
  <2>3. q \in Seq(S)
    <3>1. Within(text, c, l)
      BY <2>2 DEF Within
    <3>2. Piece(q, S, text, c, l)
      BY <1>0, <2>1, <3>1, CutList
    <3> QED BY <3>2 DEF Piece
  <2>4. text = Cut(text, 0, c) \o q
    <3>1. PICK o \in Nat : o = 0
      OBVIOUS
    <3>2. Cut(text, o, c) \o Cut(text, c, l) = Cut(text, o, l)
      BY <1>0, <2>2, <3>1, CutJoin
    <3> QED BY <1>0, <2>1, <3>1, <3>2, CutEdges
  <2>5. Stands(0, N)
    BY <1>a, <2>1, <2>3, <2>4 DEF FromRight
  <2>6. N - 0 = N
    BY <1>0
  <2> HIDE DEF Stands
  <2> QED BY <2>5, <2>6
<1>2. ASSUME NEW j \in T PROVE j + 1 \in T
  <2> SUFFICES ASSUME j + 1 <= N PROVE Stands(j + 1, N - (j + 1))
    <3> HIDE DEF Stands
    <3> QED OBVIOUS
  <2>a. Stands(j, N - j)
    <3> HIDE DEF Stands
    <3> QED BY <1>0
  <2>1. PICK n \in 1 .. N, m \in 0 .. N, k \in 1 .. N :
          n = N - j /\ m = n - 1 /\ m = N - (j + 1) /\ k = j + 1 /\ k - 1 = j /\ n = (N + 1) - k
    BY <1>0
  <2>2. PICK q \in Seq(S) : t[j] = Cut(text, 0, e[n]) \o q /\ out[n] \o q = done
    BY <2>1, <2>a
  <2>3. PICK a, b, c, v, z : a = e[m] /\ b = s[n] /\ c = e[n] /\ v = y[n] /\ z = t[j]
    OBVIOUS
  <2>4. a \in Nat /\ b \in Nat /\ c \in Nat /\ a <= b /\ b <= c /\ c <= Len(text) /\ v \in Seq(S)
    BY <2>1, <2>3 DEF Spans
  <2>5. PICK g, r : g = Cut(text, a, b) /\ Rest(r, g, v, q)
    BY DEF Rest
  <2>6. Begins(z, text, c, q)
    BY <2>2, <2>3 DEF Begins
  <2>7. r \in Seq(S) /\ Begins(Replaced(z, b, c, v), text, a, r)
    BY <1>0, <2>4, <2>5, <2>6, ReplacesOne
  <2>8. t[k] = Cut(text, 0, e[m]) \o r
    BY <2>1, <2>3, <2>7 DEF FromRight, Begins
  <2>9. out[m] \o r = done
    <3>1. PICK p : p = out[m] /\ p \in Seq(S)
      BY <2>1 DEF FromLeft
    <3>2. out[n] = (p \o g) \o v
      BY <2>1, <2>3, <2>5, <3>1 DEF FromLeft
    <3>3. Within(text, a, b)
      BY <2>4 DEF Within
    <3>4. g \in Seq(S)
      <4>1. Piece(g, S, text, a, b)
        BY <1>0, <2>5, <3>3, CutList
      <4> QED BY <4>1 DEF Piece
    <3>5. Regrouped(p, g, v, q, r)
      BY <2>4, <2>5, <3>1, <3>4, Regroup
    <3> QED BY <2>2, <3>1, <3>2, <3>5 DEF Regrouped
  <2>10. Stands(k, m)
    BY <2>7, <2>8, <2>9
  <2> HIDE DEF Stands
  <2> QED BY <2>1, <2>10
<1> HIDE DEF T, Stands
<1>3. T = Nat
  <2>1. T \in SUBSET Nat
    BY DEF T
  <2> QED BY <1>1, <1>2, <2>1, SetInduction
<1>4. Stands(N, 0)
  <2>1. N \in T /\ N - N = 0
    BY <1>0, <1>3
  <2> QED BY <1>0, <2>1 DEF T
<1>5. PICK q \in Seq(S) : t[N] = Cut(text, 0, e[0]) \o q /\ out[0] \o q = done
  BY <1>4 DEF Stands
<1>6. t[N] = <<>> \o q /\ <<>> \o q = done
  <2>1. e[0] = 0 /\ out[0] = <<>>
    BY DEF Spans, FromLeft
  <2>2. PICK o \in Nat : o = 0
    OBVIOUS
  <2>3. Cut(text, o, o) = <<>>
    BY <1>0, <2>2, CutEdges
  <2> QED BY <1>5, <2>1, <2>2, <2>3
<1> QED BY <1>a, <1>6 DEF SameText

-----------------------------------------------------------------------------
\* Characters.
TagChars == {"<", "c", "u", "s", "t", "o", "m", "-", ">"}
CharSet == STRING \cup TagChars

LEMMA StringsAreTexts ==
  ASSUME NEW s \in Seq(STRING)
  PROVE  s \in Seq(CharSet)
<1>1. PICK S, T : S = STRING /\ T = CharSet
  OBVIOUS
<1>2. S \subseteq T
  BY <1>1 DEF CharSet
<1>3. s \in Seq(S) /\ Len(s) \in Nat
  BY <1>1
<1>4. \A n \in 1 .. Len(s) : s[n] \in S
  BY <1>3, ElementOfSeq
<1>5. \A n \in 1 .. Len(s) : s[n] \in T
  BY <1>2, <1>4, Zenon
<1>6. s \in Seq(T)
  BY <1>3, <1>5
<1> QED BY <1>1, <1>6

LEMMA SegmentText ==
  ASSUME NEW g \in Segment
  PROVE  g.text \in Seq(CharSet) /\ (g.type # "plain" => g \in Entity)
<1>1. CASE g \in Entity
  BY <1>1, TextAssumption, StringsAreTexts
<1>2. CASE g \in [type : {"plain"}, text : Plain]
  <2>1. g.type = "plain" /\ g.text \in Plain
    BY <1>2
  <2> QED BY <2>1, TextAssumption, StringsAreTexts
<1> QED BY <1>1, <1>2 DEF Segment

\* The texts of the beginnings of a request.
TextRun(B, segs) ==
  /\ B[0] = <<>>
  /\ \A k \in 1 .. Len(segs) : B[k] = B[k - 1] \o segs[k].text
  /\ \A k \in 0 .. Len(segs) : B[k] \in Seq(CharSet)

LEMMA TextRuns ==
  ASSUME NEW segs \in Seq(Segment)
  PROVE  TextRun(Beginnings(segs), segs)
<1> DEFINE l == Len(segs)
           X == Seq(CharSet)
           F == [q \in X \X (1 .. l) |-> q[1] \o segs[q[2]].text]
           run(f) == [n \in 0 .. l |-> IF n = 0 THEN <<>> ELSE f[n - 1] \o segs[n].text]
           state == CHOOSE f : f = run(f)
<1>1. l \in Nat /\ <<>> \in X
  OBVIOUS
<1>2. Beginnings(segs) = state
  BY DEF Beginnings
<1>3. \A x \in X, n \in 1 .. l : x \o segs[n].text \in X
  <2> SUFFICES ASSUME NEW x \in X, NEW n \in 1 .. l PROVE x \o segs[n].text \in X
    OBVIOUS
  <2>0. segs[n] \in Segment
    OBVIOUS
  <2>1. PICK w : w = segs[n].text /\ w \in Seq(CharSet)
    BY <2>0, SegmentText
  <2>2. x \o w \in Seq(CharSet)
    BY <2>1, ConcatProperties
  <2> QED BY <2>1, <2>2
<1> HIDE DEF l, X
<1>4. F \in [X \X (1 .. l) -> X]
  BY <1>3
<1>5. \E f : f = run(f)
  <2>1. PICK f : IsRun(f, X, <<>>, l, F)
    <3> HIDE DEF F
    <3> QED BY <1>1, <1>4, Recursion
  <2>2. f \in [0 .. l -> X] /\ f[0] = <<>>
    BY <2>1 DEF IsRun
  <2>3. ASSUME NEW n \in 1 .. l PROVE f[n] = f[n - 1] \o segs[n].text
    <3>1. f[n] = F[<<f[n - 1], n>>]
      BY <2>1 DEF IsRun
    <3>2. n - 1 \in 0 .. l
      BY <1>1
    <3>3. f[n - 1] \in X
      BY <2>2, <3>2
    <3> QED BY <3>1, <3>3
  <2>4. f = run(f)
    BY <1>1, <2>2, <2>3
  <2> QED BY <2>4
<1>6. state = run(state)
  BY <1>5
<1> HIDE DEF state
<1>7. state[0] = <<>> /\ \A n \in 1 .. l : state[n] = state[n - 1] \o segs[n].text
  BY <1>1, <1>6
<1>8. \A n \in 0 .. l : state[n] \in X
  <2>1. \A n \in 1 .. l : state[n - 1] \in X => state[n] \in X
    BY <1>3, <1>7
  <2>2. state[0] \in X
    BY <1>1, <1>7
  <2> QED BY <1>1, <2>1, <2>2, RunStays
<1> QED BY <1>2, <1>7, <1>8 DEF X, l, TextRun

LEMMA TextGrows ==
  ASSUME NEW segs \in Seq(Segment), NEW B, TextRun(B, segs),
         NEW j \in 0 .. Len(segs), NEW k \in 0 .. Len(segs), j <= k
  PROVE  Len(B[j]) <= Len(B[k])
<1> DEFINE l == Len(segs)
           T == {n \in Nat : j + n <= l => Len(B[j]) <= Len(B[j + n])}
<1>0. l \in Nat /\ \A n \in 0 .. l : B[n] \in Seq(CharSet) /\ Len(B[n]) \in Nat
  BY DEF TextRun
<1>1. 0 \in T
  BY <1>0
<1>2. ASSUME NEW n \in T PROVE n + 1 \in T
  <2> SUFFICES ASSUME j + (n + 1) <= l PROVE Len(B[j]) <= Len(B[j + (n + 1)])
    OBVIOUS
  <2>1. PICK m \in 1 .. l : m = j + (n + 1) /\ m - 1 = j + n /\ m - 1 \in 0 .. l /\ m \in 0 .. l
    BY <1>0
  <2>2. PICK x, w : x = B[m - 1] /\ w = segs[m].text
    OBVIOUS
  <2>3. x \in Seq(CharSet) /\ w \in Seq(CharSet)
    BY <1>0, <2>1, <2>2, SegmentText
  <2>4. B[m] = x \o w
    BY <2>1, <2>2 DEF TextRun
  <2>5. Len(B[m]) = Len(x) + Len(w)
    BY <2>3, <2>4, ConcatProperties
  <2>6. PICK a \in Nat, b \in Nat : a = Len(x) /\ b = Len(w)
    BY <2>3
  <2>7. a <= Len(B[m])
    BY <2>5, <2>6
  <2>8. Len(B[j]) <= a
    BY <2>1, <2>2, <2>6
  <2>9. PICK c \in Nat, d \in Nat : c = Len(B[j]) /\ d = Len(B[m])
    BY <1>0, <2>1
  <2>10. c <= d
    BY <2>7, <2>8, <2>9
  <2> QED BY <2>1, <2>9, <2>10
<1> HIDE DEF T
<1>3. T = Nat
  <2>1. T \in SUBSET Nat
    BY DEF T
  <2> QED BY <1>1, <1>2, <2>1, SetInduction
<1>4. k - j \in T /\ j + (k - j) = k
  BY <1>3
<1> QED BY <1>4 DEF T

\* The accepted detections: the segments p[1], p[2], ... of the request.
AcceptedAt(dets, segs, B, p, N) ==
  /\ N \in Nat /\ DOMAIN dets = 1 .. N /\ Len(dets) = N
  /\ \A n \in 1 .. N : p[n] \in 1 .. Len(segs) /\ segs[p[n]].type # "plain"
  /\ \A k \in 1 .. Len(segs) : segs[k].type # "plain" => \E n \in 1 .. N : p[n] = k
  /\ \A m, n \in 1 .. N : m < n => p[m] < p[n]
  /\ \A n \in 1 .. N : /\ dets[n].start = Len(B[p[n] - 1]) /\ dets[n].end = Len(B[p[n]])
                       /\ dets[n].entity = segs[p[n]]

LEMMA AcceptedAre ==
  ASSUME NEW segs \in Seq(Segment)
  PROVE  \E p, N : AcceptedAt(Accepted(segs), segs, Beginnings(segs), p, N)
<1> DEFINE l == Len(segs)
           s0 == [k \in DOMAIN segs |-> k]
           I == {n \in DOMAIN s0 : segs[s0[n]].type # "plain"}
           found == Filter(s0, LAMBDA k : segs[k].type # "plain")
           made(k) == [start |-> Len(Beginnings(segs)[k - 1]), end |-> Len(Beginnings(segs)[k]), entity |-> segs[k]]
           dets == [n \in DOMAIN found |-> made(found[n])]
<1>1. l \in Nat /\ DOMAIN segs = 1 .. l
  OBVIOUS
<1>2. s0 \in [1 .. l -> 1 .. l] /\ \A k \in 1 .. l : s0[k] = k
  BY <1>1
<1>3. Accepted(segs) = dets
  BY DEF Accepted
<1>4. found = At(s0, I)
  BY DEF Filter
<1>5. I \in SUBSET (1 .. l) /\ \A n \in 1 .. l : n \in I <=> segs[n].type # "plain"
  BY <1>2
<1>a. \A k : /\ made(k).start = Len(Beginnings(segs)[k - 1]) /\ made(k).end = Len(Beginnings(segs)[k])
             /\ made(k).entity = segs[k]
  OBVIOUS
<1> HIDE DEF s0, I, found, l, made
<1>6. s0 \in Seq(1 .. l) /\ Len(s0) = l
  BY <1>1, <1>2
<1>7. found \in Seq(1 .. l) /\ \E p : Enumerates(p, Len(found), I) /\ \A k \in 1 .. Len(found) : found[k] = s0[p[k]]
  <2>1. I \in SUBSET (1 .. Len(s0))
    BY <1>5, <1>6
  <2>2. PICK Y : Y = 1 .. l
    OBVIOUS
  <2>3. s0 \in Seq(Y)
    BY <1>6, <2>2
  <2>4. found \in Seq(Y) /\ \E p : Enumerates(p, Len(found), I) /\ \A k \in 1 .. Len(found) : found[k] = s0[p[k]]
    BY <1>4, <2>1, <2>3, AtEnumerates
  <2> QED BY <2>2, <2>4
<1>8. PICK p : Enumerates(p, Len(found), I) /\ \A k \in 1 .. Len(found) : found[k] = s0[p[k]]
  BY <1>7
<1>9. PICK N \in Nat : N = Len(found) /\ DOMAIN found = 1 .. N
  BY <1>7
<1>10. \A n \in 1 .. N : p[n] \in I /\ p[n] \in 1 .. l /\ found[n] = p[n]
  BY <1>2, <1>5, <1>8, <1>9 DEF Enumerates
<1>11. \A m, n \in 1 .. N : m < n => p[m] < p[n]
  BY <1>8, <1>9 DEF Enumerates
<1>12. \A n \in 1 .. N : dets[n] = made(p[n])
  BY <1>9, <1>10
<1>13. DOMAIN dets = 1 .. N /\ Len(dets) = N
  <2> DEFINE Y == {made(k) : k \in 1 .. l}
  <2>1. dets \in [1 .. N -> Y]
    BY <1>9, <1>10
  <2> HIDE DEF dets, Y
  <2> QED BY <1>9, <2>1
<1> HIDE DEF dets
<1>14. \A n \in 1 .. N : segs[p[n]].type # "plain"
  BY <1>5, <1>10
<1>b. \A k \in 1 .. l : segs[k].type # "plain" => \E n \in 1 .. N : p[n] = k
  BY <1>5, <1>8, <1>9 DEF Enumerates
<1>15. \A n \in 1 .. N : /\ dets[n].start = Len(Beginnings(segs)[p[n] - 1]) /\ dets[n].end = Len(Beginnings(segs)[p[n]])
                         /\ dets[n].entity = segs[p[n]]
  BY <1>a, <1>12
<1>16. AcceptedAt(dets, segs, Beginnings(segs), p, N)
  BY <1>9, <1>10, <1>11, <1>13, <1>14, <1>15, <1>b DEF AcceptedAt, l
<1> QED BY <1>3, <1>16

\* What a salt gives the entities of a request.
Written(segs, salt) ==
  /\ segs \in Seq(Segment)
  /\ \A k \in 1 .. Len(segs) : segs[k].type # "plain" => synthetic_for(segs[k], salt) \in Seq(CharSet)

\* The spans, for the lemma above: e[0] is where the cursor starts.
Ends(dets, N) == [n \in 0 .. N |-> IF n = 0 THEN 0 ELSE dets[n].end]
Starts(dets, N) == [n \in 1 .. N |-> dets[n].start]
Synthetics(dets, salt, N) == [n \in 1 .. N |-> synthetic_for(dets[n].entity, salt)]

Describes(dets, salt, N, s, e, y) ==
  /\ Len(dets) = N /\ dets = [n \in 1 .. N |-> dets[n]] /\ \A n \in 1 .. N : dets[n].entity \in Entity
  /\ s = Starts(dets, N) /\ e = Ends(dets, N) /\ y = Synthetics(dets, salt, N)

LEMMA AcceptedSpans ==
  ASSUME NEW segs, NEW salt, Written(segs, salt), NEW dets, dets = Accepted(segs),
         NEW text, text = Beginnings(segs)[Len(segs)]
  PROVE  \E N : /\ N \in Nat /\ DOMAIN dets = 1 .. N /\ Len(dets) = N
                /\ \A n \in 1 .. N : dets[n].entity \in Entity
                /\ Spans(CharSet, text, N, Starts(dets, N), Ends(dets, N), Synthetics(dets, salt, N))
<1>1. segs \in Seq(Segment) /\ Len(segs) \in Nat
  BY DEF Written
<1>2. PICK B : B = Beginnings(segs)
  OBVIOUS
<1>3. TextRun(B, segs)
  BY <1>1, <1>2, TextRuns
<1>4. PICK p, N : AcceptedAt(dets, segs, B, p, N)
  BY <1>1, <1>2, AcceptedAre
<1>5. N \in Nat /\ DOMAIN dets = 1 .. N /\ Len(dets) = N
  BY <1>4 DEF AcceptedAt
<1>6. PICK s, e, y, l : s = Starts(dets, N) /\ e = Ends(dets, N) /\ y = Synthetics(dets, salt, N) /\ l = Len(segs)
  OBVIOUS
<1>7. \A k \in 0 .. l : B[k] \in Seq(CharSet) /\ Len(B[k]) \in Nat
  BY <1>3, <1>6 DEF TextRun
<1>8. text \in Seq(CharSet) /\ text = B[l]
  BY <1>1, <1>2, <1>6, <1>7
<1>9. ASSUME NEW n \in 1 .. N
      PROVE  /\ p[n] \in 1 .. l /\ p[n] - 1 \in 0 .. l /\ p[n] \in 0 .. l
             /\ s[n] = Len(B[p[n] - 1]) /\ e[n] = Len(B[p[n]]) /\ y[n] = synthetic_for(segs[p[n]], salt)
             /\ segs[p[n]].type # "plain" /\ dets[n].entity = segs[p[n]]
  <2>1. p[n] \in 1 .. l /\ segs[p[n]].type # "plain" /\ dets[n].entity = segs[p[n]]
    BY <1>4, <1>6 DEF AcceptedAt
  <2>2. dets[n].start = Len(B[p[n] - 1]) /\ dets[n].end = Len(B[p[n]])
    BY <1>4 DEF AcceptedAt
  <2>3. n \in 0 .. N /\ n # 0
    BY <1>5
  <2>4. s[n] = dets[n].start /\ e[n] = dets[n].end /\ y[n] = synthetic_for(dets[n].entity, salt)
    BY <1>6, <2>3 DEF Starts, Ends, Synthetics
  <2>5. p[n] - 1 \in 0 .. l /\ p[n] \in 0 .. l
    BY <1>1, <1>6, <2>1
  <2> QED BY <2>1, <2>2, <2>4, <2>5
<1>10. \A n \in 1 .. N : dets[n].entity \in Entity
  <2> SUFFICES ASSUME NEW n \in 1 .. N PROVE dets[n].entity \in Entity
    OBVIOUS
  <2>1. segs[p[n]] \in Segment /\ segs[p[n]].type # "plain"
    BY <1>1, <1>6, <1>9
  <2> QED BY <1>9, <2>1, SegmentText
<1>11. e[0] = 0
  BY <1>5, <1>6 DEF Ends
<1>12. ASSUME NEW n \in 0 .. N PROVE e[n] \in Nat /\ e[n] <= Len(text)
  <2>1. CASE n = 0
    BY <1>8, <1>11, <2>1
  <2>2. CASE n # 0
    <3>1. n \in 1 .. N
      BY <1>5, <2>2
    <3>2. PICK k \in 0 .. l : k = p[n] /\ k <= l /\ l \in 0 .. l
      BY <1>1, <1>6, <1>9, <3>1
    <3>3. Len(B[k]) <= Len(B[l])
      BY <1>1, <1>3, <1>6, <3>2, TextGrows
    <3> QED BY <1>7, <1>8, <1>9, <3>1, <3>2, <3>3
  <2> QED BY <2>1, <2>2
<1>13. ASSUME NEW n \in 1 .. N
       PROVE  s[n] \in Nat /\ e[n - 1] <= s[n] /\ s[n] <= e[n] /\ y[n] \in Seq(CharSet)
  <2>1. PICK k, h : k = p[n] /\ h = k - 1 /\ k \in 0 .. l /\ h \in 0 .. l /\ h <= k /\ k \in 1 .. l
    BY <1>1, <1>6, <1>9
  <2>2. s[n] \in Nat /\ s[n] = Len(B[h])
    BY <1>7, <1>9, <2>1
  <2>3. s[n] <= e[n]
    <3>1. Len(B[h]) <= Len(B[k])
      BY <1>1, <1>3, <1>6, <2>1, TextGrows
    <3> QED BY <1>9, <2>1, <2>2, <3>1
  <2>4. y[n] \in Seq(CharSet)
    BY <1>6, <1>9 DEF Written
  <2>5. e[n - 1] <= s[n]
    <3>1. CASE n = 1
      <4>1. e[n - 1] = 0
        BY <1>11, <3>1
      <4> QED BY <2>2, <4>1
    <3>2. CASE n # 1
      <4>1. PICK m : m = n - 1 /\ m \in 1 .. N /\ m < n
        BY <1>5, <3>2
      <4>2. PICK i : i = p[m] /\ i \in 0 .. l
        BY <1>9, <4>1
      <4>3. i < k
        BY <1>4, <2>1, <4>1, <4>2 DEF AcceptedAt
      <4>4. i <= h
        BY <1>1, <1>6, <2>1, <4>2, <4>3
      <4>5. Len(B[i]) <= Len(B[h])
        BY <1>1, <1>3, <1>6, <2>1, <4>2, <4>4, TextGrows
      <4>6. e[m] = Len(B[i])
        BY <1>9, <4>1, <4>2
      <4> QED BY <2>2, <4>1, <4>5, <4>6
    <3> QED BY <3>1, <3>2
  <2> QED BY <2>2, <2>3, <2>4, <2>5
<1>14. Spans(CharSet, text, N, s, e, y)
  BY <1>5, <1>8, <1>11, <1>12, <1>13 DEF Spans
<1> QED BY <1>5, <1>6, <1>10, <1>14

-----------------------------------------------------------------------------
(* apply_substitution. *)

ComponentLists == {decompose(e, v) : e \in Entity, v \in Seq(CharSet)}
Pairs == [key : Seq(CharSet), value : ComponentLists]
ForwardState == [out : Seq(CharSet), cursor : Nat, components : Seq(Pairs)]

LEMMA PutTypes ==
  ASSUME NEW dict \in Seq(Pairs), NEW key \in Seq(CharSet), NEW value \in ComponentLists
  PROVE  Put(dict, key, value) \in Seq(Pairs)
<1>1. PICK pair : pair = [key |-> key, value |-> value]
  OBVIOUS
<1>2. pair \in Pairs
  BY <1>1 DEF Pairs
<1>3. PICK l \in Nat : l = Len(dict) /\ DOMAIN dict = 1 .. l /\ \A n \in 1 .. l : dict[n] \in Pairs
  OBVIOUS
<1> DEFINE new == [n \in DOMAIN dict |-> IF dict[n].key = key THEN pair ELSE dict[n]]
<1>4. new \in [1 .. l -> Pairs]
  BY <1>2, <1>3
<1>5. Put(dict, key, value) = new \/ Put(dict, key, value) = Append(dict, pair)
  BY <1>1 DEF Put
<1> HIDE DEF new
<1>6. new \in Seq(Pairs)
  BY <1>3, <1>4
<1>7. Append(dict, pair) \in Seq(Pairs)
  BY <1>2, AppendProperties
<1> QED BY <1>5, <1>6, <1>7

\* A detection the loop can meet.
Meets(text, salt, det) ==
  /\ det.start \in Nat /\ det.end \in Nat /\ det.start <= Len(text) /\ det.entity \in Entity
  /\ synthetic_for(det.entity, salt) \in Seq(CharSet)

\* What one turn of the loop leaves.
Turned(text, salt, acc, det, r) ==
  acc.cursor <= det.start =>
    /\ r.out = (acc.out \o Cut(text, acc.cursor, det.start)) \o synthetic_for(det.entity, salt)
    /\ r.cursor = det.end

LEMMA SubstituteDoes ==
  ASSUME NEW text \in Seq(CharSet), NEW salt, NEW acc \in ForwardState, NEW det, Meets(text, salt, det),
         NEW r, r = Substitute(text, salt, acc, det)
  PROVE  r \in ForwardState /\ Turned(text, salt, acc, det, r)
<1>1. PICK v, a, b, o, c : /\ v = synthetic_for(det.entity, salt) /\ a = acc.cursor /\ b = det.start
                           /\ o = acc.out /\ c = acc.components
  OBVIOUS
<1>2. v \in Seq(CharSet) /\ a \in Nat /\ b \in Nat /\ b <= Len(text) /\ o \in Seq(CharSet) /\ c \in Seq(Pairs)
  BY <1>1 DEF Meets, ForwardState
<1>3. PICK g, d, out : g = Cut(text, a, b) /\ d = Put(c, v, decompose(det.entity, v)) /\ out = (o \o g) \o v
  OBVIOUS
<1>4. r = IF b < a THEN acc ELSE [out |-> out, cursor |-> det.end, components |-> d]
  BY <1>1, <1>3 DEF Substitute, Cut
<1>5. CASE b < a
  <2>1. r = acc /\ ~(a <= b)
    BY <1>2, <1>4, <1>5
  <2> QED BY <1>1, <2>1 DEF Turned
<1>6. CASE a <= b
  <2>1. Within(text, a, b)
    BY <1>2, <1>6 DEF Within
  <2>2. g \in Seq(CharSet)
    <3>1. Piece(g, CharSet, text, a, b)
      BY <1>3, <2>1, CutList
    <3> QED BY <3>1 DEF Piece
  <2>3. o \o g \in Seq(CharSet)
    BY <1>2, <2>2, ConcatProperties
  <2>4. out \in Seq(CharSet)
    BY <1>2, <1>3, <2>3, ConcatProperties
  <2>5. d \in Seq(Pairs)
    <3>1. decompose(det.entity, v) \in ComponentLists
      BY <1>2 DEF ComponentLists, Meets
    <3> QED BY <1>2, <1>3, <3>1, PutTypes
  <2>6. r = [out |-> out, cursor |-> det.end, components |-> d]
    BY <1>2, <1>4, <1>6
  <2>7. r \in ForwardState /\ r.out = out /\ r.cursor = det.end
    BY <2>4, <2>5, <2>6 DEF Meets, ForwardState
  <2> QED BY <1>1, <1>3, <2>7 DEF Turned
<1>7. b < a \/ a <= b
  BY <1>2
<1> QED BY <1>5, <1>6, <1>7

ForwardRun(f, text, salt, dets, N) ==
  /\ f[0] = [out |-> <<>>, cursor |-> 0, components |-> <<>>]
  /\ \A n \in 1 .. N : f[n] = Substitute(text, salt, f[n - 1], dets[n])
  /\ \A n \in 0 .. N : f[n] \in ForwardState

LEMMA ForwardRuns ==
  ASSUME NEW text \in Seq(CharSet), NEW salt, NEW dets, NEW N \in Nat, Len(dets) = N,
         SortedByStart(dets) = dets, \A n \in 1 .. N : Meets(text, salt, dets[n])
  PROVE  \E f : /\ ForwardRun(f, text, salt, dets, N)
                /\ apply_substitution(text, dets, salt).sanitised_text = f[N].out \o Cut(text, f[N].cursor, Len(text))
<1> DEFINE X == ForwardState
           start == [out |-> <<>>, cursor |-> 0, components |-> <<>>]
           F == [q \in X \X (1 .. N) |-> Substitute(text, salt, q[1], dets[q[2]])]
           run(f) == [n \in 0 .. N |-> IF n = 0 THEN start ELSE Substitute(text, salt, f[n - 1], dets[n])]
           state == CHOOSE f : f = run(f)
<1>1. start \in X
  BY DEF ForwardState
<1>2. apply_substitution(text, dets, salt).sanitised_text = state[N].out \o Cut(text, state[N].cursor, Len(text))
  <2> DEFINE r(f) == [n \in 0 .. Len(dets) |-> IF n = 0 THEN start ELSE Substitute(text, salt, f[n - 1], dets[n])]
             done == (CHOOSE f : f = r(f))[Len(dets)]
  <2>1. apply_substitution(text, dets, salt).sanitised_text = done.out \o Cut(text, done.cursor, Len(text))
    <3>1. PICK sorted : sorted = SortedByStart(dets)
      OBVIOUS
    <3>2. sorted = dets
      BY <3>1
    <3> DEFINE q(f) == [n \in 0 .. Len(sorted) |-> IF n = 0 THEN start ELSE Substitute(text, salt, f[n - 1], sorted[n])]
               last == (CHOOSE f : f = q(f))[Len(sorted)]
    <3>3. apply_substitution(text, dets, salt).sanitised_text = last.out \o Cut(text, last.cursor, Len(text))
      BY <3>1 DEF apply_substitution, Loop, Cut
    <3>4. last = done
      BY <3>2
    <3> HIDE DEF last, done
    <3> QED BY <3>3, <3>4
  <2>2. done = state[N]
    OBVIOUS
  <2> HIDE DEF done, state
  <2> QED BY <2>1, <2>2
<1>3. \A x \in X, n \in 1 .. N : Substitute(text, salt, x, dets[n]) \in X
  BY SubstituteDoes
<1> HIDE DEF X, start
<1>4. F \in [X \X (1 .. N) -> X]
  BY <1>3
<1>5. \E f : f = run(f)
  <2>1. PICK f : IsRun(f, X, start, N, F)
    <3> HIDE DEF F
    <3> QED BY <1>1, <1>4, Recursion
  <2>2. f \in [0 .. N -> X] /\ f[0] = start
    BY <2>1 DEF IsRun
  <2>3. ASSUME NEW n \in 1 .. N PROVE f[n] = Substitute(text, salt, f[n - 1], dets[n])
    <3>1. f[n] = F[<<f[n - 1], n>>]
      BY <2>1 DEF IsRun
    <3>2. n - 1 \in 0 .. N
      OBVIOUS
    <3>3. f[n - 1] \in X
      BY <2>2, <3>2
    <3> QED BY <3>1, <3>3
  <2>4. f = run(f)
    BY <2>2, <2>3
  <2> QED BY <2>4
<1>6. state = run(state)
  BY <1>5
<1> HIDE DEF state
<1>7. state[0] = start /\ \A n \in 1 .. N : state[n] = Substitute(text, salt, state[n - 1], dets[n])
  BY <1>6
<1>8. \A n \in 0 .. N : state[n] \in X
  <2>1. \A n \in 1 .. N : state[n - 1] \in X => state[n] \in X
    BY <1>3, <1>7
  <2>2. state[0] \in X
    BY <1>1, <1>7
  <2> QED BY <2>1, <2>2, RunStays
<1> QED BY <1>2, <1>7, <1>8 DEF X, start, ForwardRun

\* Spans that come one behind the other start in ascending order.
LEMMA StartsRise ==
  ASSUME NEW S, NEW text, NEW N, NEW s, NEW e, NEW y, Spans(S, text, N, s, e, y),
         NEW m \in 1 .. N, NEW n \in 1 .. N, m <= n
  PROVE  s[m] <= s[n] /\ s[m] \in Nat /\ s[n] \in Nat
<1>1. N \in Nat /\ \A k \in 1 .. N : s[k] \in Nat
  BY DEF Spans
<1> DEFINE T == {d \in Nat : m + d <= N => s[m] <= s[m + d]}
<1>2. 0 \in T
  BY <1>1
<1>3. ASSUME NEW d \in T PROVE d + 1 \in T
  <2> SUFFICES ASSUME m + (d + 1) <= N PROVE s[m] <= s[m + (d + 1)]
    OBVIOUS
  <2>1. PICK j \in 1 .. N, k \in 1 .. N : j = m + d /\ k = m + (d + 1) /\ k - 1 = j
    BY <1>1
  <2>2. s[m] <= s[j]
    BY <1>1, <2>1
  <2>3. j \in 0 .. N
    BY <1>1
  <2>4. s[j] <= e[j] /\ e[j] <= s[k] /\ e[j] \in Nat
    BY <2>1, <2>3 DEF Spans
  <2>5. s[m] \in Nat /\ s[j] \in Nat /\ s[k] \in Nat
    BY <1>1
  <2>6. s[m] <= s[k]
    BY <2>2, <2>4, <2>5
  <2> QED BY <2>1, <2>6
<1> HIDE DEF T
<1>4. T = Nat
  <2>1. T \in SUBSET Nat
    BY DEF T
  <2> QED BY <1>2, <1>3, <2>1, SetInduction
<1>5. n - m \in T /\ m + (n - m) = n
  BY <1>1, <1>4
<1>6. s[m] <= s[n]
  BY <1>1, <1>5 DEF T
<1> QED BY <1>1, <1>6

\* Sorting what is in order changes nothing.
LEMMA AscendingStays ==
  ASSUME NEW text, NEW salt, NEW dets, NEW N, NEW s, NEW e, NEW y,
         Describes(dets, salt, N, s, e, y), Spans(CharSet, text, N, s, e, y)
  PROVE  SortedByStart(dets) = dets
<1>1. N \in Nat /\ dets = [n \in 1 .. N |-> dets[n]] /\ DOMAIN dets = 1 .. N /\ s = Starts(dets, N)
  BY DEF Describes, Spans
<1>2. PICK D : D = 1 .. N
  OBVIOUS
<1> DEFINE R == {p \in D \X D : LET a == dets[p[1]].start
                                    b == dets[p[2]].start
                                IN  a < b \/ (a = b /\ p[1] < p[2])}
           order == InOrder(D, R)
<1>3. SortedByStart(dets) = [k \in DOMAIN order |-> dets[order[k]]]
  BY <1>1, <1>2 DEF SortedByStart
<1>4. \A k \in D : s[k] = dets[k].start
  BY <1>1, <1>2 DEF Starts
<1>5. ASSUME NEW m \in D, NEW n \in D PROVE <<m, n>> \in R <=> m < n
  <2>1. m \in Nat /\ n \in Nat /\ m \in 1 .. N /\ n \in 1 .. N
    BY <1>1, <1>2
  <2>2. m <= n => s[m] <= s[n] /\ s[m] \in Nat /\ s[n] \in Nat
    BY <2>1, StartsRise
  <2>3. n <= m => s[n] <= s[m] /\ s[m] \in Nat /\ s[n] \in Nat
    BY <2>1, StartsRise
  <2>4. <<m, n>> \in R <=> s[m] < s[n] \/ (s[m] = s[n] /\ m < n)
    BY <1>4
  <2> HIDE DEF R
  <2> QED BY <2>1, <2>2, <2>3, <2>4
<1> HIDE DEF R
<1>6. StrictOrder(D, R)
  BY <1>1, <1>2, <1>5 DEF StrictOrder
<1>7. IsFiniteSet(D) /\ Cardinality(D) = N
  BY <1>1, <1>2, FS_Interval
<1>8. Enumerates(order, N, D)
  <2>1. /\ order \in [1 .. N -> D] /\ (\A x \in D : \E k \in 1 .. N : order[k] = x)
        /\ \A j, k \in 1 .. N : j < k <=> <<order[j], order[k]>> \in R
    BY <1>6, <1>7, InOrderSorts
  <2> HIDE DEF order
  <2>2. ASSUME NEW j \in 1 .. N, NEW k \in 1 .. N PROVE j < k <=> order[j] < order[k]
    BY <1>5, <2>1
  <2> QED BY <1>1, <2>1, <2>2 DEF Enumerates
<1> DEFINE id == [k \in 1 .. N |-> k]
<1>9. Enumerates(id, N, D)
  BY <1>1, <1>2 DEF Enumerates
<1>10. order = id
  <2> HIDE DEF order, id
  <2>1. D \in SUBSET Int
    BY <1>2
  <2> QED BY <1>8, <1>9, <2>1, SameEnumeration
<1> HIDE DEF order
<1>11. [k \in DOMAIN order |-> dets[order[k]]] = [k \in 1 .. N |-> dets[k]]
  BY <1>10
<1> QED BY <1>1, <1>3, <1>11

\* The loop never skips, and leaves what the left-to-right replacement leaves.
LeavesLeft(text, dets, salt, N, s, e, y) ==
  \E out : /\ FromLeft(CharSet, text, N, s, e, y, out)
           /\ apply_substitution(text, dets, salt).sanitised_text = out[N] \o Cut(text, e[N], Len(text))

LEMMA GoesFromLeft ==
  ASSUME NEW text, NEW salt, NEW dets, NEW N, NEW s, NEW e, NEW y,
         Describes(dets, salt, N, s, e, y), Spans(CharSet, text, N, s, e, y)
  PROVE  LeavesLeft(text, dets, salt, N, s, e, y)
<1> /\ Len(dets) = N /\ \A n \in 1 .. N : dets[n].entity \in Entity
    /\ s = Starts(dets, N) /\ e = Ends(dets, N) /\ y = Synthetics(dets, salt, N)
  BY DEF Describes
<1>1. N \in Nat /\ text \in Seq(CharSet) /\ Len(text) \in Nat /\ e[0] = 0
  BY DEF Spans
<1>2. ASSUME NEW n \in 1 .. N
      PROVE  /\ s[n] = dets[n].start /\ e[n] = dets[n].end /\ y[n] = synthetic_for(dets[n].entity, salt)
             /\ s[n] \in Nat /\ e[n] \in Nat /\ e[n - 1] <= s[n] /\ s[n] <= Len(text) /\ y[n] \in Seq(CharSet)
  <2>1. n \in 0 .. N /\ n # 0
    BY <1>1
  <2>2. s[n] = dets[n].start /\ e[n] = dets[n].end /\ y[n] = synthetic_for(dets[n].entity, salt)
    BY <2>1 DEF Starts, Ends, Synthetics
  <2>3. s[n] \in Nat /\ e[n - 1] <= s[n] /\ s[n] <= e[n] /\ y[n] \in Seq(CharSet) /\ e[n] \in Nat /\ e[n] <= Len(text)
    BY <2>1 DEF Spans
  <2>4. s[n] <= Len(text)
    BY <1>1, <2>3
  <2> QED BY <2>2, <2>3, <2>4
<1>3. \A n \in 1 .. N : Meets(text, salt, dets[n])
  BY <1>2 DEF Meets
<1>9. SortedByStart(dets) = dets
  BY AscendingStays
<1>4. PICK f : /\ ForwardRun(f, text, salt, dets, N)
               /\ apply_substitution(text, dets, salt).sanitised_text = f[N].out \o Cut(text, f[N].cursor, Len(text))
  BY <1>1, <1>3, <1>9, ForwardRuns
<1>5. ASSUME NEW n \in 1 .. N, f[n - 1].cursor = e[n - 1]
      PROVE  f[n].cursor = e[n] /\ f[n].out = (f[n - 1].out \o Cut(text, e[n - 1], s[n])) \o y[n]
  <2>1. PICK acc, det : acc = f[n - 1] /\ det = dets[n]
    OBVIOUS
  <2>2. acc \in ForwardState /\ Meets(text, salt, det) /\ f[n] = Substitute(text, salt, acc, det)
    <3>1. n - 1 \in 0 .. N
      BY <1>1
    <3> QED BY <1>3, <1>4, <2>1, <3>1 DEF ForwardRun
  <2>3. acc.cursor <= det.start
    BY <1>2, <1>5, <2>1
  <2>4. /\ f[n].out = (acc.out \o Cut(text, acc.cursor, det.start)) \o synthetic_for(det.entity, salt)
        /\ f[n].cursor = det.end
    <3>1. Turned(text, salt, acc, det, f[n])
      BY <1>1, <2>2, SubstituteDoes
    <3> QED BY <2>3, <3>1 DEF Turned
  <2> QED BY <1>2, <1>5, <2>1, <2>4
<1>6. \A n \in 0 .. N : f[n].cursor = e[n]
  <2> DEFINE T == {n \in Nat : n <= N => f[n].cursor = e[n]}
  <2>1. 0 \in T
    <3>1. f[0].cursor = 0
      BY <1>4 DEF ForwardRun
    <3> QED BY <1>1, <3>1
  <2>2. ASSUME NEW n \in T PROVE n + 1 \in T
    <3>1. ASSUME n + 1 <= N PROVE f[n + 1].cursor = e[n + 1]
      <4>1. PICK m \in 1 .. N : m = n + 1 /\ m - 1 = n
        BY <1>1, <3>1
      <4>2. f[m - 1].cursor = e[m - 1]
        BY <1>1, <4>1
      <4> QED BY <1>5, <4>1, <4>2
    <3> QED BY <3>1
  <2> HIDE DEF T
  <2>3. T = Nat
    <3>1. T \in SUBSET Nat
      BY DEF T
    <3> QED BY <2>1, <2>2, <3>1, SetInduction
  <2> QED BY <1>1, <2>3 DEF T
<1> DEFINE out == [n \in 0 .. N |-> f[n].out]
<1>7. FromLeft(CharSet, text, N, s, e, y, out)
  <2>1. out[0] = <<>>
    BY <1>1, <1>4 DEF ForwardRun
  <2>2. \A n \in 0 .. N : out[n] \in Seq(CharSet)
    BY <1>4 DEF ForwardRun, ForwardState
  <2>3. ASSUME NEW n \in 1 .. N PROVE out[n] = (out[n - 1] \o Cut(text, e[n - 1], s[n])) \o y[n]
    <3>1. n - 1 \in 0 .. N /\ n \in 0 .. N
      BY <1>1
    <3>2. f[n - 1].cursor = e[n - 1]
      BY <1>6, <3>1
    <3> QED BY <1>5, <3>1, <3>2
  <2> HIDE DEF out
  <2> QED BY <2>1, <2>2, <2>3 DEF FromLeft
<1>8. out[N] = f[N].out /\ f[N].cursor = e[N]
  BY <1>1, <1>6
<1> HIDE DEF out
<1> QED BY <1>4, <1>7, <1>8 DEF LeavesLeft

-----------------------------------------------------------------------------
(* The reference. *)

LEMMA ReplacedLists ==
  ASSUME NEW S, NEW t \in Seq(S), NEW a, NEW b, Within(t, a, b), NEW v \in Seq(S), NEW r, r = Replaced(t, a, b, v)
  PROVE  r \in Seq(S) /\ a <= Len(r)
<1>1. PICK o \in Nat, l \in Nat : o = 0 /\ l = Len(t)
  OBVIOUS
<1>2. a \in Nat /\ Within(t, o, a) /\ Within(t, b, l) /\ a - o = a
  BY <1>1 DEF Within
<1>3. PICK p, q, w : p = Cut(t, o, a) /\ q = Cut(t, b, l) /\ w = p \o v
  OBVIOUS
<1>4. p \in Seq(S) /\ q \in Seq(S) /\ Len(p) = a
  <2>1. Piece(p, S, t, o, a) /\ Piece(q, S, t, b, l)
    BY <1>2, <1>3, CutList
  <2> QED BY <1>2, <2>1 DEF Piece
<1>5. w \in Seq(S) /\ Len(w) = Len(p) + Len(v)
  BY <1>3, <1>4, ConcatProperties
<1>6. r = w \o q
  BY <1>1, <1>3 DEF Replaced
<1>7. r \in Seq(S) /\ Len(r) = Len(w) + Len(q)
  BY <1>4, <1>5, <1>6, ConcatProperties
<1>8. Len(v) \in Nat /\ Len(q) \in Nat
  BY <1>4
<1> QED BY <1>2, <1>4, <1>5, <1>7, <1>8

LEMMA SpliceReplaces ==
  ASSUME NEW t, NEW det, NEW v
  PROVE  Splice(t, det, v) = Replaced(t, det.start, det.end, v)
<1>1. 0 + 1 = 1
  OBVIOUS
<1> QED BY <1>1 DEF Splice, Replaced, Cut

\* Replacing from the right stays inside the text that is left of it.
LEMMA RightRuns ==
  ASSUME NEW S, NEW text, NEW N, NEW s, NEW e, NEW y, Spans(S, text, N, s, e, y)
  PROVE  \E f : DOMAIN f = 0 .. N /\ f = [j \in 0 .. N |-> f[j]] /\ FromRight(text, N, s, e, y, f)
<1>1. N \in Nat /\ text \in Seq(S)
  BY DEF Spans
<1> DEFINE X == Seq(S)
           at(j) == (N + 1) - j
           F == [q \in X \X (1 .. N) |-> IF e[at(q[2])] <= Len(q[1])
                                         THEN Replaced(q[1], s[at(q[2])], e[at(q[2])], y[at(q[2])]) ELSE q[1]]
<1>2. \A j \in 1 .. N : at(j) \in 1 .. N
  BY <1>1
<1>3. ASSUME NEW x \in X, NEW j \in 1 .. N, e[at(j)] <= Len(x)
      PROVE  LET r == Replaced(x, s[at(j)], e[at(j)], y[at(j)]) IN r \in X /\ s[at(j)] <= Len(r)
  <2>1. PICK n \in 1 .. N : n = at(j)
    BY <1>2
  <2>2. PICK a, b, v : a = s[n] /\ b = e[n] /\ v = y[n]
    OBVIOUS
  <2>3. n \in 0 .. N
    BY <1>1
  <2>4. a \in Nat /\ a <= b /\ v \in Seq(S) /\ b \in Nat
    BY <2>2, <2>3 DEF Spans
  <2>5. Within(x, a, b)
    BY <1>3, <2>1, <2>2, <2>4 DEF Within
  <2>6. PICK r : r = Replaced(x, a, b, v)
    OBVIOUS
  <2>7. r \in Seq(S) /\ a <= Len(r)
    BY <2>4, <2>5, <2>6, ReplacedLists
  <2> QED BY <2>1, <2>2, <2>6, <2>7
<1> HIDE DEF X, at
<1>4. F \in [X \X (1 .. N) -> X]
  BY <1>3
<1>5. PICK f : IsRun(f, X, text, N, F)
  <2>1. text \in X
    BY <1>1 DEF X
  <2> HIDE DEF F
  <2> QED BY <1>1, <1>4, <2>1, Recursion
<1>6. f \in [0 .. N -> X] /\ f[0] = text
  BY <1>5 DEF IsRun
<1>7. ASSUME NEW j \in 1 .. N, e[at(j)] <= Len(f[j - 1])
      PROVE  /\ f[j] = Replaced(f[j - 1], s[at(j)], e[at(j)], y[at(j)])
             /\ s[at(j)] <= Len(f[j])
  <2>1. f[j] = F[<<f[j - 1], j>>]
    BY <1>5 DEF IsRun
  <2>2. j - 1 \in 0 .. N
    BY <1>1
  <2>3. f[j - 1] \in X
    BY <1>6, <2>2
  <2>4. f[j] = Replaced(f[j - 1], s[at(j)], e[at(j)], y[at(j)])
    BY <1>7, <2>1, <2>3
  <2> QED BY <1>3, <1>7, <2>3, <2>4
<1> DEFINE Long(j, n) == e[n] <= Len(f[j])
           T == {j \in Nat : j <= N => Long(j, N - j)}
<1>8. 0 \in T
  <2>1. e[N] <= Len(text) /\ N - 0 = N
    BY <1>1 DEF Spans
  <2> QED BY <1>6, <2>1
<1>9. ASSUME NEW j \in T PROVE j + 1 \in T
  <2> SUFFICES ASSUME j + 1 <= N PROVE Long(j + 1, N - (j + 1))
    <3> HIDE DEF Long
    <3> QED OBVIOUS
  <2>1. PICK n \in 1 .. N, m \in 0 .. N, k \in 1 .. N :
          n = N - j /\ m = n - 1 /\ m = N - (j + 1) /\ k = j + 1 /\ k - 1 = j /\ n = (N + 1) - k /\ j <= N
    BY <1>1
  <2>2. Long(j, n) /\ n = at(k)
    <3> HIDE DEF Long
    <3> QED BY <2>1 DEF at
  <2>3. s[n] <= Len(f[k])
    BY <1>7, <2>1, <2>2
  <2>4. e[m] <= s[n] /\ e[m] \in Nat /\ s[n] \in Nat
    BY <2>1 DEF Spans
  <2>5. Len(f[k]) \in Nat
    <3>1. k \in 0 .. N
      BY <1>1
    <3>2. f[k] \in Seq(S)
      BY <1>6, <3>1 DEF X
    <3> QED BY <3>2
  <2>6. Long(k, m)
    BY <2>3, <2>4, <2>5
  <2> HIDE DEF Long
  <2> QED BY <2>1, <2>6
<1> HIDE DEF T, Long
<1>10. T = Nat
  <2>1. T \in SUBSET Nat
    BY DEF T
  <2> QED BY <1>8, <1>9, <2>1, SetInduction
<1>11. ASSUME NEW j \in 1 .. N PROVE f[j] = Replaced(f[j - 1], s[(N + 1) - j], e[(N + 1) - j], y[(N + 1) - j])
  <2>1. PICK i : i = j - 1 /\ i \in Nat /\ i <= N /\ N - i = (N + 1) - j
    BY <1>1
  <2>2. Long(i, (N + 1) - j)
    BY <1>10, <2>1 DEF T
  <2> QED BY <1>7, <2>1, <2>2 DEF Long, at
<1>12. FromRight(text, N, s, e, y, f)
  BY <1>6, <1>11 DEF FromRight
<1> QED BY <1>6, <1>12

LeavesRight(text, dets, salt, N, s, e, y) ==
  \E t : FromRight(text, N, s, e, y, t) /\ Spliced(text, dets, salt) = t[N]

LEMMA GoesFromRight ==
  ASSUME NEW text, NEW salt, NEW dets, NEW N, NEW s, NEW e, NEW y,
         Describes(dets, salt, N, s, e, y), Spans(CharSet, text, N, s, e, y)
  PROVE  LeavesRight(text, dets, salt, N, s, e, y)
<1> DEFINE rev == Reverse(dets)
           body(t, j) == Splice(t, rev[j], synthetic_for(rev[j].entity, salt))
           run(f) == [j \in 0 .. N |-> IF j = 0 THEN text ELSE body(f[j - 1], j)]
           state == CHOOSE f : f = run(f)
<1> Len(dets) = N /\ s = Starts(dets, N) /\ e = Ends(dets, N) /\ y = Synthetics(dets, salt, N)
  BY DEF Describes
<1>1. N \in Nat
  BY DEF Spans
<1>2. rev = [j \in 1 .. N |-> dets[(N - j) + 1]]
  BY DEF Reverse
<1>3. Len(rev) = N
  BY <1>1, <1>2
<1>4. Spliced(text, dets, salt) = state[N]
  <2> DEFINE r(f) == [j \in 0 .. Len(rev) |-> IF j = 0 THEN text ELSE body(f[j - 1], j)]
             done == (CHOOSE f : f = r(f))[Len(rev)]
  <2>1. Spliced(text, dets, salt) = done
    BY DEF Spliced, Loop
  <2> HIDE DEF rev
  <2> QED BY <1>3, <2>1
<1>5. ASSUME NEW t, NEW j \in 1 .. N
      PROVE  body(t, j) = Replaced(t, s[(N + 1) - j], e[(N + 1) - j], y[(N + 1) - j])
  <2>1. PICK n \in 1 .. N : n = (N + 1) - j /\ n = (N - j) + 1 /\ n \in 0 .. N /\ n # 0
    BY <1>1
  <2>2. rev[j] = dets[n]
    BY <1>2, <2>1
  <2>3. s[n] = dets[n].start /\ e[n] = dets[n].end /\ y[n] = synthetic_for(dets[n].entity, salt)
    BY <2>1 DEF Starts, Ends, Synthetics
  <2>4. body(t, j) = Splice(t, dets[n], y[n])
    BY <2>2, <2>3
  <2>5. Splice(t, dets[n], y[n]) = Replaced(t, s[n], e[n], y[n])
    BY <2>3, SpliceReplaces
  <2> QED BY <2>1, <2>4, <2>5
<1>6. PICK f : f = [j \in 0 .. N |-> f[j]] /\ FromRight(text, N, s, e, y, f)
  BY RightRuns
<1> HIDE DEF body
<1>7. \A j \in 1 .. N : f[j] = body(f[j - 1], j)
  <2> TAKE j \in 1 .. N
  <2>1. f[j] = Replaced(f[j - 1], s[(N + 1) - j], e[(N + 1) - j], y[(N + 1) - j])
    BY <1>6 DEF FromRight
  <2>2. body(f[j - 1], j) = Replaced(f[j - 1], s[(N + 1) - j], e[(N + 1) - j], y[(N + 1) - j])
    BY <1>5
  <2> QED BY <2>1, <2>2
<1>8. f[0] = text
  BY <1>6 DEF FromRight
<1>9. f = run(f)
  <2>1. \A j \in 0 .. N : f[j] = run(f)[j]
    BY <1>1, <1>7, <1>8
  <2> QED BY <1>6, <2>1
<1>10. state = run(state)
  BY <1>9
<1> HIDE DEF state
<1>11. state[0] = text /\ \A j \in 1 .. N : state[j] = body(state[j - 1], j)
  BY <1>1, <1>10
<1>12. FromRight(text, N, s, e, y, state)
  BY <1>5, <1>11 DEF FromRight
<1> QED BY <1>4, <1>12 DEF LeavesRight

\* What the loop puts together is the text with the spans replaced.
LEMMA ForwardIsSplice ==
  ASSUME NEW segs, NEW salt, Written(segs, salt), NEW text, text = Beginnings(segs)[Len(segs)],
         NEW dets, dets = Accepted(segs)
  PROVE  apply_substitution(text, dets, salt).sanitised_text = Spliced(text, dets, salt)
<1>1. PICK N : /\ N \in Nat /\ DOMAIN dets = 1 .. N /\ Len(dets) = N
               /\ \A n \in 1 .. N : dets[n].entity \in Entity
               /\ Spans(CharSet, text, N, Starts(dets, N), Ends(dets, N), Synthetics(dets, salt, N))
  BY AcceptedSpans
<1>2. PICK s, e, y : s = Starts(dets, N) /\ e = Ends(dets, N) /\ y = Synthetics(dets, salt, N)
  OBVIOUS
<1>3. Describes(dets, salt, N, s, e, y) /\ Spans(CharSet, text, N, s, e, y)
  <2>1. dets = [n \in 1 .. N |-> dets[n]]
    BY <1>1 DEF Accepted
  <2> QED BY <1>1, <1>2, <2>1 DEF Describes
<1>4. PICK out : /\ FromLeft(CharSet, text, N, s, e, y, out)
                 /\ apply_substitution(text, dets, salt).sanitised_text = out[N] \o Cut(text, e[N], Len(text))
  <2>1. LeavesLeft(text, dets, salt, N, s, e, y)
    BY <1>3, GoesFromLeft, Zenon
  <2> QED BY <2>1 DEF LeavesLeft
<1>5. PICK t : FromRight(text, N, s, e, y, t) /\ Spliced(text, dets, salt) = t[N]
  <2>1. LeavesRight(text, dets, salt, N, s, e, y)
    BY <1>3, GoesFromRight, Zenon
  <2> QED BY <2>1 DEF LeavesRight
<1>6. out[N] \o Cut(text, e[N], Len(text)) = t[N]
  <2>1. FromLeft(CharSet, text, N, s, e, y, out) /\ FromRight(text, N, s, e, y, t)
    BY <1>4, <1>5
  <2>2. SameText(text, N, e, out, t)
    BY <1>3, <2>1, SameFromBothEnds, Zenon
  <2> QED BY <2>2 DEF SameText
<1> QED BY <1>4, <1>5, <1>6

-----------------------------------------------------------------------------
\* Every value of the hash gives the entities of the request texts.
LEMMA SaltGives ==
  ASSUME segments \in BoundedSeq(Segment, MaxSegments), pick \in Picks
  PROVE  Written(segments, pick)
<1>1. segments \in Seq(Segment)
  <2>1. PICK n \in 0 .. MaxSegments : segments \in [1 .. n -> Segment]
    BY DEF BoundedSeq, SeqOf
  <2> QED BY <2>1
<1>2. PICK p, N : AcceptedAt(Detections, segments, Beginnings(segments), p, N)
  BY <1>1, AcceptedAre DEF Detections
<1>3. ASSUME NEW k \in 1 .. Len(segments), segments[k].type # "plain"
      PROVE  synthetic_for(segments[k], pick) \in Seq(CharSet)
  <2>1. PICK g : g = segments[k]
    OBVIOUS
  <2>2. g \in Segment /\ g.type # "plain"
    BY <1>1, <1>3, <2>1
  <2>3. g \in Entity /\ g.text \in Seq(CharSet)
    BY <2>2, SegmentText
  <2>4. g \in Used
    <3>1. PICK n \in 1 .. N : p[n] = k
      BY <1>2, <1>3 DEF AcceptedAt
    <3>2. Detections[n].entity = g /\ n \in DOMAIN Detections
      BY <1>2, <2>1, <3>1 DEF AcceptedAt
    <3> QED BY <3>2 DEF Used
  <2>5. CASE g.type \in Verbatim
    BY <2>1, <2>3, <2>5 DEF synthetic_for
  <2>6. SaltStart \in Seq(CharSet)
    BY TextAssumption, StringsAreTexts
  <2>7. CASE g.type \in (DOMAIN Pool) \ Verbatim
    <3>1. pick[g] \in _pick(Pool[g.type])
      BY <2>4, <2>7 DEF Picks
    <3>2. Pool[g.type] \subseteq Seq(STRING)
      BY <2>7, TextAssumption
    <3>3. <<"<">> \o SaltStart \o <<">">> \in Seq(CharSet)
      <4>1. PICK open, close : open = <<"<">> /\ close = <<">">>
        OBVIOUS
      <4>2. open \in Seq(CharSet) /\ close \in Seq(CharSet)
        BY <4>1 DEF CharSet, TagChars
      <4>3. open \o SaltStart \in Seq(CharSet)
        BY <2>6, <4>2, ConcatProperties, Zenon
      <4>4. (open \o SaltStart) \o close \in Seq(CharSet)
        BY <4>2, <4>3, ConcatProperties, Zenon
      <4> QED BY <4>1, <4>4
    <3>4. pick[g] \in Seq(CharSet)
      <4>1. CASE Pool[g.type] = {}
        BY <3>1, <3>3, <4>1 DEF _pick
      <4>2. CASE Pool[g.type] # {}
        <5>1. pick[g] \in Seq(STRING)
          BY <3>1, <3>2, <4>2 DEF _pick
        <5> QED BY <5>1, StringsAreTexts
      <4> QED BY <4>1, <4>2
    <3>5. synthetic_for(g, pick) = pick[g]
      BY <2>7 DEF synthetic_for
    <3> QED BY <2>1, <3>4, <3>5
  <2>8. CASE g.type \notin Verbatim /\ g.type \notin DOMAIN Pool
    <3>1. synthetic_for(g, pick) = Custom
      BY <2>8 DEF synthetic_for
    <3>2. Custom \in Seq(CharSet)
      <4>1. PICK open, close : /\ open = <<"<", "c", "u", "s", "t", "o", "m", "-">>
                               /\ close = <<">">>
        OBVIOUS
      <4>2. open \in Seq(CharSet) /\ close \in Seq(CharSet)
        BY <4>1 DEF CharSet, TagChars
      <4>3. open \o SaltStart \in Seq(CharSet)
        BY <2>6, <4>2, ConcatProperties, Zenon
      <4>4. (open \o SaltStart) \o close \in Seq(CharSet)
        BY <4>2, <4>3, ConcatProperties, Zenon
      <4> QED BY <4>1, <4>4 DEF Custom
    <3> QED BY <2>1, <3>1, <3>2
  <2> QED BY <2>5, <2>7, <2>8
<1> QED BY <1>1, <1>3 DEF Written

\* The salt gives every entity of the request a text, and the forward result is
\* the spliced text.
ForwardInv == Written(segments, pick) /\ ForwardSplices

\* ForwardSplices: whatever the request, the dictionaries and the salt,
\* apply_substitution gives the text with each accepted span replaced by its
\* synthetic value, and nothing else moved, lost or repeated.
THEOREM ForwardAlwaysSplices == Spec => []ForwardSplices
<1>1. Init => ForwardInv
  <2> SUFFICES ASSUME Init PROVE ForwardInv
    OBVIOUS
  <2>1. Written(segments, pick)
    BY SaltGives DEF Init
  <2>2. ForwardSplices
    BY DEF Init, ForwardSplices
  <2> QED BY <2>1, <2>2 DEF ForwardInv
<1>2. ForwardInv /\ [Next]_vars => ForwardInv'
  <2> SUFFICES ASSUME ForwardInv, [Next]_vars PROVE ForwardInv'
    OBVIOUS
  <2>1. segments' = segments /\ pick' = pick
    BY DEF Next, vars, Sanitise, Answer, Desanitise
  <2>2. Text' = Text /\ Detections' = Detections
    BY <2>1 DEF Text, Joined, Detections
  <2>3. Written(segments, pick)'
    BY <2>1 DEF ForwardInv
  <2>4. CASE Sanitise
    <3>1. PICK text, dets : text = Text /\ dets = Detections
      OBVIOUS
    <3>2. apply_substitution(text, dets, pick).sanitised_text = Spliced(text, dets, pick)
      BY <3>1, ForwardIsSplice DEF ForwardInv, Text, Joined, Detections
    <3>3. ForwardSplices'
      BY <2>1, <2>2, <2>4, <3>1, <3>2 DEF ForwardSplices, Sanitise
    <3> QED BY <2>3, <3>3 DEF ForwardInv
  <2>5. CASE forward' = forward
    BY <2>1, <2>2, <2>3, <2>5 DEF ForwardInv, ForwardSplices
  <2> QED BY <2>4, <2>5 DEF Next, Answer, Desanitise, vars
<1>3. ForwardInv => ForwardSplices
  BY DEF ForwardInv
<1> QED BY <1>1, <1>2, <1>3, PTL DEF Spec
=============================================================================
