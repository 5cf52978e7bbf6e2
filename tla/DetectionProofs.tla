-------------------------- MODULE DetectionProofs --------------------------
(***************************************************************************)
(* From the engines' answers to the spans that are masked, for any text    *)
(* and any answers.                                                        *)
(***************************************************************************)
EXTENDS DetectionStage, IdentifierProofs

\* What detector A reports as an account number is one.
Account(x) == x \in Number(20) /\ _rib_key_valid(x)
Genuine(type, detector, x) == type = "bank_account" /\ detector = "structural.dz" => Account(x)

\* A detection that quotes the text, but for its being empty or negative.
Made(text, d) ==
  /\ Genuine(d.entity_type, d.detector, d.text)
  /\ {"start", "end", "confidence", "detector"} \subseteq DOMAIN d
  /\ d.start \in Int /\ d.end \in Int /\ d.end <= Len(text) /\ d.tier \in 1 .. 3
  /\ d.text = Slice(text, d.start, d.end)

Reported(text, ds) == \E Y : ds \in Seq(Y) /\ \A d \in Y : Made(text, d)
Valid(ds) == \E Y : ds \in Seq(Y) /\ \A d \in Y : Constructible(d)

LEMMA NothingReported == ASSUME NEW text PROVE Reported(text, <<>>) /\ Valid(<<>>)
<1>1. PICK Y : Y = {}
  OBVIOUS
<1>2. <<>> \in Seq(Y) /\ (\A d \in Y : Made(text, d)) /\ \A d \in Y : Constructible(d)
  BY <1>1
<1> QED BY <1>2 DEF Reported, Valid

LEMMA ConcatReported ==
  ASSUME NEW text, NEW a, NEW b, Reported(text, a), Reported(text, b)
  PROVE  Reported(text, a \o b)
<1>1. PICK Y : a \in Seq(Y) /\ \A d \in Y : Made(text, d)
  BY DEF Reported
<1>2. PICK Z : b \in Seq(Z) /\ \A d \in Z : Made(text, d)
  BY DEF Reported
<1>3. PICK W : W = Y \cup Z
  OBVIOUS
<1>4. a \in Seq(W) /\ b \in Seq(W) /\ \A d \in W : Made(text, d)
  BY <1>1, <1>2, <1>3
<1>5. a \o b \in Seq(W)
  BY <1>4, ConcatProperties
<1> QED BY <1>4, <1>5 DEF Reported

LEMMA ConcatValid ==
  ASSUME NEW a, NEW b, Valid(a), Valid(b)
  PROVE  Valid(a \o b)
<1>1. PICK Y : a \in Seq(Y) /\ \A d \in Y : Constructible(d)
  BY DEF Valid
<1>2. PICK Z : b \in Seq(Z) /\ \A d \in Z : Constructible(d)
  BY DEF Valid
<1>3. PICK W : W = Y \cup Z
  OBVIOUS
<1>4. a \in Seq(W) /\ b \in Seq(W) /\ \A d \in W : Constructible(d)
  BY <1>1, <1>2, <1>3
<1>5. a \o b \in Seq(W)
  BY <1>4, ConcatProperties
<1> QED BY <1>4, <1>5 DEF Valid

\* A detection passes the constructor or the detector fails: what is handed on
\* quotes the text.
Sound(text, d) == Made(text, d) /\ _span_matches(text, d) /\ d.confidence \in Int
Quoting(text, ds) == \E Y : ds \in Seq(Y) /\ \A d \in Y : Sound(text, d)

LEMMA ConstructQuotes ==
  ASSUME NEW text, NEW ds, Reported(text, ds)
  PROVE  Quoting(text, Construct(ds).detections) /\ (Valid(ds) => ~Construct(ds).raised)
<1>1. PICK Y : ds \in Seq(Y) /\ \A d \in Y : Made(text, d)
  BY DEF Reported
<1>2. CASE \A n \in DOMAIN ds : Constructible(ds[n])
  <2>1. Construct(ds) = Found(ds)
    BY <1>2 DEF Construct
  <2>2. Construct(ds).detections = ds /\ ~Construct(ds).raised
    BY <2>1 DEF Found
  <2> DEFINE Z == {d \in Y : Constructible(d)}
  <2>3. ds \in Seq(Z)
    BY <1>1, <1>2
  <2>4. ASSUME NEW d \in Z PROVE Sound(text, d)
    <3>1. Made(text, d) /\ Constructible(d)
      BY <1>1
    <3>2. _span_matches(text, d)
      BY <3>1 DEF Made, Constructible, _span_matches
    <3>3. d.confidence \in Int
      BY <3>1 DEF Constructible
    <3> QED BY <3>1, <3>2, <3>3 DEF Sound
  <2> HIDE DEF Z
  <2> QED BY <2>2, <2>3, <2>4 DEF Quoting
<1>3. CASE ~ \A n \in DOMAIN ds : Constructible(ds[n])
  <2>1. Construct(ds).detections = <<>>
    BY <1>3 DEF Construct, Failed
  <2>2. Quoting(text, <<>>)
    <3>1. PICK Z : Z = {}
      OBVIOUS
    <3>2. <<>> \in Seq(Z) /\ \A d \in Z : Sound(text, d)
      BY <3>1
    <3> QED BY <3>2 DEF Quoting
  <2>3. ~Valid(ds)
    <3> SUFFICES ASSUME Valid(ds) PROVE FALSE
      OBVIOUS
    <3>1. PICK Z : ds \in Seq(Z) /\ \A d \in Z : Constructible(d)
      BY DEF Valid
    <3> QED BY <1>3, <3>1
  <2> QED BY <2>1, <2>2, <2>3
<1> QED BY <1>2, <1>3

\* Detections of the other detectors.
NotNer(ds) == \A k \in DOMAIN ds : ds[k].detector # "ner"

LEMMA ConcatNotNer ==
  ASSUME NEW text, NEW a, NEW b, Reported(text, a), Reported(text, b), NotNer(a), NotNer(b)
  PROVE  NotNer(a \o b)
<1>1. PICK Y, Z : a \in Seq(Y) /\ b \in Seq(Z)
  BY DEF Reported
<1>2. PICK W, ab : W = Y \cup Z /\ ab = a \o b
  OBVIOUS
<1>3. a \in Seq(W) /\ b \in Seq(W)
  BY <1>1, <1>2
<1>4. /\ ab \in Seq(W) /\ Len(ab) = Len(a) + Len(b)
      /\ \A i \in 1 .. Len(a) + Len(b) : ab[i] = IF i <= Len(a) THEN a[i] ELSE b[i - Len(a)]
  BY <1>2, <1>3, ConcatProperties
<1>5. ASSUME NEW k \in DOMAIN ab PROVE ab[k].detector # "ner"
  <2>1. k \in 1 .. Len(a) + Len(b)
    BY <1>4
  <2>2. (k <= Len(a) => k \in DOMAIN a) /\ (~(k <= Len(a)) => k - Len(a) \in DOMAIN b)
    BY <1>3, <2>1
  <2> QED BY <1>4, <2>1, <2>2 DEF NotNer
<1> QED BY <1>2, <1>5 DEF NotNer

LEMMA ConstructNotNer == ASSUME NEW ds, NotNer(ds) PROVE NotNer(Construct(ds).detections)
<1>1. Construct(ds).detections = ds \/ Construct(ds).detections = <<>>
  BY DEF Construct, Found, Failed
<1>2. NotNer(<<>>)
  BY DEF NotNer
<1> QED BY <1>1, <1>2

\* Detections made of spans of the text.
LEMMA SpansReported ==
  ASSUME NEW text, Len(text) \in Nat, NEW S \in SUBSET SpansIn(text), NEW spans \in Seq(S),
         NEW type, NEW c \in 0 .. 100, NEW tier \in 1 .. 3, NEW detector, NEW rule, NEW ds,
         \A p \in S : Genuine(type, detector, Slice(text, p[1], p[2])),
         ds = [k \in DOMAIN spans |-> Detection(text, type, spans[k], c, tier, detector, rule)]
  PROVE  Reported(text, ds) /\ Valid(ds)
<1> DEFINE made(p) == Detection(text, type, p, c, tier, detector, rule)
           Y == {made(p) : p \in S}
<1>1. Len(spans) \in Nat /\ DOMAIN spans = 1 .. Len(spans) /\ \A k \in 1 .. Len(spans) : spans[k] \in S
  OBVIOUS
<1>2. ds \in [1 .. Len(spans) -> Y]
  BY <1>1
<1>3. ASSUME NEW p \in S PROVE Made(text, made(p)) /\ Constructible(made(p))
  <2>1. p[1] \in Nat /\ p[2] \in Nat /\ p[1] < p[2] /\ p[2] <= Len(text)
    BY DEF SpansIn
  <2> QED BY <2>1 DEF Detection, Made, Constructible
<1>4. \A d \in Y : Made(text, d) /\ Constructible(d)
  BY <1>3
<1> HIDE DEF Y
<1>5. ds \in Seq(Y)
  BY <1>1, <1>2
<1> QED BY <1>4, <1>5 DEF Reported, Valid

-----------------------------------------------------------------------------
(* Detector A. *)

\* The spans of n digits.
RunsIn(text, n) == {p \in SpansIn(text) : Slice(text, p[1], p[2]) \in Number(n)}

LEMMA RunsAreSpans ==
  ASSUME NEW text, Len(text) \in Nat, NEW n \in Nat, n > 0
  PROVE  DigitRuns(text, n) \in Seq(RunsIn(text, n))
<1> DEFINE starts == {s \in 0 .. Len(text) - n : /\ ~IsDigit(text, s) /\ ~IsDigit(text, s + n + 1)
                                                 /\ \A i \in s + 1 .. s + n : IsDigit(text, i)}
           order == InOrder(starts, Less)
           runs == [k \in DOMAIN order |-> <<order[k], order[k] + n>>]
<1>1. DigitRuns(text, n) = runs
  BY DEF DigitRuns
<1>2. starts \in SUBSET (0 .. Len(text) - n)
  OBVIOUS
<1>a. \A s \in starts, i \in Int : s + 1 <= i /\ i <= s + n => text[i] \in Digit
  BY DEF IsDigit
<1> HIDE DEF starts
<1>3. IsFiniteSet(starts)
  <2>1. IsFiniteSet(0 .. Len(text) - n)
    BY FS_Interval
  <2> QED BY <1>2, <2>1, FS_Subset
<1>4. StrictOrder(starts, Less)
  <2>1. \A i \in starts : i \in Nat
    BY <1>2
  <2>2. \A i, j \in starts : <<i, j>> \in Less <=> i < j
    BY <2>1 DEF Less
  <2> QED BY <2>1, <2>2 DEF StrictOrder
<1>5. PICK c : c = Cardinality(starts)
  OBVIOUS
<1>6. c \in Nat /\ order \in [1 .. c -> starts]
  BY <1>3, <1>4, <1>5, InOrderSorts
<1> HIDE DEF order
<1>7. ASSUME NEW k \in 1 .. c PROVE <<order[k], order[k] + n>> \in RunsIn(text, n)
  <2>1. PICK s \in starts : s = order[k]
    BY <1>6
  <2>2. s \in 0 .. Len(text) - n
    BY <1>2, <2>1
  <2>3. PICK p : p = <<s, s + n>>
    OBVIOUS
  <2>4. p \in SpansIn(text) /\ p[1] = s /\ p[2] = s + n
    BY <2>2, <2>3 DEF SpansIn
  <2>5. PICK x, a, b : a = s + 1 /\ b = s + n /\ x = SubSeq(text, a, b)
    OBVIOUS
  <2>6. a \in Int /\ b \in Int /\ b - a + 1 = n /\ a <= b
    BY <2>2, <2>5
  <2>7. \A i \in a .. b : text[i] \in Digit
    BY <1>a, <2>2, <2>5
  <2>8. x \in Seq(Digit) /\ Len(x) = n
    <3>1. x \in Seq(Digit) /\ Len(x) = IF a <= b THEN b - a + 1 ELSE 0
      BY <2>5, <2>6, <2>7, SubSeqProperties
    <3> QED BY <2>6, <3>1
  <2>9. x \in Number(n)
    BY <2>8 DEF Number
  <2>10. Slice(text, p[1], p[2]) = x
    BY <2>4, <2>5 DEF Slice
  <2> QED BY <2>1, <2>3, <2>4, <2>9, <2>10 DEF RunsIn
<1>8. runs \in [1 .. c -> RunsIn(text, n)]
  BY <1>6, <1>7
<1> HIDE DEF runs
<1> QED BY <1>1, <1>6, <1>8

LEMMA StructuralSound ==
  ASSUME NEW q \in Input
  PROVE  LET o == structural_detect(q.text, q.country, q.phones)
         IN  Quoting(q.text, o.detections) /\ ~o.raised /\ NotNer(o.detections)
<1>1. PICK text, phones : text = q.text /\ phones = q.phones
  OBVIOUS
<1>2. Len(text) \in Nat /\ phones \in Seq(SpansIn(text))
  <2>1. q.text \in Seq(Nat) /\ q.phones \in Seq(SpansIn(q.text))
    BY InputAssumption
  <2> QED BY <1>1, <2>1
<1>3. /\ DigitRuns(text, NIN_DIGITS) \in Seq(RunsIn(text, NIN_DIGITS))
      /\ DigitRuns(text, NIF_DIGITS) \in Seq(RunsIn(text, NIF_DIGITS))
      /\ DigitRuns(text, RIB_DIGITS) \in Seq(RunsIn(text, RIB_DIGITS))
  <2>1. /\ NIN_DIGITS \in Nat /\ NIN_DIGITS > 0 /\ NIF_DIGITS \in Nat /\ NIF_DIGITS > 0
        /\ RIB_DIGITS \in Nat /\ RIB_DIGITS > 0
    BY DEF NIN_DIGITS, NIF_DIGITS, RIB_DIGITS
  <2> QED BY <1>2, <2>1, RunsAreSpans
<1>4. PICK ribs : ribs = Filter(DigitRuns(text, RIB_DIGITS), LAMBDA p : _rib_key_valid(Slice(text, p[1], p[2])))
  OBVIOUS
<1> DEFINE good(p) == _rib_key_valid(Slice(text, p[1], p[2]))
           G == {p \in RunsIn(text, RIB_DIGITS) : good(p)}
<1>5. ribs \in Seq(G)
  <2>1. PICK runs, I : /\ runs = DigitRuns(text, RIB_DIGITS)
                       /\ I = {n \in DOMAIN runs : good(runs[n])}
    OBVIOUS
  <2>2. runs \in Seq(RunsIn(text, RIB_DIGITS)) /\ I \in SUBSET (1 .. Len(runs))
    BY <1>3, <2>1
  <2>3. ribs = At(runs, I)
    BY <1>4, <2>1 DEF Filter
  <2>4. \A i \in I : runs[i] \in G
    BY <2>1, <2>2
  <2> HIDE DEF good, G
  <2>5. ribs \in Seq(RunsIn(text, RIB_DIGITS)) /\ \E p : Enumerates(p, Len(ribs), I) /\ \A k \in 1 .. Len(ribs) : ribs[k] = runs[p[k]]
    BY <2>2, <2>3, AtEnumerates
  <2>6. PICK p : Enumerates(p, Len(ribs), I) /\ \A k \in 1 .. Len(ribs) : ribs[k] = runs[p[k]]
    BY <2>5
  <2>7. ASSUME NEW k \in 1 .. Len(ribs) PROVE ribs[k] \in G
    <3>1. p[k] \in I
      BY <2>6 DEF Enumerates
    <3> QED BY <2>4, <2>6, <3>1
  <2> QED BY <2>5, <2>7
<1>a. \A p \in G : Account(Slice(text, p[1], p[2]))
  BY DEF RunsIn, Account, RIB_DIGITS
<1>b. /\ RunsIn(text, NIN_DIGITS) \in SUBSET SpansIn(text) /\ RunsIn(text, NIF_DIGITS) \in SUBSET SpansIn(text)
      /\ G \in SUBSET SpansIn(text) /\ SpansIn(text) \in SUBSET SpansIn(text)
  BY DEF RunsIn
<1> HIDE DEF G
<1>6. ASSUME NEW S \in SUBSET SpansIn(text), NEW spans \in Seq(S), NEW type, NEW c \in 0 .. 100, NEW rule,
             \A p \in S : Genuine(type, "structural.dz", Slice(text, p[1], p[2]))
      PROVE  Reported(text, DZ(text, type, spans, c, rule)) /\ Valid(DZ(text, type, spans, c, rule))
  <2>1. PICK ds : ds = [k \in DOMAIN spans |-> Detection(text, type, spans[k], c, 1, "structural.dz", rule)]
    OBVIOUS
  <2>2. Reported(text, ds) /\ Valid(ds)
    <3>1. 1 \in 1 .. 3
      OBVIOUS
    <3> QED BY <1>2, <1>6, <2>1, <3>1, SpansReported, ZenonT(30)
  <2> QED BY <2>1, <2>2 DEF DZ
<1>7. PICK a, b, c, d : /\ a = detect_nin(text) /\ b = detect_nif(text) /\ c = detect_rib(text)
                        /\ d = detect_phone(text, phones)
  OBVIOUS
<1>8. /\ Reported(text, a) /\ Valid(a) /\ Reported(text, b) /\ Valid(b)
      /\ Reported(text, c) /\ Valid(c) /\ Reported(text, d) /\ Valid(d)
  <2>1. /\ a = DZ(text, "national_id", DigitRuns(text, NIN_DIGITS), 85, "dz.nin")
        /\ b = DZ(text, "tax_id", DigitRuns(text, NIF_DIGITS), 85, "dz.nif")
        /\ c = DZ(text, "bank_account", ribs, 99, "dz.rib")
        /\ d = DZ(text, "phone", phones, 99, "dz.phone")
    BY <1>4, <1>7 DEF detect_nin, detect_nif, detect_rib, detect_phone
  <2>2. 85 \in 0 .. 100 /\ 99 \in 0 .. 100
    OBVIOUS
  <2>3. \A type, x : type # "bank_account" => Genuine(type, "structural.dz", x)
    BY DEF Genuine
  <2>4. Reported(text, a) /\ Valid(a) /\ Reported(text, b) /\ Valid(b)
    BY <1>3, <1>b, <1>6, <2>1, <2>2, <2>3, ZenonT(30)
  <2>5. Reported(text, d) /\ Valid(d)
    BY <1>2, <1>b, <1>6, <2>1, <2>2, <2>3
  <2>6. \A p \in G : Genuine("bank_account", "structural.dz", Slice(text, p[1], p[2]))
    BY <1>a DEF Genuine
  <2>7. Reported(text, c) /\ Valid(c)
    BY <1>5, <1>b, <1>6, <2>1, <2>2, <2>6
  <2> QED BY <2>4, <2>5, <2>7
<1>9. Reported(text, a \o b \o c \o d) /\ Valid(a \o b \o c \o d)
  BY <1>8, ConcatReported, ConcatValid
<1>10. PICK ds : ds = IF q.country # "DZ" THEN <<>> ELSE a \o b \o c \o d
  OBVIOUS
<1>11. Reported(text, ds) /\ Valid(ds)
  BY <1>9, <1>10, NothingReported
<1>12. structural_detect(q.text, q.country, q.phones) = Construct(ds)
  BY <1>1, <1>7, <1>10 DEF structural_detect
<1>13. NotNer(a) /\ NotNer(b) /\ NotNer(c) /\ NotNer(d)
  <2>1. ASSUME NEW type, NEW spans, NEW w, NEW rule PROVE NotNer(DZ(text, type, spans, w, rule))
    BY DEF NotNer, DZ, Detection
  <2> QED BY <1>7, <2>1 DEF detect_nin, detect_nif, detect_rib, detect_phone
<1>14. NotNer(a \o b \o c \o d)
  <2>1. Reported(text, a \o b) /\ Reported(text, a \o b \o c)
    BY <1>8, ConcatReported
  <2>2. NotNer(a \o b)
    BY <1>8, <1>13, ConcatNotNer
  <2>3. NotNer(a \o b \o c)
    BY <1>8, <1>13, <2>1, <2>2, ConcatNotNer
  <2> QED BY <1>8, <1>13, <2>1, <2>3, ConcatNotNer
<1>15. NotNer(<<>>)
  BY DEF NotNer
<1>16. NotNer(ds)
  BY <1>10, <1>14, <1>15
<1> QED BY <1>1, <1>11, <1>12, <1>16, ConstructQuotes, ConstructNotNer

-----------------------------------------------------------------------------
(* Detector B, stub. *)

\* The same spans, by their starts.
Sorts(s, spans) ==
  /\ \A j, k \in 1 .. Len(s) : j < k => s[j][1] <= s[k][1]
  /\ \A k \in 1 .. Len(s) : \E i \in 1 .. Len(spans) : s[k] = spans[i]
  /\ \A i \in 1 .. Len(spans) : \E k \in 1 .. Len(s) : s[k] = spans[i]

LEMMA SortedAreSpans ==
  ASSUME NEW text, NEW spans \in Seq(SpansIn(text)), NEW s, s = SortedSpans(spans)
  PROVE  s \in Seq(SpansIn(text)) /\ Sorts(s, spans)
<1> DEFINE D == DOMAIN spans
           above(i, j) == LET a == spans[i]
                              b == spans[j]
                          IN  a[1] < b[1] \/ (a[1] = b[1] /\ a[2] > b[2]) \/ (a = b /\ i < j)
           before == {p \in D \X D : above(p[1], p[2])}
           order == InOrder(D, before)
<1>1. s = [k \in DOMAIN order |-> spans[order[k]]]
  BY DEF SortedSpans
<1>2. Len(spans) \in Nat /\ D = 1 .. Len(spans) /\ \A i \in D : spans[i] \in SpansIn(text)
  OBVIOUS
<1>3. IsFiniteSet(D)
  BY <1>2, FS_Interval
<1>4. StrictOrder(D, before)
  <2>1. \A i, j \in D : <<i, j>> \in before <=> above(i, j)
    OBVIOUS
  <2>2. ASSUME NEW i \in D PROVE /\ i \in Int /\ spans[i][1] \in Int /\ spans[i][2] \in Int
                                 /\ spans[i] = <<spans[i][1], spans[i][2]>>
    <3>1. spans[i] \in Nat \X Nat
      BY <1>2 DEF SpansIn
    <3> QED BY <1>2, <3>1
  <2>3. \A i \in D : ~above(i, i)
    BY <2>2
  <2>4. \A i, j \in D : i = j \/ above(i, j) \/ above(j, i)
    <3> SUFFICES ASSUME NEW i \in D, NEW j \in D PROVE i = j \/ above(i, j) \/ above(j, i)
      OBVIOUS
    <3>1. CASE spans[i] = spans[j]
      BY <2>2, <3>1
    <3>2. CASE spans[i] # spans[j]
      <4>1. spans[i][1] # spans[j][1] \/ spans[i][2] # spans[j][2]
        BY <2>2, <3>2
      <4> QED BY <2>2, <4>1
    <3> QED BY <3>1, <3>2
  <2>5. \A i, j, k \in D : above(i, j) /\ above(j, k) => above(i, k)
    <3> SUFFICES ASSUME NEW i \in D, NEW j \in D, NEW k \in D, above(i, j), above(j, k)
                 PROVE  above(i, k)
      OBVIOUS
    <3>1. CASE spans[i] = spans[j]
      BY <2>2, <3>1
    <3>2. CASE spans[j] = spans[k]
      BY <2>2, <3>2
    <3>3. CASE spans[i] # spans[j] /\ spans[j] # spans[k]
      BY <2>2, <3>3
    <3> QED BY <3>1, <3>2, <3>3
  <2> HIDE DEF above, before
  <2> QED BY <2>1, <2>3, <2>4, <2>5 DEF StrictOrder
<1>5. PICK c : c = Cardinality(D)
  OBVIOUS
<1>a. \A i, j \in D : <<i, j>> \in before => spans[i][1] <= spans[j][1]
  <2>1. \A i \in D : spans[i][1] \in Int
    BY <1>2 DEF SpansIn
  <2>2. \A i, j \in D : <<i, j>> \in before => spans[i][1] < spans[j][1] \/ spans[i][1] = spans[j][1]
    OBVIOUS
  <2> QED BY <2>1, <2>2
<1> HIDE DEF before
<1>6. /\ c \in Nat /\ order \in [1 .. c -> D] /\ (\A i \in D : \E k \in 1 .. c : order[k] = i)
      /\ \A j, k \in 1 .. c : j < k <=> <<order[j], order[k]>> \in before
  <2> HIDE DEF D
  <2> QED BY <1>3, <1>4, <1>5, InOrderSorts
<1> HIDE DEF order
<1>7. \A k \in 1 .. c : spans[order[k]] \in SpansIn(text)
  BY <1>2, <1>6
<1>8. s \in Seq(SpansIn(text)) /\ Len(s) = c /\ \A k \in 1 .. c : s[k] = spans[order[k]]
  BY <1>1, <1>6, <1>7
<1>9. ASSUME NEW j \in 1 .. c, NEW k \in 1 .. c, j < k PROVE s[j][1] <= s[k][1]
  <2>1. order[j] \in D /\ order[k] \in D /\ <<order[j], order[k]>> \in before
    BY <1>6, <1>9
  <2> QED BY <1>a, <1>8, <2>1
<1>10. \A k \in 1 .. c : \E i \in 1 .. Len(spans) : s[k] = spans[i]
  BY <1>2, <1>6, <1>8
<1>11. \A i \in 1 .. Len(spans) : \E k \in 1 .. c : s[k] = spans[i]
  BY <1>2, <1>6, <1>8
<1> QED BY <1>8, <1>9, <1>10, <1>11 DEF Sorts

LEMMA UniteKeepsSpans ==
  ASSUME NEW text, NEW out \in Seq(SpansIn(text)), NEW s \in SpansIn(text)
  PROVE  Unite(out, s) \in Seq(SpansIn(text))
<1>1. CASE out = <<>> \/ s[1] >= Last(out)[2]
  <2>1. Unite(out, s) = Append(out, s)
    BY <1>1 DEF Unite
  <2> QED BY <2>1, AppendProperties
<1>2. CASE ~(out = <<>> \/ s[1] >= Last(out)[2]) /\ s[2] > Last(out)[2]
  <2>1. Unite(out, s) = [out EXCEPT ![Len(out)] = <<@[1], s[2]>>]
    BY <1>2 DEF Unite
  <2>2. Len(out) \in 1 .. Len(out) /\ out[Len(out)] \in SpansIn(text)
    <3>1. Len(out) # 0
      BY <1>2, EmptySeq
    <3> QED BY <3>1
  <2>3. <<out[Len(out)][1], s[2]>> \in SpansIn(text)
    <3>1. PICK l : l = out[Len(out)]
      OBVIOUS
    <3>2. /\ l[1] \in Nat /\ l[2] \in Nat /\ l[1] < l[2]
          /\ s[2] \in Nat /\ s[2] <= Len(text) /\ s[2] > l[2]
      BY <1>2, <2>2, <3>1 DEF SpansIn, Last
    <3>3. <<l[1], s[2]>> \in SpansIn(text)
      BY <3>2 DEF SpansIn
    <3> QED BY <3>1, <3>3
  <2> QED BY <2>1, <2>2, <2>3
<1>3. CASE ~(out = <<>> \/ s[1] >= Last(out)[2]) /\ ~(s[2] > Last(out)[2])
  BY <1>3 DEF Unite
<1> QED BY <1>1, <1>2, <1>3

\* The run of the loop over the sorted spans.
UniteRun(state, text, s) ==
  /\ state[0] = <<>>
  /\ \A n \in 1 .. Len(s) : state[n] = Unite(state[n - 1], s[n])
  /\ \A n \in 0 .. Len(s) : state[n] \in Seq(SpansIn(text))

LEMMA MergedByRun ==
  ASSUME NEW text, NEW spans \in Seq(SpansIn(text)), NEW s, s = SortedSpans(spans)
  PROVE  /\ s \in Seq(SpansIn(text))
         /\ \E state : UniteRun(state, text, s) /\ _merge_overlapping(spans) = state[Len(s)]
<1>1. PICK m : m = Len(s)
  OBVIOUS
<1>2. s \in Seq(SpansIn(text)) /\ m \in Nat
  BY <1>1, SortedAreSpans
<1> DEFINE X == Seq(SpansIn(text))
           F == [p \in X \X (1 .. m) |-> Unite(p[1], s[p[2]])]
           run(f) == [n \in 0 .. m |-> IF n = 0 THEN <<>> ELSE Unite(f[n - 1], s[n])]
           state == CHOOSE f : f = run(f)
<1>3. \A x \in X, n \in 1 .. m : Unite(x, s[n]) \in X
  BY <1>1, <1>2, UniteKeepsSpans
<1>4. <<>> \in X /\ F \in [X \X (1 .. m) -> X]
  BY <1>3
<1>5. \E f : f = run(f)
  <2>1. PICK f \in [0 .. m -> X] : f[0] = <<>> /\ \A n \in 1 .. m : f[n] = F[<<f[n - 1], n>>]
    <3> HIDE DEF F, X
    <3>1. \E f : IsRun(f, X, <<>>, m, F)
      BY <1>2, <1>4, Recursion
    <3> QED BY <3>1 DEF IsRun
  <2>2. ASSUME NEW n \in 1 .. m PROVE f[n] = Unite(f[n - 1], s[n])
    <3>1. n - 1 \in 0 .. m
      BY <1>2
    <3>2. f[n - 1] \in X
      <4> HIDE DEF X, F
      <4> QED BY <2>1, <3>1
    <3> QED BY <2>1, <3>2
  <2>3. f = run(f)
    BY <1>2, <2>1, <2>2
  <2> QED BY <2>3
<1>6. state = run(state)
  BY <1>5
<1>7. _merge_overlapping(spans) = state[m]
  BY <1>1 DEF _merge_overlapping, Loop
<1> HIDE DEF state
<1>8. state[0] = <<>> /\ \A n \in 1 .. m : state[n] = Unite(state[n - 1], s[n])
  BY <1>2, <1>6
<1>9. \A n \in 0 .. m : state[n] \in X
  BY <1>2, <1>3, <1>4, <1>8, RunStays, ZenonT(30)
<1>10. UniteRun(state, text, s)
  BY <1>1, <1>8, <1>9 DEF UniteRun
<1> QED BY <1>1, <1>2, <1>7, <1>10

LEMMA MergedAreSpans ==
  ASSUME NEW text, NEW spans \in Seq(SpansIn(text))
  PROVE  _merge_overlapping(spans) \in Seq(SpansIn(text))
<1>1. PICK s : s = SortedSpans(spans)
  OBVIOUS
<1>2. PICK state : UniteRun(state, text, s) /\ _merge_overlapping(spans) = state[Len(s)]
  BY <1>1, MergedByRun
<1>3. Len(s) \in Nat
  BY <1>1, MergedByRun
<1> QED BY <1>2, <1>3 DEF UniteRun

LEMMA StubSound ==
  ASSUME NEW text, Len(text) \in Nat, NEW names \in Seq(SpansIn(text))
  PROVE  Quoting(text, stub_detect(text, names).detections) /\ ~stub_detect(text, names).raised
<1>1. PICK spans, ds :
        /\ spans = _merge_overlapping(names)
        /\ ds = [k \in DOMAIN spans |-> Detection(text, "person", spans[k], 85, 2, "ner", "ner.stub.person")]
  OBVIOUS
<1>2. spans \in Seq(SpansIn(text)) /\ 85 \in 0 .. 100 /\ 2 \in 1 .. 3
  BY <1>1, MergedAreSpans
<1>3. Reported(text, ds) /\ Valid(ds)
  <2>1. PICK type, c, tier, detector, rule :
          type = "person" /\ c = 85 /\ tier = 2 /\ detector = "ner" /\ rule = "ner.stub.person"
    OBVIOUS
  <2>2. ds = [k \in DOMAIN spans |-> Detection(text, type, spans[k], c, tier, detector, rule)]
    BY <1>1, <2>1
  <2>3. spans \in Seq(SpansIn(text)) /\ c \in 0 .. 100 /\ tier \in 1 .. 3
    BY <1>2, <2>1
  <2>4. \A x : Genuine(type, detector, x)
    BY <2>1 DEF Genuine
  <2>5. PICK S \in SUBSET SpansIn(text) : S = SpansIn(text)
    OBVIOUS
  <2> QED BY <2>2, <2>3, <2>4, <2>5, SpansReported, ZenonT(90)
<1>4. stub_detect(text, names) = Construct(ds)
  BY <1>1 DEF stub_detect
<1> QED BY <1>3, <1>4, ConstructQuotes

-----------------------------------------------------------------------------
(* Detector B, ONNX. *)

Labels == {"person", "organization", "location"}
TokenOf(text) == [label : Nat, start : Nat, end : 0 .. Len(text)]
LabelledSpan(text) == [start : Nat, end : 0 .. Len(text), entity_type : Labels]
OnnxState(text) == [spans : Seq(LabelledSpan(text)), cur : LabelledSpan(text) \cup {Null}]

LEMMA EntityTypes == ASSUME NEW l, EntityOf(l) # Null PROVE EntityOf(l) \in Labels
BY DEF EntityOf, _label_map, Labels

LEMMA FlushTypes ==
  ASSUME NEW text, NEW acc \in OnnxState(text)
  PROVE  Flush(acc) \in Seq(LabelledSpan(text))
<1>1. acc.spans \in Seq(LabelledSpan(text)) /\ acc.cur \in LabelledSpan(text) \cup {Null}
  BY DEF OnnxState
<1> QED BY <1>1, AppendProperties DEF Flush

\* The three things a token can do.
TokenCases(acc, token, next) ==
  \/ next = [spans |-> Flush(acc), cur |-> Null]
  \/ /\ acc.cur # Null /\ token.end # 0
     /\ next = [spans |-> acc.spans, cur |-> [acc.cur EXCEPT !.end = token.end]]
  \/ /\ token.end # 0 /\ EntityOf(token.label) # Null
     /\ next = [spans |-> Flush(acc),
                cur   |-> [start |-> token.start, end |-> token.end, entity_type |-> EntityOf(token.label)]]

LEMMA TokenDoes ==
  ASSUME NEW text, NEW acc \in OnnxState(text), NEW token
  PROVE  TokenCases(acc, token, Token(acc, token))
<1>1. [acc EXCEPT !.cur.end = token.end] = [spans |-> acc.spans, cur |-> [acc.cur EXCEPT !.end = token.end]]
  BY DEF OnnxState
<1> QED BY <1>1 DEF Token, TokenCases

LEMMA TokenTypes ==
  ASSUME NEW text, Len(text) \in Nat, NEW acc \in OnnxState(text), NEW token \in TokenOf(text)
  PROVE  Token(acc, token) \in OnnxState(text)
<1>1. TokenCases(acc, token, Token(acc, token))
  BY TokenDoes
<1>2. Flush(acc) \in Seq(LabelledSpan(text)) /\ acc.spans \in Seq(LabelledSpan(text))
  BY FlushTypes DEF OnnxState
<1>3. ASSUME acc.cur # Null PROVE [acc.cur EXCEPT !.end = token.end] \in LabelledSpan(text)
  <2>1. acc.cur \in LabelledSpan(text)
    BY <1>3 DEF OnnxState
  <2> QED BY <2>1 DEF LabelledSpan, TokenOf
<1>4. ASSUME EntityOf(token.label) # Null
      PROVE  [start |-> token.start, end |-> token.end, entity_type |-> EntityOf(token.label)]
               \in LabelledSpan(text)
  BY <1>4, EntityTypes DEF LabelledSpan, TokenOf
<1>5. \E a \in Seq(LabelledSpan(text)), c \in LabelledSpan(text) \cup {Null} :
        Token(acc, token) = [spans |-> a, cur |-> c]
  BY <1>1, <1>2, <1>3, <1>4 DEF TokenCases
<1> QED BY <1>5 DEF OnnxState

\* The run of the loop over the tokens.
OnnxRun(state, text, tokens) ==
  /\ state[0] = [spans |-> <<>>, cur |-> Null]
  /\ \A n \in 1 .. Len(tokens) : state[n] = Token(state[n - 1], tokens[n])
  /\ \A n \in 0 .. Len(tokens) : state[n] \in OnnxState(text)

LEMMA TokenRun ==
  ASSUME NEW text, Len(text) \in Nat, NEW tokens \in Seq(TokenOf(text))
  PROVE  \E state : /\ OnnxRun(state, text, tokens)
                    /\ Loop(Token, [spans |-> <<>>, cur |-> Null], tokens) = state[Len(tokens)]
<1> DEFINE start == [spans |-> <<>>, cur |-> Null]
           m == Len(tokens)
           X == OnnxState(text)
           F == [p \in X \X (1 .. m) |-> Token(p[1], tokens[p[2]])]
           run(f) == [n \in 0 .. m |-> IF n = 0 THEN start ELSE Token(f[n - 1], tokens[n])]
           state == CHOOSE f : f = run(f)
<1>1. m \in Nat
  OBVIOUS
<1>0. Loop(Token, start, tokens) = state[m]
  BY DEF Loop
<1>2. start \in X
  BY DEF OnnxState
<1>3. \A x \in X, n \in 1 .. m : Token(x, tokens[n]) \in X
  BY TokenTypes
<1> HIDE DEF X, m, start
<1>4. F \in [X \X (1 .. m) -> X]
  BY <1>3
<1>5. \E f : f = run(f)
  <2>1. PICK f : IsRun(f, X, start, m, F)
    <3> HIDE DEF F
    <3> QED BY <1>1, <1>2, <1>4, Recursion
  <2>2. f \in [0 .. m -> X] /\ f[0] = start
    BY <2>1 DEF IsRun
  <2>3. ASSUME NEW n \in 1 .. m PROVE f[n] = Token(f[n - 1], tokens[n])
    <3>1. f[n] = F[<<f[n - 1], n>>]
      BY <2>1 DEF IsRun
    <3>2. n - 1 \in 0 .. m
      BY <1>1
    <3>3. f[n - 1] \in X
      BY <2>2, <3>2
    <3> QED BY <3>1, <3>3
  <2>4. f = run(f)
    BY <1>1, <2>2, <2>3
  <2> QED BY <2>4
<1>6. state = run(state)
  BY <1>5
<1> HIDE DEF state
<1>8. state[0] = start /\ \A n \in 1 .. m : state[n] = Token(state[n - 1], tokens[n])
  BY <1>1, <1>6
<1>9. \A n \in 0 .. m : state[n] \in X
  BY <1>1, <1>2, <1>3, <1>8, RunStays
<1> QED BY <1>0, <1>8, <1>9 DEF X, m, start, OnnxRun

\* Tokens in the order of the text give spans that are not empty: a span that
\* grows keeps the start of one token and gets the end of a later one.
Ordered(tokens) ==
  \A j, k \in {n \in DOMAIN tokens : tokens[n].end # 0} :
    tokens[k].start < tokens[k].end /\ (j < k => tokens[j].start <= tokens[k].start)

LEMMA SpansNotEmpty ==
  ASSUME NEW text, Len(text) \in Nat, NEW tokens \in Seq(TokenOf(text)), Ordered(tokens), NEW state,
         OnnxRun(state, text, tokens)
  PROVE  LET spans == Flush(state[Len(tokens)])
         IN  \A k \in 1 .. Len(spans) : spans[k].start < spans[k].end
<1> DEFINE m == Len(tokens)
           Fine(spans) == \A k \in 1 .. Len(spans) : spans[k].start < spans[k].end
           Grown(n, cur) == cur # Null => /\ cur.start < cur.end
                                          /\ \E j \in 1 .. n : tokens[j].end # 0 /\ cur.start = tokens[j].start
           Good(n) == Fine(state[n].spans) /\ Grown(n, state[n].cur)
           g == [n \in 0 .. m |-> IF Good(n) THEN 1 ELSE 0]
<1>1. ASSUME NEW acc \in OnnxState(text), NEW n, Fine(acc.spans), Grown(n, acc.cur)
      PROVE  Fine(Flush(acc))
  <2>1. CASE acc.cur = Null
    BY <1>1, <2>1 DEF Flush
  <2>2. CASE acc.cur # Null
    <3>1. Flush(acc) = Append(acc.spans, acc.cur) /\ acc.cur \in LabelledSpan(text)
          /\ acc.spans \in Seq(LabelledSpan(text)) /\ acc.cur.start < acc.cur.end
      BY <1>1, <2>2 DEF Flush, OnnxState
    <3>2. PICK u : u = Append(acc.spans, acc.cur)
      OBVIOUS
    <3>3. Len(u) = Len(acc.spans) + 1 /\ u[Len(acc.spans) + 1] = acc.cur
          /\ \A k \in 1 .. Len(acc.spans) : u[k] = acc.spans[k]
      BY <3>1, <3>2, AppendProperties
    <3>4. Fine(u)
      BY <1>1, <3>1, <3>3
    <3> QED BY <3>1, <3>2, <3>4
  <2> QED BY <2>1, <2>2
<1>2. Good(0)
  <2>1. state[0].spans = <<>> /\ state[0].cur = Null
    BY DEF OnnxRun
  <2> QED BY <2>1
<1>3. ASSUME NEW n \in 1 .. m, Good(n - 1) PROVE Good(n)
  <2>1. PICK acc, token : acc = state[n - 1] /\ token = tokens[n]
    OBVIOUS
  <2>2. /\ acc \in OnnxState(text) /\ token \in TokenOf(text) /\ state[n] = Token(acc, token)
        /\ Fine(acc.spans) /\ Grown(n - 1, acc.cur)
    BY <1>3, <2>1 DEF OnnxRun
  <2>3. TokenCases(acc, token, state[n])
    BY <2>2, TokenDoes
  <2>4. Fine(Flush(acc))
    BY <1>1, <2>2
  <2>5. CASE state[n] = [spans |-> Flush(acc), cur |-> Null]
    <3>1. state[n].spans = Flush(acc) /\ state[n].cur = Null
      BY <2>5
    <3> QED BY <2>4, <3>1
  <2>6. CASE /\ acc.cur # Null /\ token.end # 0
             /\ state[n] = [spans |-> acc.spans, cur |-> [acc.cur EXCEPT !.end = token.end]]
    <3>1. acc.cur \in LabelledSpan(text)
      BY <2>2, <2>6 DEF OnnxState
    <3>2. state[n].spans = acc.spans /\ state[n].cur.start = acc.cur.start /\ state[n].cur.end = token.end
      BY <2>6, <3>1 DEF LabelledSpan
    <3>3. PICK j \in 1 .. n - 1 : tokens[j].end # 0 /\ acc.cur.start = tokens[j].start
      BY <2>2, <2>6
    <3>4. j \in 1 .. m /\ j < n /\ j \in 1 .. n
      BY <3>3
    <3>5. tokens[j].start <= tokens[n].start /\ tokens[n].start < tokens[n].end
      BY <2>1, <2>6, <3>3, <3>4 DEF Ordered
    <3>6. tokens[j] \in TokenOf(text) /\ tokens[n] \in TokenOf(text)
      BY <3>4
    <3>7. tokens[j].start < tokens[n].end
      <4>1. tokens[j].start \in Nat /\ tokens[n].start \in Nat /\ tokens[n].end \in 0 .. Len(text)
        BY <3>6 DEF TokenOf
      <4>2. PICK x, y, z : x = tokens[j].start /\ y = tokens[n].start /\ z = tokens[n].end
        OBVIOUS
      <4>3. x \in Int /\ y \in Int /\ z \in Int
        BY <4>1, <4>2
      <4> QED BY <3>5, <4>2, <4>3
    <3> QED BY <2>1, <2>2, <3>2, <3>3, <3>4, <3>7
  <2>7. CASE /\ token.end # 0 /\ EntityOf(token.label) # Null
             /\ state[n] = [spans |-> Flush(acc),
                            cur   |-> [start |-> token.start, end |-> token.end,
                                       entity_type |-> EntityOf(token.label)]]
    <3>1. state[n].spans = Flush(acc) /\ state[n].cur.start = token.start /\ state[n].cur.end = token.end
      BY <2>7
    <3>2. token.start < token.end /\ n \in 1 .. n
      BY <2>1, <2>7 DEF Ordered
    <3> QED BY <2>1, <2>4, <2>7, <3>1, <3>2
  <2> QED BY <2>3, <2>5, <2>6, <2>7 DEF TokenCases
<1>4. Good(m)
  <2>1. m \in Nat
    OBVIOUS
  <2> HIDE DEF Good, m
  <2>2. g[0] \in {1}
    BY <1>2, <2>1
  <2>3. ASSUME NEW n \in 1 .. m, g[n - 1] \in {1} PROVE g[n] \in {1}
    <3>1. n - 1 \in 0 .. m /\ n \in 0 .. m
      BY <2>1
    <3>2. Good(n - 1)
      BY <2>3, <3>1
    <3> QED BY <1>3, <3>1, <3>2
  <2>4. \A n \in 0 .. m : g[n] \in {1}
    <3> HIDE DEF g
    <3>1. PICK X : X = {1}
      OBVIOUS
    <3>2. g[0] \in X /\ \A n \in 1 .. m : g[n - 1] \in X => g[n] \in X
      BY <2>2, <2>3, <3>1
    <3>3. \A n \in 0 .. m : g[n] \in X
      BY <2>1, <3>2, RunStays
    <3> QED BY <3>1, <3>3
  <2> QED BY <2>1, <2>4
<1>5. Fine(Flush(state[m]))
  <2>1. state[m] \in OnnxState(text)
    BY DEF OnnxRun
  <2> QED BY <1>1, <1>4, <2>1
<1> QED BY <1>5

LEMMA OnnxSound ==
  ASSUME NEW text, Len(text) \in Nat, NEW tokens \in Seq(TokenOf(text))
  PROVE  /\ Quoting(text, onnx_detect(text, tokens).detections)
         /\ Ordered(tokens) => ~onnx_detect(text, tokens).raised
<1>1. PICK state : /\ OnnxRun(state, text, tokens)
                   /\ Loop(Token, [spans |-> <<>>, cur |-> Null], tokens) = state[Len(tokens)]
  BY TokenRun
<1>2. state[Len(tokens)] \in OnnxState(text)
  BY <1>1 DEF OnnxRun
<1> DEFINE made(p) == Detection(text, p.entity_type, <<p.start, p.end>>, 90, 2, "ner", RuleOf[p.entity_type])
           spans == Flush(state[Len(tokens)])
           ds == [k \in DOMAIN spans |-> made(spans[k])]
<1>3. onnx_detect(text, tokens) = Construct(ds)
  BY <1>1 DEF onnx_detect
<1>4. spans \in Seq(LabelledSpan(text))
  BY <1>2, FlushTypes
<1> HIDE DEF spans
<1>5. ASSUME NEW p \in LabelledSpan(text)
      PROVE  Made(text, made(p)) /\ (p.start < p.end => Constructible(made(p)))
  BY DEF LabelledSpan, Detection, Made, Constructible, Genuine
<1> HIDE DEF made
<1>6. Reported(text, ds)
  <2> DEFINE Y == {made(p) : p \in LabelledSpan(text)}
  <2>1. ds \in [1 .. Len(spans) -> Y] /\ Len(spans) \in Nat
    BY <1>4
  <2>2. \A d \in Y : Made(text, d)
    BY <1>5
  <2> HIDE DEF Y, ds
  <2>3. ds \in Seq(Y)
    BY <2>1
  <2> QED BY <2>2, <2>3 DEF Reported
<1>7. ASSUME Ordered(tokens) PROVE Valid(ds)
  <2> DEFINE Y == {made(p) : p \in {r \in LabelledSpan(text) : r.start < r.end}}
  <2>1. \A k \in 1 .. Len(spans) : spans[k].start < spans[k].end
    BY <1>1, <1>7, SpansNotEmpty DEF spans
  <2>2. ds \in [1 .. Len(spans) -> Y] /\ Len(spans) \in Nat
    BY <1>4, <2>1
  <2>3. \A d \in Y : Constructible(d)
    BY <1>5
  <2> HIDE DEF Y, ds
  <2>4. ds \in Seq(Y)
    BY <2>2
  <2> QED BY <2>3, <2>4 DEF Valid
<1> QED BY <1>3, <1>6, <1>7, ConstructQuotes

-----------------------------------------------------------------------------
(* Detector C. *)

LEMMA ConfidenceInRange == ASSUME NEW c, c.value \in Int PROVE Confidence(c) \in 0 .. 100
<1>1. PICK v : v = c.value /\ v \in Int
  OBVIOUS
<1>2. PICK low : low = Min({99, v})
  OBVIOUS
<1>3. low \in Int /\ low <= 99
  <2>1. \E x \in {99, v} : \A y \in {99, v} : x <= y
    BY <1>1
  <2>2. low \in {99, v} /\ \A y \in {99, v} : low <= y
    BY <1>2, <2>1 DEF Min
  <2> QED BY <1>1, <2>2
<1>4. PICK high : high = Max({0, low})
  OBVIOUS
<1>5. high \in 0 .. 99
  <2>1. \E x \in {0, low} : \A y \in {0, low} : x >= y
    BY <1>3
  <2>2. high \in {0, low} /\ \A y \in {0, low} : high >= y
    BY <1>4, <2>1 DEF Max
  <2> QED BY <1>3, <2>2
<1>6. Confidence(c) \in {70, 99, high}
  BY <1>1, <1>2, <1>4 DEF Confidence
<1> QED BY <1>5, <1>6

\* Every item that can be read and quotes the text is reported at its place.
ReportsItem(ds, item) ==
  \E k \in 1 .. Len(ds) : /\ ds[k].detector = "contextual"
                          /\ ds[k].start = item.start.value /\ ds[k].end = item.end.value
Fits(reply) == reply.shape = "items" /\ \A item \in ToSet(reply.items) : ~Overflows(item)
HearsOut(text, reply, ds) ==
  Fits(reply) => \A item \in ToSet(reply.items) :
                   Readable(item) /\ Quoted(text, item) => ReportsItem(ds, item)

LEMMA ContextualSound ==
  ASSUME NEW q \in Input
  PROVE  LET o == contextual_detect(q.text, q.reply)
         IN  /\ Quoting(q.text, o.detections) /\ NotNer(o.detections)
             /\ HearsOut(q.text, q.reply, o.detections)
             /\ q.reply.shape = "items" /\ (\A item \in ToSet(q.reply.items) : item.confidence.kind # "huge")
                  => ~o.raised
<1>1. PICK text, raw, R : text = q.text /\ raw = q.reply.items /\ R = ToSet(raw)
  OBVIOUS
<1>2. /\ text \in Seq(Nat) /\ raw \in Seq(R)
      /\ q.reply.shape \in {"no_content", "not_json", "http_error", "null_content", "not_object",
                            "not_iterable", "items"}
      /\ \A item \in R : /\ item.start.kind = "int" => item.start.value \in Int
                         /\ item.end.kind = "int" => item.end.value \in Int
                         /\ item.confidence.value \in Int
  BY <1>1, InputAssumption
<1> DEFINE good(item) == Readable(item) /\ Quoted(text, item)
           G == {item \in R : good(item)}
           made(item) == [Detection(text, _safe_entity_type(item.entity_type),
                                    <<item.start.value, item.end.value>>,
                                    Confidence(item.confidence), 3, "contextual", item.rule_id)
                            EXCEPT !.text = item.text.value]
           kept == Filter(raw, LAMBDA item : Readable(item) /\ Quoted(text, item))
           ds == [k \in DOMAIN kept |-> made(kept[k])]
<1>3. _parse_detections(text, raw) = ds
  BY DEF _parse_detections
<1>4. kept \in Seq(G) /\ \A item \in G : \E k \in 1 .. Len(kept) : kept[k] = item
  <2> DEFINE I == {n \in DOMAIN raw : good(raw[n])}
  <2>1. kept = At(raw, I)
    BY DEF Filter
  <2>2. I \in SUBSET (1 .. Len(raw)) /\ \A i \in I : raw[i] \in G
    BY <1>2
  <2> HIDE DEF I, kept, good, G
  <2>3. kept \in Seq(R) /\ \E p : Enumerates(p, Len(kept), I) /\ \A k \in 1 .. Len(kept) : kept[k] = raw[p[k]]
    BY <1>2, <2>1, <2>2, AtEnumerates
  <2>4. PICK p : Enumerates(p, Len(kept), I) /\ \A k \in 1 .. Len(kept) : kept[k] = raw[p[k]]
    BY <2>3
  <2>5. ASSUME NEW k \in 1 .. Len(kept) PROVE kept[k] \in G
    <3>1. p[k] \in I
      BY <2>4 DEF Enumerates
    <3> QED BY <2>2, <2>4, <3>1
  <2>6. ASSUME NEW item \in G PROVE \E k \in 1 .. Len(kept) : kept[k] = item
    <3>1. PICK i \in 1 .. Len(raw) : raw[i] = item
      BY <1>1, <1>2 DEF G, ToSet
    <3>2. i \in I
      BY <3>1 DEF G, I
    <3>3. PICK k \in 1 .. Len(kept) : p[k] = i
      BY <2>4, <3>2 DEF Enumerates
    <3> QED BY <2>4, <3>1, <3>3
  <2> QED BY <2>3, <2>5, <2>6
<1>5. ASSUME NEW item \in G PROVE Made(text, made(item)) /\ Constructible(made(item))
  <2>1. /\ item.start.value \in Int /\ item.end.value \in Int /\ item.confidence.value \in Int
        /\ Quoted(text, item)
    BY <1>2 DEF Readable
  <2>2. /\ made(item).start = item.start.value /\ made(item).end = item.end.value
        /\ {"start", "end", "confidence", "detector"} \subseteq DOMAIN made(item)
        /\ made(item).tier = 3 /\ made(item).text = item.text.value
        /\ made(item).confidence = Confidence(item.confidence) /\ made(item).detector = "contextual"
    BY DEF Detection
  <2>3. Confidence(item.confidence) \in 0 .. 100
    BY <2>1, ConfidenceInRange
  <2> HIDE DEF made
  <2> QED BY <2>1, <2>2, <2>3 DEF Made, Constructible, Quoted, Genuine
<1> HIDE DEF kept, made, G
<1>6. Reported(text, ds) /\ Valid(ds)
  <2> DEFINE Y == {made(item) : item \in G}
  <2>1. ds \in [1 .. Len(kept) -> Y] /\ Len(kept) \in Nat
    BY <1>4
  <2>2. \A d \in Y : Made(text, d) /\ Constructible(d)
    BY <1>5
  <2> HIDE DEF Y, ds
  <2>3. ds \in Seq(Y)
    BY <2>1
  <2> QED BY <2>2, <2>3 DEF Reported, Valid
<1>7. Quoting(text, Construct(ds).detections) /\ ~Construct(ds).raised
  BY <1>6, ConstructQuotes
<1>8. Quoting(text, <<>>)
  <2>1. Construct(<<>>).detections = <<>>
    BY DEF Construct, Found, Failed
  <2> QED BY <2>1, NothingReported, ConstructQuotes
<1>a. NotNer(Construct(ds).detections) /\ NotNer(<<>>)
  <2>1. \A item : made(item).detector = "contextual"
    BY DEF made, Detection
  <2>2. NotNer(ds) /\ NotNer(<<>>)
    BY <2>1 DEF NotNer
  <2> HIDE DEF ds
  <2> QED BY <2>2, ConstructNotNer
<1>b. ASSUME NEW item \in R, Readable(item), Quoted(text, item)
      PROVE  ReportsItem(Construct(ds).detections, item)
  <2>1. Construct(ds).detections = ds
    BY <1>7 DEF Construct, Found, Failed
  <2>2. item \in G
    BY <1>b DEF G
  <2>3. PICK k \in 1 .. Len(kept) : kept[k] = item
    BY <1>4, <2>2
  <2>4. k \in 1 .. Len(ds) /\ ds[k] = made(item)
    BY <1>4, <2>3
  <2>5. /\ made(item).start = item.start.value /\ made(item).end = item.end.value
        /\ made(item).detector = "contextual"
    BY DEF made, Detection
  <2> HIDE DEF ds
  <2> QED BY <2>1, <2>4, <2>5 DEF ReportsItem
<1>9. PICK o : o = contextual_detect(q.text, q.reply)
  OBVIOUS
<1>10. CASE q.reply.shape = "items"
  <2>1. o = IF \E n \in DOMAIN raw : Overflows(raw[n]) THEN Failed ELSE Construct(ds)
    BY <1>1, <1>3, <1>9, <1>10 DEF contextual_detect
  <2>2. ASSUME \A item \in R : item.confidence.kind # "huge"
        PROVE  ~ \E n \in DOMAIN raw : Overflows(raw[n])
    BY <1>2, <2>2 DEF Overflows
  <2>3. Quoting(text, o.detections) /\ NotNer(o.detections)
    BY <1>7, <1>8, <1>a, <2>1 DEF Failed
  <2>4. HearsOut(text, q.reply, o.detections)
    <3> SUFFICES ASSUME Fits(q.reply), NEW item \in R, Readable(item), Quoted(text, item)
                 PROVE  ReportsItem(o.detections, item)
      BY <1>1 DEF HearsOut
    <3>1. ~ \E n \in DOMAIN raw : Overflows(raw[n])
      BY <1>1, <1>2 DEF Fits, ToSet
    <3>2. o = Construct(ds)
      BY <2>1, <3>1
    <3> QED BY <1>b, <3>2
  <2> QED BY <1>1, <1>7, <1>9, <2>1, <2>2, <2>3, <2>4
<1>11. CASE q.reply.shape # "items"
  <2>1. o = Found(<<>>) \/ o = Failed
    BY <1>2, <1>9, <1>11 DEF contextual_detect
  <2>2. HearsOut(text, q.reply, o.detections)
    BY <1>11 DEF HearsOut, Fits
  <2> QED BY <1>1, <1>8, <1>a, <1>9, <1>11, <2>1, <2>2 DEF Found, Failed
<1> QED BY <1>10, <1>11

-----------------------------------------------------------------------------
(* The stage. *)

LEMMA NerSound ==
  ASSUME NEW q \in Input
  PROVE  LET o == ner_detect(q.text, q.ner)
         IN  Quoting(q.text, o.detections) /\ (q.ner.backend # "fails" => ~o.raised)
<1>1. PICK text, names, tokens : text = q.text /\ names = q.ner.names /\ tokens = q.ner.tokens
  OBVIOUS
<1>2. /\ Len(text) \in Nat /\ names \in Seq(SpansIn(text)) /\ tokens \in Seq(TokenOf(text))
      /\ q.ner.backend \in {"stub", "onnx", "fails"}
  <2>1. /\ q.text \in Seq(Nat) /\ q.ner.names \in Seq(SpansIn(q.text))
        /\ q.ner.tokens \in Seq([label : Nat, start : Nat, end : 0 .. Len(q.text)])
        /\ q.ner.backend \in {"stub", "onnx", "fails"}
    BY InputAssumption
  <2> QED BY <1>1, <2>1 DEF TokenOf
<1>3. Ordered(tokens)
  BY <1>1, TokenAssumption DEF Ordered
<1>4. CASE q.ner.backend = "stub"
  <2>1. ner_detect(q.text, q.ner) = stub_detect(text, names)
    BY <1>1, <1>4 DEF ner_detect
  <2> QED BY <1>1, <1>2, <2>1, StubSound
<1>5. CASE q.ner.backend = "onnx"
  <2>1. ner_detect(q.text, q.ner) = onnx_detect(text, tokens)
    BY <1>1, <1>5 DEF ner_detect
  <2> QED BY <1>1, <1>2, <1>3, <2>1, OnnxSound
<1>6. CASE q.ner.backend = "fails"
  <2>1. ner_detect(q.text, q.ner).detections = <<>>
    BY <1>6 DEF ner_detect, Failed
  <2>2. Quoting(text, Construct(<<>>).detections)
    BY NothingReported, ConstructQuotes
  <2>3. Construct(<<>>).detections = <<>>
    BY DEF Construct, Found, Failed
  <2> QED BY <1>1, <1>6, <2>1, <2>2, <2>3
<1> QED BY <1>2, <1>4, <1>5, <1>6

LEMMA ConcatQuotes ==
  ASSUME NEW text, NEW a, NEW b, Quoting(text, a), Quoting(text, b)
  PROVE  Quoting(text, a \o b)
<1>1. PICK Y : a \in Seq(Y) /\ \A d \in Y : Sound(text, d)
  BY DEF Quoting
<1>2. PICK Z : b \in Seq(Z) /\ \A d \in Z : Sound(text, d)
  BY DEF Quoting
<1>3. PICK W : W = Y \cup Z
  OBVIOUS
<1>4. a \in Seq(W) /\ b \in Seq(W) /\ \A d \in W : Sound(text, d)
  BY <1>1, <1>2, <1>3
<1>5. a \o b \in Seq(W)
  BY <1>4, ConcatProperties
<1> QED BY <1>4, <1>5 DEF Quoting

LEMMA ConcatHears ==
  ASSUME NEW text, NEW reply, NEW d, NEW e, Quoting(text, d), Quoting(text, e), HearsOut(text, reply, e),
         NEW f, f = d \o e
  PROVE  HearsOut(text, reply, f)
<1> SUFFICES ASSUME NEW item, ReportsItem(e, item) PROVE ReportsItem(f, item)
  BY DEF HearsOut
<1>1. PICK k \in 1 .. Len(e) : /\ e[k].detector = "contextual"
                              /\ e[k].start = item.start.value /\ e[k].end = item.end.value
  BY DEF ReportsItem
<1>2. PICK Y, Z : d \in Seq(Y) /\ e \in Seq(Z)
  BY DEF Quoting
<1>3. PICK W : d \in Seq(W) /\ e \in Seq(W)
  <2>1. d \in Seq(Y \cup Z) /\ e \in Seq(Y \cup Z)
    BY <1>2
  <2> QED BY <2>1
<1>4. PICK n : n = Len(d) + k
  OBVIOUS
<1>5. n \in 1 .. Len(f) /\ f[n] = e[k]
  BY <1>1, <1>3, <1>4
<1> QED BY <1>1, <1>5 DEF ReportsItem

\* What each stage leaves for the next one, for any request.
Excusable(q) ==
  \/ q.ner.backend = "fails" \/ q.reply.shape # "items"
  \/ \E item \in ToSet(q.reply.items) : item.confidence.kind = "huge"

StageInv ==
  /\ input \in Input
  /\ Quoting(Text, detections)
  /\ stage = "raised" => Excusable(input)
  /\ Detected => HearsOut(Text, input.reply, detections)
  /\ Merged => result = merge(Text, detections, input.exceptions)

LEMMA StageInitially == Init => StageInv
<1> SUFFICES ASSUME Init PROVE StageInv
  OBVIOUS
<1>1. Quoting(Text, Construct(<<>>).detections)
  BY NothingReported, ConstructQuotes
<1>2. Construct(<<>>).detections = <<>>
  BY DEF Construct, Found, Failed
<1> QED BY <1>1, <1>2 DEF Init, StageInv, Merged, Detected

LEMMA StageStep == StageInv /\ [Next]_vars => StageInv'
<1> SUFFICES ASSUME StageInv, [Next]_vars PROVE StageInv'
  OBVIOUS
<1>1. CASE Detect
  <2>1. input \in Input /\ input' = input /\ Text' = Text /\ Text = input.text
    BY <1>1 DEF Detect, StageInv, Text
  <2>2. PICK a, b, c : /\ a = structural_detect(Text, input.country, input.phones)
                       /\ b = ner_detect(Text, input.ner) /\ c = contextual_detect(Text, input.reply)
    OBVIOUS
  <2>3. Outcomes = <<a, b, c>>
    BY <2>2 DEF Outcomes
  <2>4. Quoting(Text, a.detections) /\ ~a.raised
    BY <2>1, <2>2, StructuralSound
  <2>5. Quoting(Text, b.detections) /\ (input.ner.backend # "fails" => ~b.raised)
    BY <2>1, <2>2, NerSound
  <2>6. /\ Quoting(Text, c.detections) /\ HearsOut(Text, input.reply, c.detections)
        /\ input.reply.shape = "items" /\ (\A item \in ToSet(input.reply.items) : item.confidence.kind # "huge")
             => ~c.raised
    BY <2>1, <2>2, ContextualSound
  <2>7. \/ stage' = "raised" /\ detections' = detections /\ \E n \in DOMAIN Outcomes : Outcomes[n].raised
        \/ stage' = "merging" /\ detections' = a.detections \o b.detections \o c.detections
    BY <1>1, <2>3 DEF Detect
  <2>8. (\E n \in DOMAIN Outcomes : Outcomes[n].raised) => a.raised \/ b.raised \/ c.raised
    BY <2>3
  <2>9. Quoting(Text, detections')
    <3>1. Quoting(Text, detections)
      BY DEF StageInv
    <3> QED BY <2>4, <2>5, <2>6, <2>7, <3>1, ConcatQuotes
  <2>10. stage' = "raised" => Excusable(input)
    BY <2>4, <2>5, <2>6, <2>7, <2>8 DEF Excusable
  <2>11. stage' # "merged"
    BY <2>7
  <2>12. stage' = "merging" => HearsOut(Text, input.reply, detections')
    <3>1. PICK d, e, f : d = a.detections \o b.detections /\ e = c.detections /\ f = d \o e
      OBVIOUS
    <3>2. Quoting(Text, d) /\ Quoting(Text, e)
      BY <2>4, <2>5, <2>6, <3>1, ConcatQuotes
    <3>3. HearsOut(Text, input.reply, f)
      BY <2>6, <3>1, <3>2, ConcatHears
    <3> QED BY <2>7, <3>1, <3>3
  <2> QED BY <2>1, <2>7, <2>9, <2>10, <2>11, <2>12 DEF StageInv, Merged, Detected
<1>2. CASE Merge
  <2>1. /\ input' = input /\ detections' = detections /\ Text' = Text /\ stage' = "merged"
        /\ result' = merge(Text, detections, input.exceptions)
    BY <1>2 DEF Merge, Text
  <2>2. Detected
    BY <1>2 DEF Merge, Detected
  <2> QED BY <2>1, <2>2 DEF StageInv, Merged
<1>3. CASE UNCHANGED vars
  BY <1>3 DEF vars, StageInv, Merged, Detected, Text
<1> QED BY <1>1, <1>2, <1>3 DEF Next

LEMMA StageInvariance == Spec => []StageInv
<1> QED BY StageInitially, StageStep, PTL DEF Spec

\* Hard rule 6, for any text and whatever the engines answer.
THEOREM QuotesAlways == Spec => []OnlyQuotes
<1>1. StageInv => OnlyQuotes
  <2> SUFFICES ASSUME StageInv, NEW d \in ToSet(detections) PROVE _span_matches(Text, d)
    BY DEF OnlyQuotes
  <2>1. PICK Y : detections \in Seq(Y) /\ \A e \in Y : Sound(Text, e)
    BY DEF StageInv, Quoting
  <2>2. d \in Y
    BY <2>1 DEF ToSet
  <2> QED BY <2>1, <2>2 DEF Sound
<1> QED BY <1>1, StageInvariance, PTL

\* An account number with one digit wrong, or two neighbours swapped, is not taken
\* for one, whatever the number is and wherever the error.
THEOREM MistypedRibsCaught == Spec => []MistypedRibIsNone
<1>1. StageInv => MistypedRibIsNone
  <2> SUFFICES ASSUME StageInv, NEW d \in ToSet(From("structural.dz")), d.entity_type = "bank_account",
                      NEW other \in Mistyped(d.text), other # d.text
               PROVE  ~_rib_key_valid(other)
    BY DEF MistypedRibIsNone
  <2>1. PICK Y : detections \in Seq(Y) /\ \A e \in Y : Sound(Text, e)
    BY DEF StageInv, Quoting
  <2>2. PICK I : I = {n \in DOMAIN detections : detections[n].detector = "structural.dz"}
    OBVIOUS
  <2>3. From("structural.dz") = At(detections, I) /\ I \in SUBSET (1 .. Len(detections))
    BY <2>1, <2>2 DEF From, Filter
  <2>4. PICK ds : ds = From("structural.dz")
    OBVIOUS
  <2>5. PICK p : Enumerates(p, Len(ds), I) /\ \A k \in 1 .. Len(ds) : ds[k] = detections[p[k]]
    BY <2>1, <2>3, <2>4, AtEnumerates
  <2>6. ds \in Seq(Y)
    BY <2>1, <2>3, <2>4, AtEnumerates
  <2>7. PICK k \in 1 .. Len(ds) : d = ds[k]
    BY <2>4, <2>6 DEF ToSet
  <2>8. d \in Y /\ d.detector = "structural.dz"
    <3>1. p[k] \in I
      BY <2>5 DEF Enumerates
    <3> QED BY <2>1, <2>2, <2>5, <2>6, <2>7, <3>1
  <2>9. Account(d.text)
    BY <2>1, <2>8 DEF Sound, Made, Genuine
  <2> QED BY <2>9, MistypedFails DEF Account
<1> QED BY <1>1, StageInvariance, PTL

LEMMA ZerosList == ASSUME NEW n \in Nat PROVE Zeros(n) \in Seq(Digit) /\ Len(Zeros(n)) = n
<1>1. PICK z : z = Zeros(n)
  OBVIOUS
<1>2. z \in Number(n)
  BY <1>1 DEF Zeros, Number, Digit
<1> QED BY <1>1, <1>2, NumberLists

LEMMA HashNumbers ==
  ASSUME StageInv, NEW length \in Nat, NEW x \in HashDigits(length)
  PROVE  x \in Number(length)
<1>1. Text \in Seq(Nat)
  BY InputAssumption DEF StageInv, Text
<1>2. PICK run, I : run = At(Text, I) /\ I = {n \in DOMAIN Text : Text[n] \in Digit}
  OBVIOUS
<1>3. run = Filter(Text, LAMBDA c : c \in Digit)
  BY <1>2 DEF Filter
<1>4. run \in Seq(Digit) /\ Len(run) \in Nat
  <2>1. I \in SUBSET (1 .. Len(Text))
    BY <1>1, <1>2
  <2>a. PICK text : text = Text /\ text \in Seq(Nat)
    BY <1>1
  <2>b. I \in SUBSET (1 .. Len(text)) /\ run = At(text, I)
    BY <1>2, <2>1, <2>a
  <2>c. run \in Seq(Nat) /\ \E p : Enumerates(p, Len(run), I) /\ \A k \in 1 .. Len(run) : run[k] = text[p[k]]
    BY <2>a, <2>b, AtEnumerates
  <2>2. PICK p : Enumerates(p, Len(run), I) /\ \A k \in 1 .. Len(run) : run[k] = Text[p[k]]
    BY <2>a, <2>c
  <2>3. run \in Seq(Nat)
    BY <2>c
  <2>4. ASSUME NEW k \in 1 .. Len(run) PROVE run[k] \in Digit
    <3>1. p[k] \in I
      BY <2>2 DEF Enumerates
    <3> QED BY <1>2, <2>2, <3>1
  <2> QED BY <2>3, <2>4
<1>5. PICK m : m = Min({Len(run), length})
  OBVIOUS
<1>6. m \in 0 .. length /\ m <= Len(run)
  <2>1. Min({Len(run), length}) \in {Len(run), length} /\ \A y \in {Len(run), length} : Min({Len(run), length}) <= y
    <3>1. PICK l \in Nat : l = Len(run)
      BY <1>4
    <3>2. \E y \in {l, length} : \A z \in {l, length} : y <= z
      BY <3>1
    <3> QED BY <3>1, <3>2 DEF Min
  <2> QED BY <1>4, <1>5, <2>1
<1>7. PICK kept : kept = SubSeq(run, 1, m)
  OBVIOUS
<1>8. kept \in Seq(Digit) /\ Len(kept) = m
  <2>1. \A i \in 1 .. m : run[i] \in Digit
    BY <1>4, <1>6
  <2>2. kept \in Seq(Digit) /\ Len(kept) = IF 1 <= m THEN m - 1 + 1 ELSE 0
    BY <1>6, <1>7, <2>1, SubSeqProperties
  <2> QED BY <1>6, <2>2
<1>9. PICK k \in 0 .. length - Len(kept) : x = Zeros(k) \o kept \o Zeros(length - k - Len(kept))
  BY <1>3, <1>5, <1>7 DEF HashDigits
<1>10. PICK r \in Nat : r = length - k - Len(kept) /\ k \in Nat /\ k + m + r = length
  BY <1>6, <1>8, <1>9
<1>11. PICK a, b : a = Zeros(k) /\ b = Zeros(r)
  OBVIOUS
<1>12. a \in Seq(Digit) /\ Len(a) = k /\ b \in Seq(Digit) /\ Len(b) = r
  BY <1>10, <1>11, ZerosList
<1>13. PICK c : c = a \o kept
  OBVIOUS
<1>14. c \in Seq(Digit) /\ Len(c) = Len(a) + Len(kept)
  BY <1>8, <1>12, <1>13, ConcatProperties
<1>15. x \in Seq(Digit) /\ Len(x) = Len(c) + Len(b)
  <2>1. x = c \o b
    BY <1>9, <1>10, <1>11, <1>13
  <2> QED BY <1>12, <1>14, <2>1, ConcatProperties
<1>16. Len(x) = length
  BY <1>6, <1>8, <1>10, <1>12, <1>14, <1>15
<1> QED BY <1>15, <1>16 DEF Number

\* What replaces an account number has a valid key and what replaces a card number
\* passes the Luhn test, whatever the hash gives.
THEOREM SyntheticsPass == Spec => []SyntheticsValidate
<1>1. StageInv => SyntheticsValidate
  <2> SUFFICES ASSUME StageInv PROVE SyntheticsValidate
    OBVIOUS
  <2>1. RIB_BODY = 18 /\ RIB_BODY \in Nat
    <3>1. RIB_BODY = 20 - 2
      BY DEF RIB_BODY, RIB_DIGITS
    <3> QED BY <3>1
  <2>a. CARD_BODY \in Nat
    BY DEF CARD_BODY
  <2>2. ASSUME NEW body \in HashDigits(RIB_BODY) PROVE _rib_key_valid(_rib_for(body))
    <3>1. body \in Number(18)
      BY <2>1, HashNumbers
    <3> QED BY <3>1, RibForValid
  <2>3. ASSUME NEW base \in HashDigits(CARD_BODY) PROVE LuhnHolds(_luhn_for(base))
    <3>1. base \in Number(CARD_BODY)
      BY <2>a, HashNumbers
    <3> QED BY <2>a, <3>1, LuhnForHolds
  <2> QED BY <2>2, <2>3 DEF SyntheticsValidate
<1> QED BY <1>1, StageInvariance, PTL

\* A strict request fails only when an engine or its answer as a whole did, or
\* on the one number no float can hold: no other item fails it.
THEOREM ItemsCannotFail == Spec => []ItemsNeverFail
<1>1. StageInv => ItemsNeverFail
  BY DEF StageInv, ItemsNeverFail, Excusable
<1> QED BY <1>1, StageInvariance, PTL

-----------------------------------------------------------------------------
(* The merge engine. *)

\* The detections that are left to be resolved.
Left(text, ds, excs) ==
  Filter(ds, LAMBDA d : _span_matches(text, d) /\ ~Excepted(excs, d) /\ Confident(d))

LEMMA FilteredOnce ==
  ASSUME NEW text, NEW excs, NEW X, NEW ds \in Seq(X)
  PROVE  merge(text, ds, excs).accepted = _resolve_overlaps(Left(text, ds, excs))
<1> DEFINE valid == Filter(ds, LAMBDA d : _span_matches(text, d))
           validated == Filter(valid, LAMBDA d : ~Excepted(excs, d))
           final == Filter(validated, Confident)
           all == Left(text, ds, excs)
<1>1. merge(text, ds, excs).accepted = _resolve_overlaps(final)
  BY DEF merge
<1>2. PICK P, Q, R : /\ P = {d \in X : _span_matches(text, d)}
                     /\ Q = {d \in X : ~Excepted(excs, d)}
                     /\ R = {d \in X : Confident(d)}
  OBVIOUS
<1>3. PICK PQ, both : PQ = P \cap Q /\ Kept(ds, PQ, both)
  BY DEF Kept
<1>4. Kept(ds, P, valid)
  <2>1. {n \in DOMAIN ds : _span_matches(text, ds[n])} = {n \in 1 .. Len(ds) : ds[n] \in P}
    BY <1>2
  <2> QED BY <2>1 DEF Kept, Filter
<1>5. valid \in Seq(X)
  <2> HIDE DEF valid
  <2> QED BY <1>4, AtEnumerates DEF Kept
<1>6. Kept(valid, Q, validated)
  <2>1. PICK v : v = valid
    OBVIOUS
  <2>2. validated = At(v, {n \in DOMAIN v : ~Excepted(excs, v[n])})
    BY <2>1, Zenon DEF Filter
  <2>3. v \in Seq(X)
    BY <1>5, <2>1
  <2> HIDE DEF valid, validated
  <2>4. {n \in DOMAIN v : ~Excepted(excs, v[n])} = {n \in 1 .. Len(v) : v[n] \in Q}
    BY <1>2, <2>3
  <2> QED BY <2>1, <2>2, <2>4 DEF Kept
<1>7. validated = both
  <2> HIDE DEF valid, validated
  <2> QED BY <1>3, <1>4, <1>6, FilterTwice
<1>8. both \in Seq(X)
  BY <1>3, AtEnumerates DEF Kept
<1>9. Kept(both, R, final)
  <2>1. final = At(both, {n \in DOMAIN both : Confident(both[n])})
    BY <1>7 DEF Filter
  <2>2. {n \in DOMAIN both : Confident(both[n])} = {n \in 1 .. Len(both) : both[n] \in R}
    BY <1>2, <1>8
  <2> HIDE DEF final
  <2> QED BY <2>1, <2>2 DEF Kept
<1>10. Kept(ds, PQ \cap R, all)
  <2>1. {n \in DOMAIN ds : _span_matches(text, ds[n]) /\ ~Excepted(excs, ds[n]) /\ Confident(ds[n])}
          = {n \in 1 .. Len(ds) : ds[n] \in PQ \cap R}
    BY <1>2, <1>3
  <2> QED BY <2>1 DEF Kept, Filter, Left
<1>11. final = all
  <2> HIDE DEF final, all
  <2> QED BY <1>3, <1>9, <1>10, FilterTwice
<1> QED BY <1>1, <1>11

\* The items of a reply do not harm one another, whatever is wrong with some.
THEOREM ItemsKeptApart == Spec => []NeighboursSurvive
<1>1. StageInv => NeighboursSurvive
  <2> SUFFICES ASSUME StageInv, Detected, Fits(input.reply), NEW item \in ToSet(input.reply.items),
                      Readable(item), Quoted(Text, item)
               PROVE  \E d \in ToSet(detections) :
                        d.detector = "contextual" /\ SpanOf(d) = <<item.start.value, item.end.value>>
    BY DEF NeighboursSurvive, Fits
  <2>1. ReportsItem(detections, item)
    BY DEF StageInv, HearsOut
  <2>2. PICK k \in 1 .. Len(detections) :
               /\ detections[k].detector = "contextual"
               /\ detections[k].start = item.start.value /\ detections[k].end = item.end.value
    BY <2>1 DEF ReportsItem
  <2>3. PICK Y : detections \in Seq(Y)
    BY DEF StageInv, Quoting
  <2>4. detections[k] \in ToSet(detections)
    BY <2>2, <2>3 DEF ToSet
  <2> QED BY <2>2, <2>4 DEF SpanOf
<1> QED BY <1>1, StageInvariance, PTL

\* What is accepted comes of resolving the overlaps of the survivors.
LEMMA AcceptedAre ==
  ASSUME StageInv, Merged PROVE result.accepted = _resolve_overlaps(Survivors)
<1>1. PICK Y : detections \in Seq(Y)
  BY DEF StageInv, Quoting
<1>2. result = merge(Text, detections, input.exceptions)
  BY DEF StageInv
<1>3. Survivors = Left(Text, detections, input.exceptions)
  BY DEF Survivors, Left
<1>4. merge(Text, detections, input.exceptions).accepted = _resolve_overlaps(Survivors)
  BY <1>1, <1>3, FilteredOnce
<1> QED BY <1>2, <1>4

-----------------------------------------------------------------------------
(* Overlap resolution. *)

Spanned(d) ==
  /\ {"start", "end"} \subseteq DOMAIN d
  /\ d.start \in Nat /\ d.end \in Nat /\ d.start < d.end /\ d.tier \in Int

Reaches(p, n) == \A i \in 1 .. n : \E k \in 1 .. n : p[k] = i

LEMMA PositionsSorted ==
  ASSUME NEW Y, NEW ds \in Seq(Y), \A d \in Y : Spanned(d), NEW p, p = SortedPositions(ds)
  PROVE  /\ p \in Seq(1 .. Len(ds)) /\ Len(p) = Len(ds)
         /\ Reaches(p, Len(ds))
         /\ \A j, k \in 1 .. Len(ds) : j < k => ds[p[j]].start <= ds[p[k]].start
         /\ \A j, k \in 1 .. Len(ds) : j < k => StartsFirst(ds, p[j], p[k])
<1>1. PICK n, S : n = Len(ds) /\ S = 1 .. n
  OBVIOUS
<1> DEFINE R == {q \in (DOMAIN ds) \X (DOMAIN ds) : StartsFirst(ds, q[1], q[2])}
<1>2. n \in Nat /\ DOMAIN ds = S /\ IsFiniteSet(S) /\ Cardinality(S) = n
  <2>1. n \in Nat /\ DOMAIN ds = S
    BY <1>1
  <2>2. IsFiniteSet(1 .. n) /\ Cardinality(1 .. n) = n
    BY <2>1, FS_Interval
  <2> QED BY <1>1, <2>1, <2>2
<1>3. p = InOrder(S, R)
  BY <1>2 DEF SortedPositions
<1>4. \A i, j \in S : <<i, j>> \in R <=> StartsFirst(ds, i, j)
  BY <1>2
<1> HIDE DEF R
<1>5. \A i \in S : i \in Int /\ ds[i].start \in Int /\ ds[i].end \in Int
  BY <1>1 DEF Spanned
<1>6. StrictOrder(S, R)
  <2>1. \A i \in S : ~StartsFirst(ds, i, i)
    BY <1>5 DEF StartsFirst
  <2>2. \A i, j \in S : i = j \/ StartsFirst(ds, i, j) \/ StartsFirst(ds, j, i)
    BY <1>5 DEF StartsFirst
  <2>3. \A i, j, k \in S : StartsFirst(ds, i, j) /\ StartsFirst(ds, j, k) => StartsFirst(ds, i, k)
    BY <1>5 DEF StartsFirst
  <2> QED BY <1>4, <2>1, <2>2, <2>3 DEF StrictOrder
<1>7. /\ p \in [1 .. n -> S] /\ \A i \in S : \E k \in 1 .. n : p[k] = i
      /\ \A j, k \in 1 .. n : j < k <=> <<p[j], p[k]>> \in R
  <2>1. PICK c, order : c = Cardinality(S) /\ order = InOrder(S, R)
    OBVIOUS
  <2>2. order \in [1 .. c -> S] /\ \A j, k \in 1 .. c : j < k <=> <<order[j], order[k]>> \in R
    BY <1>2, <1>6, <2>1, InOrderSorts
  <2>3. \A i \in S : \E k \in 1 .. c : order[k] = i
    BY <1>2, <1>6, <2>1, InOrderSorts
  <2> QED BY <1>2, <1>3, <2>1, <2>2, <2>3
<1>8. p \in Seq(S) /\ Len(p) = n
  BY <1>2, <1>7
<1>9. ASSUME NEW j \in 1 .. n, NEW k \in 1 .. n, j < k
      PROVE  ds[p[j]].start <= ds[p[k]].start /\ StartsFirst(ds, p[j], p[k])
  <2>1. p[j] \in S /\ p[k] \in S
    BY <1>7
  <2>2. StartsFirst(ds, p[j], p[k])
    BY <1>4, <1>7, <1>9, <2>1
  <2> QED BY <1>5, <2>1, <2>2 DEF StartsFirst
<1> QED BY <1>1, <1>7, <1>8, <1>9 DEF Reaches

\* What the clustering loop carries from round to round.
ClusterState(n) == [clusters : Seq(Seq(1 .. n)), end : Int]

\* The two things a round can do.
RoundCases(ds, acc, i, next) ==
  LET L == Len(acc.clusters)
  IN  \/ /\ ds[i].start < acc.end /\ L # 0
         /\ next.clusters = [acc.clusters EXCEPT ![L] = Append(acc.clusters[L], i)]
         /\ next.end = IF ds[i].end > acc.end THEN ds[i].end ELSE acc.end
      \/ /\ ds[i].start < acc.end /\ L = 0
         /\ next.clusters = acc.clusters
         /\ next.end = IF ds[i].end > acc.end THEN ds[i].end ELSE acc.end
      \/ /\ ~(ds[i].start < acc.end)
         /\ next.clusters = Append(acc.clusters, <<i>>)
         /\ next.end = ds[i].end

LEMMA ExtendDoes ==
  ASSUME NEW n \in Nat, NEW ds, NEW acc \in ClusterState(n), NEW i \in 1 .. n, ds[i].end \in Int
  PROVE  /\ RoundCases(ds, acc, i, Extend(ds, acc, i))
         /\ Extend(ds, acc, i) \in ClusterState(n)
<1>1. PICK cs, L, next : cs = acc.clusters /\ L = Len(cs) /\ next = Extend(ds, acc, i)
  OBVIOUS
<1>2. cs \in Seq(Seq(1 .. n)) /\ acc.end \in Int /\ L \in Nat
  BY <1>1 DEF ClusterState
<1>3. CASE ds[i].start < acc.end
  <2>1. PICK e : e = IF ds[i].end > acc.end THEN ds[i].end ELSE acc.end
    OBVIOUS
  <2>2. next = [clusters |-> [cs EXCEPT ![L] = Append(cs[L], i)], end |-> e]
    BY <1>1, <1>3, <2>1 DEF Extend
  <2>3. next.clusters = [cs EXCEPT ![L] = Append(cs[L], i)] /\ next.end = e
    BY <2>2
  <2>4. e \in Int
    BY <1>2, <2>1
  <2>5. CASE L = 0
    <3>1. [cs EXCEPT ![L] = Append(cs[L], i)] = cs
      BY <1>1, <1>2, <2>5
    <3>2. next = [clusters |-> cs, end |-> e]
      BY <2>2, <3>1
    <3>3. next \in ClusterState(n)
      BY <1>2, <2>4, <3>2 DEF ClusterState
    <3> QED BY <1>1, <1>3, <2>1, <2>3, <2>5, <3>1, <3>3 DEF RoundCases
  <2>6. CASE L # 0
    <3>1. L \in 1 .. Len(cs) /\ cs[L] \in Seq(1 .. n)
      BY <1>1, <1>2, <2>6
    <3>2. PICK c : c = Append(cs[L], i) /\ c \in Seq(1 .. n)
      BY <3>1, AppendProperties
    <3>3. [cs EXCEPT ![L] = c] \in Seq(Seq(1 .. n))
      BY <1>2, <3>1, <3>2
    <3>4. next \in ClusterState(n)
      BY <2>2, <2>4, <3>2, <3>3 DEF ClusterState
    <3> QED BY <1>1, <1>3, <2>1, <2>3, <2>6, <3>4 DEF RoundCases
  <2> QED BY <2>5, <2>6
<1>4. CASE ~(ds[i].start < acc.end)
  <2>1. next = [clusters |-> Append(cs, <<i>>), end |-> ds[i].end]
    BY <1>1, <1>4 DEF Extend
  <2>2. <<i>> \in Seq(1 .. n)
    OBVIOUS
  <2>3. Append(cs, <<i>>) \in Seq(Seq(1 .. n))
    BY <1>2, <2>2, AppendProperties
  <2>4. next \in ClusterState(n)
    BY <2>1, <2>3 DEF ClusterState
  <2>5. next.clusters = Append(cs, <<i>>) /\ next.end = ds[i].end
    BY <2>1
  <2> QED BY <1>1, <1>4, <2>4, <2>5 DEF RoundCases
<1> QED BY <1>3, <1>4

\* The run of the loop over the sorted positions p.
ClusterRun(state, ds, p) ==
  /\ state[0] = [clusters |-> <<>>, end |-> 0]
  /\ \A n \in 1 .. Len(ds) : state[n] = Extend(ds, state[n - 1], p[n])
  /\ \A n \in 0 .. Len(ds) : state[n] \in ClusterState(Len(ds))

LEMMA ClustersRun ==
  ASSUME NEW Y, NEW ds \in Seq(Y), \A d \in Y : Spanned(d), NEW p, p = SortedPositions(ds)
  PROVE  \E state : ClusterRun(state, ds, p) /\ Clusters(ds) = state[Len(ds)].clusters
<1> DEFINE start == [clusters |-> <<>>, end |-> 0]
           m == Len(ds)
           X == ClusterState(m)
           F == [q \in X \X (1 .. m) |-> Extend(ds, q[1], p[q[2]])]
           run(f) == [n \in 0 .. m |-> IF n = 0 THEN start ELSE Extend(ds, f[n - 1], p[n])]
           state == CHOOSE f : f = run(f)
<1>1. m \in Nat /\ p \in Seq(1 .. m) /\ Len(p) = m
  BY PositionsSorted
<1>0. Clusters(ds) = state[m].clusters
  <2> DEFINE r(f) == [n \in 0 .. Len(p) |-> IF n = 0 THEN start ELSE Extend(ds, f[n - 1], p[n])]
  <2>1. Clusters(ds) = (CHOOSE f : f = r(f))[Len(p)].clusters
    BY DEF Clusters, Loop
  <2>2. Len(p) = m
    BY <1>1
  <2> HIDE DEF m
  <2> QED BY <2>1, <2>2
<1>2. start \in X
  BY DEF ClusterState
<1>3. \A x \in X, n \in 1 .. m : Extend(ds, x, p[n]) \in X
  <2> SUFFICES ASSUME NEW x \in X, NEW n \in 1 .. m PROVE Extend(ds, x, p[n]) \in X
    OBVIOUS
  <2>1. p[n] \in 1 .. m
    BY <1>1
  <2>2. ds[p[n]].end \in Int
    BY <2>1 DEF Spanned
  <2> QED BY <1>1, <2>1, <2>2, ExtendDoes
<1> HIDE DEF X, m, start
<1>4. F \in [X \X (1 .. m) -> X]
  BY <1>3
<1>5. \E f : f = run(f)
  <2>1. PICK f : IsRun(f, X, start, m, F)
    <3> HIDE DEF F
    <3> QED BY <1>1, <1>2, <1>4, Recursion
  <2>2. f \in [0 .. m -> X] /\ f[0] = start
    BY <2>1 DEF IsRun
  <2>3. ASSUME NEW n \in 1 .. m PROVE f[n] = Extend(ds, f[n - 1], p[n])
    <3>1. f[n] = F[<<f[n - 1], n>>]
      BY <2>1 DEF IsRun
    <3>2. n - 1 \in 0 .. m
      BY <1>1
    <3>3. f[n - 1] \in X
      BY <2>2, <3>2
    <3> QED BY <3>1, <3>3
  <2>4. f = run(f)
    BY <1>1, <2>2, <2>3
  <2> QED BY <2>4
<1>6. state = run(state)
  BY <1>5
<1> HIDE DEF state
<1>7. state[0] = start /\ \A n \in 1 .. m : state[n] = Extend(ds, state[n - 1], p[n])
  BY <1>1, <1>6
<1>8. \A n \in 0 .. m : state[n] \in X
  BY <1>1, <1>2, <1>3, <1>7, RunStays, ZenonT(30)
<1> QED BY <1>0, <1>7, <1>8 DEF X, m, start, ClusterRun

\* Clusters whose spans lie apart, in the order of the text.
Has(c, i) == \E x \in 1 .. Len(c) : c[x] = i
Apart(ds, cs) ==
  \A j, k \in 1 .. Len(cs) : j < k => \A a, b : Has(cs[j], a) /\ Has(cs[k], b) => ds[a].end <= ds[b].start

\* After n rounds: what the clusters hold came first in the order, ends within
\* them, and lies apart.
ClusterInv(ds, p, n, cs, end) ==
  /\ cs = <<>> => end = 0
  /\ \A k \in 1 .. Len(cs) : \E i : Has(cs[k], i)
  /\ \A k \in 1 .. Len(cs) : \A i : Has(cs[k], i) => (\E j \in 1 .. n : i = p[j]) /\ ds[i].end <= end
  /\ Apart(ds, cs)

LEMMA HasIn == ASSUME NEW S, NEW c \in Seq(S), NEW i, Has(c, i) PROVE i \in S
BY DEF Has

LEMMA AppendHas ==
  ASSUME NEW S, NEW c \in Seq(S), NEW i \in S, NEW j
  PROVE  Has(Append(c, i), j) <=> Has(c, j) \/ j = i
<1>1. PICK d : d = Append(c, i)
  OBVIOUS
<1>2. Len(c) \in Nat /\ Len(d) = Len(c) + 1 /\ d[Len(c) + 1] = i /\ \A x \in 1 .. Len(c) : d[x] = c[x]
  BY <1>1, AppendProperties
<1>3. Has(d, j) <=> Has(c, j) \/ j = i
  BY <1>2 DEF Has
<1> QED BY <1>1, <1>3

LEMMA RoundKeeps ==
  ASSUME NEW m \in Nat, NEW ds, \A i \in 1 .. m : ds[i].start \in Nat /\ ds[i].end \in Nat /\ ds[i].start < ds[i].end,
         NEW p \in Seq(1 .. m), Len(p) = m,
         \A j, k \in 1 .. m : j < k => ds[p[j]].start <= ds[p[k]].start,
         NEW n \in 1 .. m, NEW acc \in ClusterState(m),
         ClusterInv(ds, p, n - 1, acc.clusters, acc.end), NEW next, next = Extend(ds, acc, p[n])
  PROVE  ClusterInv(ds, p, n, next.clusters, next.end)
<1>1. PICK i, cs, L, e, new, f :
        /\ i = p[n] /\ cs = acc.clusters /\ L = Len(cs) /\ e = acc.end
        /\ new = next.clusters /\ f = next.end
  OBVIOUS
<1>2. /\ i \in 1 .. m /\ cs \in Seq(Seq(1 .. m)) /\ L \in Nat /\ e \in Int
      /\ RoundCases(ds, acc, i, next)
  <2>1. i \in 1 .. m
    BY <1>1
  <2>2. ds[i].end \in Int
    BY <2>1
  <2>3. RoundCases(ds, acc, i, next)
    BY <1>1, <2>1, <2>2, ExtendDoes
  <2>4. acc.clusters \in Seq(Seq(1 .. m)) /\ acc.end \in Int
    BY DEF ClusterState
  <2> QED BY <1>1, <2>1, <2>3, <2>4
<1>3. /\ cs = <<>> => e = 0
      /\ \A k \in 1 .. L : \E x : Has(cs[k], x)
      /\ \A k \in 1 .. L : \A x : Has(cs[k], x) => (\E j \in 1 .. n - 1 : x = p[j]) /\ ds[x].end <= e
      /\ \A j, k \in 1 .. L : j < k => \A a, b : Has(cs[j], a) /\ Has(cs[k], b) => ds[a].end <= ds[b].start
  <2>1. ClusterInv(ds, p, n - 1, cs, e)
    BY <1>1
  <2> QED BY <1>1, <2>1 DEF ClusterInv, Apart
<1>4. \A k \in 1 .. L : \A x : Has(cs[k], x) => /\ x \in 1 .. m /\ ds[x].start <= ds[i].start
  <2> SUFFICES ASSUME NEW k \in 1 .. L, NEW x, Has(cs[k], x) PROVE x \in 1 .. m /\ ds[x].start <= ds[i].start
    OBVIOUS
  <2>1. PICK j \in 1 .. n - 1 : x = p[j]
    BY <1>3
  <2>2. j \in 1 .. m /\ j < n
    BY <2>1
  <2> QED BY <1>1, <2>1, <2>2, SMTT(30)
<1>5. \A x \in 1 .. m : ds[x].start \in Int /\ ds[x].end \in Int
  OBVIOUS
<1>6. CASE /\ ds[i].start < e /\ L # 0
           /\ new = [cs EXCEPT ![L] = Append(cs[L], i)]
           /\ f = IF ds[i].end > e THEN ds[i].end ELSE e
  <2>1. new \in Seq(Seq(1 .. m)) /\ Len(new) = L /\ L \in 1 .. L /\ new # <<>>
    <3>1. L \in 1 .. Len(cs) /\ cs[L] \in Seq(1 .. m)
      BY <1>1, <1>2, <1>6
    <3>2. PICK c : c = Append(cs[L], i) /\ c \in Seq(1 .. m)
      BY <1>2, <3>1, AppendProperties
    <3>3. new = [cs EXCEPT ![L] = c]
      BY <1>6, <3>2
    <3> QED BY <1>1, <1>2, <1>6, <3>1, <3>2, <3>3
  <2>2. \A k \in 1 .. L : \A x : Has(new[k], x) <=> Has(cs[k], x) \/ (k = L /\ x = i)
    <3> SUFFICES ASSUME NEW k \in 1 .. L, NEW x PROVE Has(new[k], x) <=> Has(cs[k], x) \/ (k = L /\ x = i)
      OBVIOUS
    <3>1. CASE k = L
      <4>1. PICK S : S = 1 .. m
        OBVIOUS
      <4>2. cs[L] \in Seq(S) /\ L \in DOMAIN cs
        BY <1>1, <1>2, <3>1, <4>1
      <4>3. PICK c : c = Append(cs[L], i)
        OBVIOUS
      <4>4. new = [cs EXCEPT ![L] = c]
        BY <1>6, <4>3
      <4>5. new[L] = c
        BY <4>2, <4>4
      <4>6. Has(c, x) <=> Has(cs[L], x) \/ x = i
        BY <1>2, <4>1, <4>2, <4>3, AppendHas
      <4> QED BY <3>1, <4>5, <4>6
    <3>2. CASE k # L
      BY <1>1, <1>2, <1>6, <3>2, SMTT(30)
    <3> QED BY <3>1, <3>2
  <2>3. f \in Int /\ e <= f /\ ds[i].end <= f
    BY <1>2, <1>5, <1>6
  <2>4. \A k \in 1 .. L : \E x : Has(new[k], x)
    BY <1>3, <2>2
  <2>5. \A k \in 1 .. L : \A x : Has(new[k], x) => (\E j \in 1 .. n : x = p[j]) /\ ds[x].end <= f
    <3> SUFFICES ASSUME NEW k \in 1 .. L, NEW x, Has(new[k], x) PROVE (\E j \in 1 .. n : x = p[j]) /\ ds[x].end <= f
      OBVIOUS
    <3>1. CASE Has(cs[k], x)
      <4>1. (\E j \in 1 .. n - 1 : x = p[j]) /\ ds[x].end <= e /\ x \in 1 .. m
        BY <1>3, <1>4, <3>1
      <4> QED BY <1>2, <1>5, <2>3, <4>1, SMTT(30)
    <3>2. CASE x = i
      BY <1>1, <2>3, <3>2
    <3> QED BY <2>2, <3>1, <3>2
  <2>6. ASSUME NEW j \in 1 .. L, NEW k \in 1 .. L, j < k, NEW a, NEW b, Has(new[j], a), Has(new[k], b)
        PROVE  ds[a].end <= ds[b].start
    <3>0. j # L
      BY <1>2, <2>6
    <3>1. Has(cs[j], a) /\ a \in 1 .. m
      BY <1>4, <2>2, <2>6, <3>0
    <3>2. CASE Has(cs[k], b)
      BY <1>3, <2>6, <3>1, <3>2
    <3>3. CASE b = i
      <4>1. PICK c : Has(cs[k], c)
        BY <1>3
      <4>2. ds[a].end <= ds[c].start /\ ds[c].start <= ds[i].start /\ c \in 1 .. m
        BY <1>3, <1>4, <2>6, <3>1, <4>1
      <4>3. PICK u, v, w : u = ds[a].end /\ v = ds[c].start /\ w = ds[i].start
        OBVIOUS
      <4>4. u \in Int /\ v \in Int /\ w \in Int /\ u <= v /\ v <= w
        BY <1>2, <1>5, <3>1, <4>2, <4>3
      <4>5. u <= w
        BY <4>4
      <4> QED BY <3>3, <4>3, <4>5
    <3> QED BY <2>2, <2>6, <3>2, <3>3
  <2> QED BY <1>1, <2>1, <2>4, <2>5, <2>6, ZenonT(30) DEF ClusterInv, Apart
<1>7. CASE ds[i].start < e /\ L = 0
  <2>1. cs = <<>>
    BY <1>1, <1>2, <1>7, EmptySeq
  <2> QED BY <1>2, <1>3, <1>7, <2>1
<1>8. CASE /\ ~(ds[i].start < e) /\ new = Append(cs, <<i>>) /\ f = ds[i].end
  <2>1. PICK s, T : s = <<i>> /\ T = Seq(1 .. m) /\ s \in T /\ cs \in Seq(T)
    <3>1. <<i>> \in Seq(1 .. m)
      <4>1. PICK S : S = 1 .. m
        OBVIOUS
      <4>2. i \in S
        BY <1>2, <4>1
      <4>3. <<i>> \in Seq(S)
        BY <4>2
      <4> QED BY <4>1, <4>3
    <3> QED BY <1>2, <3>1
  <2>2. new = Append(cs, s)
    BY <1>8, <2>1
  <2>3. Len(new) = L + 1 /\ new[L + 1] = s /\ (\A k \in 1 .. L : new[k] = cs[k]) /\ new # <<>>
    <3>1. Len(new) = Len(cs) + 1
      BY <2>1, <2>2, AppendProperties
    <3>2. new[Len(cs) + 1] = s
      BY <2>1, <2>2, AppendProperties
    <3>3. \A k \in 1 .. Len(cs) : new[k] = cs[k]
      BY <2>1, <2>2, AppendProperties
    <3>4. new # <<>>
      BY <1>1, <1>2, <3>1
    <3> QED BY <1>1, <3>1, <3>2, <3>3, <3>4
  <2>4. \A x : Has(s, x) <=> x = i
    BY <2>1 DEF Has
  <2>5. f \in Int /\ e <= f /\ e <= ds[i].start
    BY <1>2, <1>5, <1>8, SMTT(30)
  <2>6. \A k \in 1 .. L + 1 : k \in 1 .. L \/ k = L + 1
    BY <1>2
  <2>7. \A k \in 1 .. L + 1 : \E x : Has(new[k], x)
    BY <1>3, <2>3, <2>4, <2>6
  <2>8. ASSUME NEW k \in 1 .. L + 1, NEW x, Has(new[k], x)
        PROVE  (\E j \in 1 .. n : x = p[j]) /\ ds[x].end <= f
    <3>1. CASE k \in 1 .. L
      <4>1. (\E j \in 1 .. n - 1 : x = p[j]) /\ ds[x].end <= e /\ x \in 1 .. m
        BY <1>3, <1>4, <2>3, <2>8, <3>1
      <4>2. PICK u : u = ds[x].end
        OBVIOUS
      <4>3. u \in Int /\ u <= e
        BY <1>5, <4>1, <4>2
      <4>4. u <= f
        BY <1>2, <2>5, <4>3
      <4>5. \E j \in 1 .. n : x = p[j]
        BY <4>1
      <4> QED BY <4>2, <4>4, <4>5
    <3>2. CASE k = L + 1
      <4>1. x = i
        BY <2>3, <2>4, <2>8, <3>2
      <4> QED BY <1>1, <1>2, <1>5, <1>8, <4>1
    <3> QED BY <2>6, <3>1, <3>2
  <2>9. ASSUME NEW j \in 1 .. L + 1, NEW k \in 1 .. L + 1, j < k, NEW a, NEW b, Has(new[j], a), Has(new[k], b)
        PROVE  ds[a].end <= ds[b].start
    <3>1. j \in 1 .. L
      BY <1>2, <2>9
    <3>2. Has(cs[j], a) /\ ds[a].end <= e /\ a \in 1 .. m
      BY <1>3, <1>4, <2>3, <2>9, <3>1
    <3>3. CASE k \in 1 .. L
      BY <1>3, <2>3, <2>9, <3>1, <3>2, <3>3
    <3>4. CASE k = L + 1
      <4>1. b = i
        BY <2>3, <2>4, <2>9, <3>4
      <4>2. PICK x, y : x = ds[a].end /\ y = ds[i].start
        OBVIOUS
      <4>3. x \in Int /\ y \in Int /\ x <= e /\ e <= y
        BY <1>2, <1>5, <2>5, <3>2, <4>2
      <4>4. x <= y
        BY <1>2, <4>3
      <4> QED BY <4>1, <4>2, <4>4
    <3> QED BY <2>6, <3>3, <3>4
  <2>10. Apart(ds, new)
    BY <2>3, <2>9 DEF Apart
  <2>11. ClusterInv(ds, p, n, new, f)
    BY <2>3, <2>7, <2>8, <2>10 DEF ClusterInv
  <2> QED BY <1>1, <2>11
<1> QED BY <1>1, <1>2, <1>6, <1>7, <1>8 DEF RoundCases

\* After n rounds: what came first in the order is in a cluster, the last cluster
\* reaches to the end, and what joined a cluster overlapped an earlier member and
\* comes after it in the order.
Ascends(ds, c) == \A x, y \in 1 .. Len(c) : x < y => StartsFirst(ds, c[x], c[y])
Chained(ds, c) == \A x \in 2 .. Len(c) : \E y \in 1 .. x - 1 : Overlap(ds[c[y]], ds[c[x]])
JoinInv(ds, p, n, cs, end) ==
  /\ \A j \in 1 .. n : \E k \in 1 .. Len(cs) : Has(cs[k], p[j])
  /\ cs # <<>> => \E i : Has(cs[Len(cs)], i) /\ ds[i].end = end
  /\ \A k \in 1 .. Len(cs) : Chained(ds, cs[k]) /\ Ascends(ds, cs[k])

\* A member that overlaps an earlier one keeps a cluster chained.
LEMMA AppendChains ==
  ASSUME NEW ds, NEW S, NEW c \in Seq(S), NEW i \in S, Chained(ds, c),
         NEW a, Has(c, a), Overlap(ds[a], ds[i])
  PROVE  Chained(ds, Append(c, i))
<1>1. PICK d, l : d = Append(c, i) /\ l = Len(c)
  OBVIOUS
<1>2. l \in Nat /\ Len(d) = l + 1 /\ d[l + 1] = i /\ \A x \in 1 .. l : d[x] = c[x]
  BY <1>1, AppendProperties
<1>3. ASSUME NEW x \in 2 .. Len(d) PROVE \E y \in 1 .. x - 1 : Overlap(ds[d[y]], ds[d[x]])
  <2>1. CASE x = l + 1
    <3>1. PICK y \in 1 .. l : c[y] = a
      BY <1>1 DEF Has
    <3>2. y \in 1 .. x - 1 /\ d[y] = a /\ d[x] = i
      BY <1>2, <2>1, <3>1
    <3> QED BY <3>2
  <2>2. CASE x # l + 1
    <3>1. x \in 2 .. l /\ x \in 1 .. l
      BY <1>2, <2>2
    <3>2. PICK y \in 1 .. x - 1 : Overlap(ds[c[y]], ds[c[x]])
      BY <1>1, <3>1 DEF Chained
    <3>3. d[y] = c[y] /\ d[x] = c[x]
      BY <1>2, <3>1, <3>2
    <3> QED BY <3>2, <3>3
  <2> QED BY <2>1, <2>2
<1> QED BY <1>1, <1>3 DEF Chained

\* A member that comes after the others keeps a cluster in order.
LEMMA AppendAscends ==
  ASSUME NEW ds, NEW S, NEW c \in Seq(S), NEW i \in S, Ascends(ds, c),
         \A a : Has(c, a) => StartsFirst(ds, a, i)
  PROVE  Ascends(ds, Append(c, i))
<1>1. PICK d, l : d = Append(c, i) /\ l = Len(c)
  OBVIOUS
<1>2. l \in Nat /\ Len(d) = l + 1 /\ d[l + 1] = i /\ \A x \in 1 .. l : d[x] = c[x]
  BY <1>1, AppendProperties
<1>3. ASSUME NEW x \in 1 .. Len(d), NEW y \in 1 .. Len(d), x < y PROVE StartsFirst(ds, d[x], d[y])
  <2>1. x \in 1 .. l /\ d[x] = c[x]
    BY <1>2, <1>3
  <2>2. CASE y = l + 1
    <3>1. Has(c, c[x]) /\ d[y] = i
      BY <1>1, <1>2, <2>1, <2>2 DEF Has
    <3> QED BY <2>1, <3>1
  <2>3. CASE y # l + 1
    <3>1. y \in 1 .. l /\ d[y] = c[y]
      BY <1>2, <2>3
    <3> QED BY <1>1, <1>3, <2>1, <3>1 DEF Ascends
  <2> QED BY <2>2, <2>3
<1> QED BY <1>1, <1>3 DEF Ascends

\* The clusters after a round: the last one has grown, or there is a new one.
Grown(cs, i, new) ==
  /\ Len(cs) # 0 /\ Len(new) = Len(cs) /\ new[Len(cs)] = Append(cs[Len(cs)], i)
  /\ \A k \in 1 .. Len(cs) : k # Len(cs) => new[k] = cs[k]
Opened(cs, i, new) ==
  Len(new) = Len(cs) + 1 /\ new[Len(cs) + 1] = <<i>> /\ \A k \in 1 .. Len(cs) : new[k] = cs[k]

LEMMA RoundShapes ==
  ASSUME NEW m \in Nat, NEW ds, NEW acc \in ClusterState(m), NEW i \in 1 .. m, ds[i].end \in Int,
         acc.clusters = <<>> => ~(ds[i].start < acc.end), NEW next, next = Extend(ds, acc, i)
  PROVE  \/ /\ Grown(acc.clusters, i, next.clusters) /\ ds[i].start < acc.end
            /\ next.end = IF ds[i].end > acc.end THEN ds[i].end ELSE acc.end
         \/ Opened(acc.clusters, i, next.clusters) /\ next.end = ds[i].end
<1>1. PICK cs, L, T : cs = acc.clusters /\ L = Len(cs) /\ T = Seq(1 .. m)
  OBVIOUS
<1>2. cs \in Seq(T) /\ L \in Nat /\ RoundCases(ds, acc, i, next)
  <2>1. acc.clusters \in Seq(Seq(1 .. m))
    BY DEF ClusterState
  <2>2. RoundCases(ds, acc, i, next)
    BY ExtendDoes
  <2> QED BY <1>1, <2>1, <2>2
<1>3. CASE /\ ds[i].start < acc.end /\ L # 0 /\ next.clusters = [cs EXCEPT ![L] = Append(cs[L], i)]
           /\ next.end = IF ds[i].end > acc.end THEN ds[i].end ELSE acc.end
  <2>1. PICK c : c = Append(cs[L], i)
    OBVIOUS
  <2>2. next.clusters = [cs EXCEPT ![L] = c] /\ L \in 1 .. L
    BY <1>2, <1>3, <2>1
  <2>3. Len(next.clusters) = L /\ next.clusters[L] = c /\ \A k \in 1 .. L : k # L => next.clusters[k] = cs[k]
    <3>1. PICK new : new = next.clusters
      OBVIOUS
    <3>2. DOMAIN cs = 1 .. L
      BY <1>1, <1>2
    <3>3. cs[L] \in Seq(1 .. m)
      BY <1>1, <1>2, <2>2, <3>2
    <3>4. c \in T
      BY <1>1, <2>1, <3>3, AppendProperties
    <3>5. new \in Seq(T) /\ DOMAIN new = 1 .. L
      BY <1>2, <2>2, <3>1, <3>2, <3>4
    <3>6. Len(new) = L
      BY <1>2, <3>5
    <3>7. new[L] = c /\ \A k \in 1 .. L : k # L => new[k] = cs[k]
      BY <2>2, <3>1, <3>2
    <3> QED BY <3>1, <3>6, <3>7
  <2>4. Grown(cs, i, next.clusters)
    BY <1>1, <1>3, <2>1, <2>3 DEF Grown
  <2> QED BY <1>1, <1>3, <2>4
<1>4. CASE next.clusters = Append(cs, <<i>>) /\ next.end = ds[i].end
  <2>1. PICK s : s = <<i>>
    OBVIOUS
  <2>2. s \in T
    <3>1. PICK S : S = 1 .. m
      OBVIOUS
    <3>2. <<i>> \in Seq(S)
      BY <3>1
    <3> QED BY <1>1, <2>1, <3>1, <3>2
  <2>3. next.clusters = Append(cs, s)
    BY <1>4, <2>1
  <2>4. /\ Len(next.clusters) = L + 1 /\ next.clusters[L + 1] = s
        /\ \A k \in 1 .. L : next.clusters[k] = cs[k]
    BY <1>1, <1>2, <2>2, <2>3, AppendProperties
  <2>5. Opened(cs, i, next.clusters)
    BY <1>1, <2>1, <2>4 DEF Opened
  <2> QED BY <1>1, <1>4, <2>5
<1>5. L = 0 => cs = <<>>
  BY <1>1, <1>2, EmptySeq
<1> QED BY <1>1, <1>2, <1>3, <1>4, <1>5 DEF RoundCases

LEMMA RoundJoins ==
  ASSUME NEW m \in Nat, NEW ds, \A i \in 1 .. m : ds[i].start \in Nat /\ ds[i].end \in Nat /\ ds[i].start < ds[i].end,
         NEW p \in Seq(1 .. m), Len(p) = m,
         \A j, k \in 1 .. m : j < k => ds[p[j]].start <= ds[p[k]].start,
         \A j, k \in 1 .. m : j < k => StartsFirst(ds, p[j], p[k]),
         NEW n \in 1 .. m, NEW acc \in ClusterState(m),
         ClusterInv(ds, p, n - 1, acc.clusters, acc.end), JoinInv(ds, p, n - 1, acc.clusters, acc.end),
         NEW next, next = Extend(ds, acc, p[n])
  PROVE  JoinInv(ds, p, n, next.clusters, next.end)
<1>1. PICK i, cs, L, e, new, f :
        /\ i = p[n] /\ cs = acc.clusters /\ L = Len(cs) /\ e = acc.end
        /\ new = next.clusters /\ f = next.end
  OBVIOUS
<1>2. i \in 1 .. m /\ cs \in Seq(Seq(1 .. m)) /\ L \in Nat /\ e \in Int
  BY <1>1 DEF ClusterState
<1>3. \A x \in 1 .. m : ds[x].start \in Int /\ ds[x].end \in Int /\ ds[x].start < ds[x].end
  OBVIOUS
<1>4. /\ cs = <<>> => ~(ds[i].start < e)
      /\ \A k \in 1 .. L : \A x : Has(cs[k], x) => x \in 1 .. m /\ ds[x].start <= ds[i].start /\ StartsFirst(ds, x, i)
  <2>1. ClusterInv(ds, p, n - 1, cs, e)
    BY <1>1
  <2>2. cs = <<>> => e = 0
    BY <2>1 DEF ClusterInv
  <2>3. ds[i].start \in Nat
    BY <1>2
  <2>4. ASSUME NEW k \in 1 .. L, NEW x, Has(cs[k], x)
        PROVE  x \in 1 .. m /\ ds[x].start <= ds[i].start /\ StartsFirst(ds, x, i)
    <3>1. PICK j \in 1 .. n - 1 : x = p[j]
      BY <1>1, <2>1, <2>4 DEF ClusterInv
    <3>2. j \in 1 .. m /\ j < n
      BY <3>1
    <3> QED BY <1>1, <3>1, <3>2, SMTT(30)
  <2> QED BY <2>2, <2>3, <2>4
<1>5. /\ \A j \in 1 .. n - 1 : \E k \in 1 .. L : Has(cs[k], p[j])
      /\ cs # <<>> => \E a : Has(cs[L], a) /\ ds[a].end = e
      /\ \A k \in 1 .. L : Chained(ds, cs[k]) /\ Ascends(ds, cs[k])
  <2>1. JoinInv(ds, p, n - 1, cs, e)
    BY <1>1
  <2> QED BY <1>1, <2>1 DEF JoinInv
<1>6. \/ /\ Grown(cs, i, new) /\ ds[i].start < e
         /\ f = IF ds[i].end > e THEN ds[i].end ELSE e
      \/ Opened(cs, i, new) /\ f = ds[i].end
  <2>1. ds[i].end \in Int /\ (acc.clusters = <<>> => ~(ds[i].start < acc.end)) /\ next = Extend(ds, acc, i)
    BY <1>1, <1>2, <1>3, <1>4
  <2>2. \/ /\ Grown(acc.clusters, i, next.clusters) /\ ds[i].start < acc.end
           /\ next.end = IF ds[i].end > acc.end THEN ds[i].end ELSE acc.end
        \/ Opened(acc.clusters, i, next.clusters) /\ next.end = ds[i].end
    BY <1>2, <2>1, RoundShapes
  <2> QED BY <1>1, <2>2
<1>7. \A j \in 1 .. n : j \in 1 .. n - 1 \/ p[j] = i
  BY <1>1
<1>8. CASE /\ Grown(cs, i, new) /\ ds[i].start < e
           /\ f = IF ds[i].end > e THEN ds[i].end ELSE e
  <2>1. PICK c, d, S : c = cs[L] /\ d = new[L] /\ S = 1 .. m
    OBVIOUS
  <2>2. /\ L \in 1 .. L /\ Len(new) = L /\ d = Append(c, i) /\ c \in Seq(S) /\ i \in S /\ cs # <<>>
        /\ \A k \in 1 .. L : k # L => new[k] = cs[k]
    <3>1. L # 0 /\ Len(new) = L /\ d = Append(c, i) /\ \A k \in 1 .. L : k # L => new[k] = cs[k]
      BY <1>1, <1>8, <2>1 DEF Grown
    <3>2. L \in 1 .. L
      BY <1>2, <3>1
    <3>3. c \in Seq(S) /\ i \in S /\ cs # <<>>
      BY <1>1, <1>2, <2>1, <3>1, <3>2
    <3> QED BY <3>1, <3>2, <3>3
  <2>3. PICK a : Has(c, a) /\ ds[a].end = e
    BY <1>5, <2>1, <2>2
  <2>4. a \in 1 .. m /\ Overlap(ds[a], ds[i])
    <3>1. a \in 1 .. m /\ ds[a].start <= ds[i].start
      BY <1>4, <2>1, <2>2, <2>3
    <3>2. PICK u, v, w : u = ds[a].start /\ v = ds[i].start /\ w = ds[i].end
      OBVIOUS
    <3>3. u \in Int /\ v \in Int /\ w \in Int /\ u <= v /\ v < w /\ v < e
      BY <1>2, <1>3, <1>8, <3>1, <3>2
    <3>4. u < w
      BY <3>3
    <3> QED BY <2>3, <3>1, <3>2, <3>3, <3>4 DEF Overlap
  <2>5. \A x : Has(d, x) <=> Has(c, x) \/ x = i
    BY <2>2, AppendHas
  <2>6. Chained(ds, d)
    <3>1. Chained(ds, c)
      BY <1>5, <2>1, <2>2
    <3> QED BY <2>2, <2>3, <2>4, <3>1, AppendChains
  <2>a. Ascends(ds, d)
    <3>1. Ascends(ds, c) /\ \A x : Has(c, x) => StartsFirst(ds, x, i)
      BY <1>4, <1>5, <2>1, <2>2
    <3> QED BY <2>2, <3>1, AppendAscends
  <2>7. \A k \in 1 .. L : Chained(ds, new[k]) /\ Ascends(ds, new[k])
    BY <1>5, <2>1, <2>2, <2>6, <2>a
  <2>8. \A k \in 1 .. L : \A x : Has(cs[k], x) => Has(new[k], x)
    BY <2>1, <2>2, <2>5
  <2>9. \A j \in 1 .. n : \E k \in 1 .. L : Has(new[k], p[j])
    <3> SUFFICES ASSUME NEW j \in 1 .. n PROVE \E k \in 1 .. L : Has(new[k], p[j])
      OBVIOUS
    <3>1. CASE j \in 1 .. n - 1
      BY <1>5, <2>8, <3>1
    <3>2. CASE p[j] = i
      BY <2>1, <2>2, <2>5, <3>2
    <3> QED BY <1>7, <3>1, <3>2
  <2>10. \E x : Has(d, x) /\ ds[x].end = f
    <3>1. CASE ds[i].end > e
      BY <1>8, <2>5, <3>1
    <3>2. CASE ~(ds[i].end > e)
      BY <1>8, <2>3, <2>5, <3>2
    <3> QED BY <3>1, <3>2
  <2> QED BY <1>1, <2>1, <2>2, <2>7, <2>9, <2>10 DEF JoinInv
<1>9. CASE Opened(cs, i, new) /\ f = ds[i].end
  <2>1. PICK s : s = <<i>>
    OBVIOUS
  <2>2. Len(new) = L + 1 /\ new[L + 1] = s /\ \A k \in 1 .. L : new[k] = cs[k]
    BY <1>1, <1>9, <2>1 DEF Opened
  <2>3. (\A x : Has(s, x) <=> x = i) /\ Chained(ds, s) /\ Ascends(ds, s)
    BY <2>1 DEF Has, Chained, Ascends
  <2>4. \A k \in 1 .. L + 1 : k \in 1 .. L \/ k = L + 1
    BY <1>2
  <2>5. \A k \in 1 .. L + 1 : Chained(ds, new[k]) /\ Ascends(ds, new[k])
    BY <1>5, <2>2, <2>3, <2>4
  <2>6. L + 1 \in 1 .. L + 1 /\ \A k \in 1 .. L : k \in 1 .. L + 1
    BY <1>2
  <2>7. \A j \in 1 .. n : \E k \in 1 .. L + 1 : Has(new[k], p[j])
    BY <1>5, <1>7, <2>2, <2>3, <2>6
  <2> QED BY <1>1, <1>9, <2>2, <2>3, <2>5, <2>7 DEF JoinInv
<1> QED BY <1>6, <1>8, <1>9

\* A part of a chained cluster overlaps with the rest of it.
LEMMA ChainedConnects ==
  ASSUME NEW ds, NEW S, NEW c \in Seq(S), Chained(ds, c),
         NEW part \in SUBSET ToSet(c), part \notin {{}, ToSet(c)}
  PROVE  \E i \in part, j \in ToSet(c) \ part : Overlap(ds[i], ds[j])
<1>1. PICK l : l = Len(c) /\ l \in Nat /\ \A i : i \in ToSet(c) <=> \E x \in 1 .. l : c[x] = i
  BY DEF ToSet
<1> DEFINE A == {x \in 1 .. l : ~(c[x] \in part <=> c[1] \in part)}
<1>2. A \in SUBSET Nat /\ A # {}
  <2>1. PICK i, j : i \in part /\ j \in ToSet(c) /\ j \notin part /\ i \in ToSet(c)
    OBVIOUS
  <2>2. PICK x \in 1 .. l, y \in 1 .. l : c[x] = i /\ c[y] = j
    BY <1>1, <2>1
  <2>3. x \in A \/ y \in A
    BY <2>1, <2>2
  <2> QED BY <1>1, <2>3
<1>3. PICK x \in A : \A y \in A : x <= y
  <2> HIDE DEF A
  <2> QED BY <1>2, NatLeast
<1>4. x \in 2 .. l
  BY <1>1, <1>3
<1>5. PICK y \in 1 .. x - 1 : Overlap(ds[c[y]], ds[c[x]])
  BY <1>1, <1>4 DEF Chained
<1>6. y \in 1 .. l /\ y \notin A
  BY <1>1, <1>3, <1>4, <1>5
<1>7. c[x] \in part <=> ~(c[y] \in part)
  BY <1>3, <1>6
<1>8. c[x] \in ToSet(c) /\ c[y] \in ToSet(c) /\ Overlap(ds[c[x]], ds[c[y]])
  BY <1>1, <1>4, <1>5, <1>6 DEF Overlap
<1> QED BY <1>5, <1>7, <1>8

LEMMA ClustersApart ==
  ASSUME NEW Y, NEW ds \in Seq(Y), \A d \in Y : Spanned(d), NEW cs, cs = Clusters(ds)
  PROVE  /\ cs \in Seq(Seq(1 .. Len(ds))) /\ (\A k \in 1 .. Len(cs) : \E i : Has(cs[k], i))
         /\ Apart(ds, cs)
         /\ \A i \in 1 .. Len(ds) : \E k \in 1 .. Len(cs) : Has(cs[k], i)
         /\ \A k \in 1 .. Len(cs) : Chained(ds, cs[k]) /\ Ascends(ds, cs[k])
<1>1. PICK p, m : p = SortedPositions(ds) /\ m = Len(ds)
  OBVIOUS
<1>2. PICK state : ClusterRun(state, ds, p) /\ cs = state[m].clusters
  BY <1>1, ClustersRun
<1>3. /\ m \in Nat /\ p \in Seq(1 .. m) /\ Len(p) = m
      /\ \A i \in 1 .. m : \E k \in 1 .. m : p[k] = i
      /\ \A j, k \in 1 .. m : j < k => ds[p[j]].start <= ds[p[k]].start
      /\ \A j, k \in 1 .. m : j < k => StartsFirst(ds, p[j], p[k])
  <2>1. m \in Nat
    BY <1>1
  <2>2. p \in Seq(1 .. Len(ds)) /\ Len(p) = Len(ds)
    BY <1>1, PositionsSorted
  <2>3. \A j, k \in 1 .. Len(ds) : j < k => ds[p[j]].start <= ds[p[k]].start
    BY <1>1, PositionsSorted
  <2>5. \A j, k \in 1 .. Len(ds) : j < k => StartsFirst(ds, p[j], p[k])
    BY <1>1, PositionsSorted
  <2>4. \A i \in 1 .. Len(ds) : \E k \in 1 .. Len(ds) : p[k] = i
    <3>1. Reaches(p, Len(ds))
      BY <1>1, PositionsSorted
    <3> QED BY <3>1 DEF Reaches
  <2> QED BY <1>1, <2>1, <2>2, <2>3, <2>4, <2>5
<1>4. \A i \in 1 .. m : ds[i].start \in Nat /\ ds[i].end \in Nat /\ ds[i].start < ds[i].end
  BY <1>1 DEF Spanned
<1>5. /\ state[0] = [clusters |-> <<>>, end |-> 0]
      /\ \A n \in 1 .. m : state[n] = Extend(ds, state[n - 1], p[n])
      /\ \A n \in 0 .. m : state[n] \in ClusterState(m)
  BY <1>1, <1>2 DEF ClusterRun
<1> DEFINE Good(n) == /\ ClusterInv(ds, p, n, state[n].clusters, state[n].end)
                      /\ JoinInv(ds, p, n, state[n].clusters, state[n].end)
           g == [n \in 0 .. m |-> IF Good(n) THEN 1 ELSE 0]
<1>6. Good(0)
  <2>1. state[0].clusters = <<>> /\ state[0].end = 0
    BY <1>5
  <2> QED BY <2>1 DEF ClusterInv, Apart, JoinInv
<1>7. ASSUME NEW n \in 1 .. m, Good(n - 1) PROVE Good(n)
  <2>1. n - 1 \in 0 .. m
    BY <1>3
  <2>2. PICK acc, next : acc = state[n - 1] /\ next = state[n]
    OBVIOUS
  <2>3. acc \in ClusterState(m) /\ next = Extend(ds, acc, p[n])
    BY <1>5, <2>1, <2>2
  <2>4. ClusterInv(ds, p, n - 1, acc.clusters, acc.end) /\ JoinInv(ds, p, n - 1, acc.clusters, acc.end)
    BY <1>7, <2>2
  <2>5. ClusterInv(ds, p, n, next.clusters, next.end)
    <3> HIDE DEF Good
    <3> QED BY <1>3, <1>4, <2>3, <2>4, RoundKeeps
  <2>6. JoinInv(ds, p, n, next.clusters, next.end)
    <3> HIDE DEF Good
    <3> QED BY <1>3, <1>4, <2>3, <2>4, RoundJoins
  <2> QED BY <2>2, <2>5, <2>6
<1>8. Good(m)
  <2> HIDE DEF Good
  <2>1. g[0] \in {1}
    BY <1>3, <1>6
  <2>2. ASSUME NEW n \in 1 .. m, g[n - 1] \in {1} PROVE g[n] \in {1}
    <3>1. n - 1 \in 0 .. m /\ n \in 0 .. m
      BY <1>3
    <3>2. Good(n - 1)
      BY <2>2, <3>1
    <3> QED BY <1>7, <3>1, <3>2
  <2>3. \A n \in 0 .. m : g[n] \in {1}
    <3> HIDE DEF g
    <3>1. PICK X : X = {1}
      OBVIOUS
    <3>2. g[0] \in X /\ \A n \in 1 .. m : g[n - 1] \in X => g[n] \in X
      BY <2>1, <2>2, <3>1
    <3>3. \A n \in 0 .. m : g[n] \in X
      BY <1>3, <3>2, RunStays
    <3> QED BY <3>1, <3>3
  <2> QED BY <1>3, <2>3
<1>9. ClusterInv(ds, p, m, cs, state[m].end) /\ JoinInv(ds, p, m, cs, state[m].end)
  BY <1>2, <1>8
<1>10. cs \in Seq(Seq(1 .. m))
  <2>1. state[m] \in ClusterState(m)
    BY <1>3, <1>5
  <2> QED BY <1>2, <2>1 DEF ClusterState
<1>11. ASSUME NEW i \in 1 .. m PROVE \E k \in 1 .. Len(cs) : Has(cs[k], i)
  <2>1. PICK j \in 1 .. m : p[j] = i
    BY <1>3
  <2>2. \E k \in 1 .. Len(cs) : Has(cs[k], p[j])
    BY <1>9 DEF JoinInv
  <2> QED BY <2>1, <2>2
<1> QED BY <1>1, <1>9, <1>10, <1>11 DEF ClusterInv, JoinInv

\* Of finitely many there is one that none outranks.
Beats(a, b, c, y, x) ==
  \/ a[y] > a[x]
  \/ a[y] = a[x] /\ b[y] < b[x]
  \/ a[y] = a[x] /\ b[y] = b[x] /\ c[y] < c[x]

LEMMA SomeUnbeaten ==
  ASSUME NEW m \in Nat, m # 0, NEW a \in [1 .. m -> Int], NEW b \in [1 .. m -> Int], NEW c \in [1 .. m -> Int]
  PROVE  \E x \in 1 .. m : \A y \in 1 .. m : ~Beats(a, b, c, y, x)
<1>1. PICK S : S = 1 .. m
  OBVIOUS
<1> DEFINE Under(y, x) == \/ a[y] < a[x]
                          \/ a[y] = a[x] /\ b[y] > b[x]
                          \/ a[y] = a[x] /\ b[y] = b[x] /\ c[y] > c[x]
                          \/ a[y] = a[x] /\ b[y] = b[x] /\ c[y] = c[x] /\ y < x
           R == {q \in S \X S : Under(q[1], q[2])}
<1>2. IsFiniteSet(S) /\ S # {}
  <2>1. IsFiniteSet(1 .. m)
    BY FS_Interval
  <2>2. 1 \in 1 .. m
    OBVIOUS
  <2> QED BY <1>1, <2>1, <2>2
<1>3. \A x \in S : x \in Int /\ a[x] \in Int /\ b[x] \in Int /\ c[x] \in Int
  BY <1>1
<1>4. ASSUME NEW x \in S, NEW y \in S PROVE x = y \/ Under(x, y) \/ Under(y, x)
  <2>1. PICK ax, ay, bx, by, cx, cy : /\ ax = a[x] /\ ay = a[y] /\ bx = b[x] /\ by = b[y]
                                      /\ cx = c[x] /\ cy = c[y]
    OBVIOUS
  <2>2. /\ x \in Int /\ y \in Int /\ ax \in Int /\ ay \in Int /\ bx \in Int /\ by \in Int
        /\ cx \in Int /\ cy \in Int
    BY <1>3, <2>1
  <2>3. ax < ay \/ ay < ax \/ ax = ay
    BY <2>2
  <2>4. bx < by \/ by < bx \/ bx = by
    BY <2>2
  <2>5. cx < cy \/ cy < cx \/ cx = cy
    BY <2>2
  <2>6. x < y \/ y < x \/ x = y
    BY <2>2
  <2>7. \A u, v \in Int : u < v <=> v > u
    OBVIOUS
  <2> QED BY <2>1, <2>2, <2>3, <2>4, <2>5, <2>6, <2>7
<1>5. ASSUME NEW x \in S, NEW y \in S, NEW z \in S, Under(x, y), Under(y, z) PROVE Under(x, z)
  <2>1. PICK x1, x2, x3, y1, y2, y3, z1, z2, z3 :
          /\ x1 = a[x] /\ x2 = b[x] /\ x3 = c[x] /\ y1 = a[y] /\ y2 = b[y] /\ y3 = c[y]
          /\ z1 = a[z] /\ z2 = b[z] /\ z3 = c[z]
    OBVIOUS
  <2>2. /\ x \in Int /\ x1 \in Int /\ x2 \in Int /\ x3 \in Int /\ y \in Int /\ y1 \in Int /\ y2 \in Int
        /\ y3 \in Int /\ z \in Int /\ z1 \in Int /\ z2 \in Int /\ z3 \in Int
    BY <1>3, <2>1
  <2>3. x1 < y1 \/ (x1 = y1 /\ x2 > y2) \/ (x1 = y1 /\ x2 = y2 /\ x3 > y3)
          \/ (x1 = y1 /\ x2 = y2 /\ x3 = y3 /\ x < y)
    BY <1>5, <2>1
  <2>4. y1 < z1 \/ (y1 = z1 /\ y2 > z2) \/ (y1 = z1 /\ y2 = z2 /\ y3 > z3)
          \/ (y1 = z1 /\ y2 = z2 /\ y3 = z3 /\ y < z)
    BY <1>5, <2>1
  <2>5. x1 < z1 \/ (x1 = z1 /\ x2 > z2) \/ (x1 = z1 /\ x2 = z2 /\ x3 > z3)
          \/ (x1 = z1 /\ x2 = z2 /\ x3 = z3 /\ x < z)
    BY <2>2, <2>3, <2>4
  <2> QED BY <2>1, <2>5
<1>6. ASSUME NEW x \in S, NEW y \in S, Beats(a, b, c, y, x) PROVE x # y /\ ~Under(y, x)
  <2>1. PICK x1, x2, x3, y1, y2, y3 :
          x1 = a[x] /\ x2 = b[x] /\ x3 = c[x] /\ y1 = a[y] /\ y2 = b[y] /\ y3 = c[y]
    OBVIOUS
  <2>2. x1 \in Int /\ x2 \in Int /\ x3 \in Int /\ y1 \in Int /\ y2 \in Int /\ y3 \in Int
    BY <1>3, <2>1
  <2>3. y1 > x1 \/ (y1 = x1 /\ y2 < x2) \/ (y1 = x1 /\ y2 = x2 /\ y3 < x3)
    BY <1>6, <2>1 DEF Beats
  <2>4. ~(x1 = y1 /\ x2 = y2 /\ x3 = y3)
    BY <2>2, <2>3
  <2>5. ~(\/ y1 < x1 \/ (y1 = x1 /\ y2 > x2) \/ (y1 = x1 /\ y2 = x2 /\ y3 > x3)
          \/ (y1 = x1 /\ y2 = x2 /\ y3 = x3 /\ y < x))
    BY <2>2, <2>3
  <2>6. x # y
    BY <2>1, <2>4
  <2>7. ~Under(y, x)
    BY <2>1, <2>5
  <2> QED BY <2>6, <2>7
<1>7. \A x, y \in S : <<x, y>> \in R <=> Under(x, y)
  OBVIOUS
<1> HIDE DEF Under, R
<1>8. \A x, y \in S : x = y \/ <<x, y>> \in R \/ <<y, x>> \in R
  BY <1>4, <1>7
<1>9. \A x, y, z \in S : <<x, y>> \in R /\ <<y, z>> \in R => <<x, z>> \in R
  BY <1>5, <1>7
<1>10. TotalOrder(S, R) /\ IsFiniteSet(S) /\ S # {}
  BY <1>2, <1>8, <1>9 DEF TotalOrder
<1>11. PICK x : Greatest(S, R, x)
  BY <1>10, FiniteGreatest
<1>12. \A y \in S : ~Beats(a, b, c, y, x)
  BY <1>6, <1>7, <1>11 DEF Greatest
<1> QED BY <1>1, <1>11, <1>12 DEF Greatest

\* The winner is the first of its cluster that none outranks.
NoneAbove(ds, c, x) == ~ \E k \in DOMAIN c : Outranks(ds[c[k]], ds[c[x]])

LEMMA WinnerFirst ==
  ASSUME NEW n \in Nat, NEW ds, \A i \in 1 .. n : ds[i].start \in Int /\ ds[i].end \in Int /\ ds[i].tier \in Int,
         NEW cluster \in Seq(1 .. n), NEW i0, Has(cluster, i0)
  PROVE  \E x \in 1 .. Len(cluster) : /\ Winner(ds, cluster) = cluster[x] /\ NoneAbove(ds, cluster, x)
                                       /\ \A y \in 1 .. Len(cluster) : NoneAbove(ds, cluster, y) => x <= y
<1>1. PICK m : m = Len(cluster) /\ m \in Nat /\ m # 0
  BY DEF Has
<1> DEFINE a == [x \in 1 .. m |-> SpanLength(ds[cluster[x]])]
           b == [x \in 1 .. m |-> ds[cluster[x]].tier]
           c == [x \in 1 .. m |-> Precedence(ds[cluster[x]].detector)]
           I == {x \in 1 .. Len(cluster) : ~ \E k \in DOMAIN cluster : Outranks(ds[cluster[k]], ds[cluster[x]])}
<1>2. \A x \in 1 .. m : cluster[x] \in 1 .. n
  BY <1>1
<1>3. a \in [1 .. m -> Int] /\ b \in [1 .. m -> Int] /\ c \in [1 .. m -> Int]
  <2>1. \A d : Precedence(d) \in Int
    BY DEF Precedence, DETECTOR_PRECEDENCE
  <2> QED BY <1>2, <2>1, SMTT(30) DEF SpanLength
<1>4. \A x, y \in 1 .. m : Outranks(ds[cluster[y]], ds[cluster[x]]) <=> Beats(a, b, c, y, x)
  BY DEF Outranks, Beats
<1>5. PICK x \in 1 .. m : \A y \in 1 .. m : ~Beats(a, b, c, y, x)
  <2> HIDE DEF a, b, c
  <2> QED BY <1>1, <1>3, SomeUnbeaten
<1>6. x \in I
  <2> HIDE DEF a, b, c
  <2> QED BY <1>1, <1>4, <1>5
<1>7. SelectInSeq(cluster, LAMBDA i : ~ \E k \in DOMAIN cluster : Outranks(ds[cluster[k]], ds[i])) = Min(I)
  BY <1>6 DEF SelectInSeq
<1>8. I \in SUBSET Nat /\ I # {} /\ I \subseteq 1 .. m
  <2>1. I \subseteq 1 .. m
    BY <1>1
  <2> HIDE DEF I
  <2> QED BY <1>6, <2>1
<1>9. Winner(ds, cluster) = cluster[Min(I)]
  BY <1>7 DEF Winner
<1>11. \A y : y \in I <=> y \in 1 .. Len(cluster) /\ NoneAbove(ds, cluster, y)
  BY DEF NoneAbove
<1> HIDE DEF I
<1>10. Min(I) \in I /\ \A y \in I : Min(I) <= y
  <2>1. \E k \in I : \A l \in I : k <= l
    BY <1>8, NatLeast
  <2> QED BY <2>1 DEF Min
<1> QED BY <1>9, <1>10, <1>11

LEMMA WinnerInCluster ==
  ASSUME NEW n \in Nat, NEW ds, \A i \in 1 .. n : ds[i].start \in Int /\ ds[i].end \in Int /\ ds[i].tier \in Int,
         NEW cluster \in Seq(1 .. n), NEW i0, Has(cluster, i0)
  PROVE  Has(cluster, Winner(ds, cluster))
BY WinnerFirst DEF Has

\* The winner keeps the span it was reported with, one of its cluster.
LEMMA WinnerKeepsSpan ==
  ASSUME NEW n \in Nat, NEW ds, \A i \in 1 .. n : Spanned(ds[i]),
         NEW cluster \in Seq(1 .. n), NEW i0, Has(cluster, i0)
  PROVE  \E i \in 1 .. n : /\ Has(cluster, i)
                           /\ _pick_cluster_winner(ds, cluster).start = ds[i].start
                           /\ _pick_cluster_winner(ds, cluster).end = ds[i].end
<1>1. PICK w : w = Winner(ds, cluster)
  OBVIOUS
<1>2. Has(cluster, w)
  <2>1. \A i \in 1 .. n : ds[i].start \in Int /\ ds[i].end \in Int /\ ds[i].tier \in Int
    BY DEF Spanned
  <2> QED BY <1>1, <2>1, WinnerInCluster
<1>3. w \in 1 .. n
  BY <1>2 DEF Has
<1>4. PICK d, e : d = ds[w] /\ e = _pick_cluster_winner(ds, cluster)
  OBVIOUS
<1>5. {"start", "end"} \subseteq DOMAIN d
  BY <1>3, <1>4 DEF Spanned
<1>6. e = d \/ e = [d EXCEPT !.confidence = Boost(d.confidence)]
  BY <1>1, <1>4 DEF _pick_cluster_winner
<1>7. e.start = d.start /\ e.end = d.end
  BY <1>5, <1>6
<1> QED BY <1>2, <1>3, <1>4, <1>7

LEMMA ResolvedApart ==
  ASSUME NEW Y, NEW ds \in Seq(Y), \A d \in Y : Spanned(d), NEW r, r = _resolve_overlaps(ds),
         NEW j \in DOMAIN r, NEW k \in DOMAIN r, j < k
  PROVE  r[j].end <= r[k].start
<1>1. PICK cs, n : cs = Clusters(ds) /\ n = Len(ds)
  OBVIOUS
<1>2. cs \in Seq(Seq(1 .. n)) /\ (\A l \in 1 .. Len(cs) : \E i : Has(cs[l], i)) /\ Apart(ds, cs)
  BY <1>1, ClustersApart
<1>3. n \in Nat /\ \A i \in 1 .. n : Spanned(ds[i])
  BY <1>1
<1>4. r = [l \in DOMAIN cs |-> _pick_cluster_winner(ds, cs[l])]
  BY <1>1 DEF _resolve_overlaps
<1>5. /\ j \in 1 .. Len(cs) /\ k \in 1 .. Len(cs) /\ cs[j] \in Seq(1 .. n) /\ cs[k] \in Seq(1 .. n)
      /\ r[j] = _pick_cluster_winner(ds, cs[j]) /\ r[k] = _pick_cluster_winner(ds, cs[k])
  BY <1>2, <1>4
<1>6. PICK a \in 1 .. n : Has(cs[j], a) /\ r[j].end = ds[a].end
  <2>1. PICK cluster, i0 : cluster = cs[j] /\ cluster \in Seq(1 .. n) /\ Has(cluster, i0)
    BY <1>2, <1>5
  <2>2. PICK i \in 1 .. n : Has(cluster, i) /\ _pick_cluster_winner(ds, cluster).end = ds[i].end
    BY <1>3, <2>1, WinnerKeepsSpan
  <2> QED BY <1>5, <2>1, <2>2
<1>7. PICK b \in 1 .. n : Has(cs[k], b) /\ r[k].start = ds[b].start
  <2>1. PICK cluster, i0 : cluster = cs[k] /\ cluster \in Seq(1 .. n) /\ Has(cluster, i0)
    BY <1>2, <1>5
  <2>2. PICK i \in 1 .. n : Has(cluster, i) /\ _pick_cluster_winner(ds, cluster).start = ds[i].start
    BY <1>3, <2>1, WinnerKeepsSpan
  <2> QED BY <1>5, <2>1, <2>2
<1>8. ds[a].end <= ds[b].start
  BY <1>2, <1>5, <1>6, <1>7 DEF Apart
<1> QED BY <1>6, <1>7, <1>8

LEMMA SoundSpanned == ASSUME NEW text, NEW d, Sound(text, d) PROVE Spanned(d)
<1>1. {"start", "end"} \subseteq DOMAIN d /\ d.start \in Int /\ d.end \in Int /\ d.tier \in Int
  BY DEF Sound, Made
<1>2. d.start >= 0 /\ d.end > d.start
  BY DEF Sound, _span_matches
<1> QED BY <1>1, <1>2 DEF Spanned

\* What is resolved are spans.
LEMMA SurvivorsSpanned ==
  ASSUME StageInv
  PROVE  \E Y : Survivors \in Seq(Y) /\ \A d \in Y : Spanned(d)
<1>1. PICK Y : detections \in Seq(Y) /\ \A d \in Y : Sound(Text, d)
  BY DEF StageInv, Quoting
<1>2. PICK I : I = {n \in DOMAIN detections : /\ _span_matches(Text, detections[n])
                                              /\ ~Excepted(input.exceptions, detections[n])
                                              /\ Confident(detections[n])}
  OBVIOUS
<1>3. Survivors = At(detections, I) /\ I \in SUBSET (1 .. Len(detections))
  BY <1>1, <1>2 DEF Survivors, Filter
<1>4. Survivors \in Seq(Y)
  <2>1. PICK t : t = Survivors
    OBVIOUS
  <2>2. t \in Seq(Y)
    BY <1>1, <1>3, <2>1, AtEnumerates
  <2> QED BY <2>1, <2>2
<1>5. \A d \in Y : Spanned(d)
  BY <1>1, SoundSpanned
<1> QED BY <1>4, <1>5

\* The accepted spans are in the order of the text and do not overlap, whatever
\* the engines answered.
THEOREM DisjointAlways == Spec => []AcceptedDisjoint
<1>1. StageInv => AcceptedDisjoint
  <2> SUFFICES ASSUME StageInv, Merged,
                      NEW i \in DOMAIN result.accepted, NEW j \in DOMAIN result.accepted, i < j
               PROVE  result.accepted[i].end <= result.accepted[j].start
    BY DEF AcceptedDisjoint
  <2>1. PICK Y : Survivors \in Seq(Y) /\ \A d \in Y : Spanned(d)
    BY SurvivorsSpanned
  <2>2. PICK ds, r : ds = Survivors /\ r = result.accepted
    OBVIOUS
  <2>3. r = _resolve_overlaps(ds)
    BY <2>2, AcceptedAre
  <2> QED BY <2>1, <2>2, <2>3, ResolvedApart
<1> QED BY <1>1, StageInvariance, PTL

\* The clusters of the one-pass loop are the connected components of overlap, for
\* any number of detections.
THEOREM Components == Spec => []ClustersAreComponents
<1>1. StageInv => ClustersAreComponents
  <2> SUFFICES ASSUME StageInv PROVE ClustersAreComponents
    OBVIOUS
  <2>1. PICK ds, cs, m : ds = Survivors /\ cs = Clusters(ds) /\ m = Len(ds)
    OBVIOUS
  <2>2. PICK Y : ds \in Seq(Y) /\ \A d \in Y : Spanned(d)
    BY <2>1, SurvivorsSpanned
  <2>3. /\ cs \in Seq(Seq(1 .. m)) /\ (\A k \in 1 .. Len(cs) : \E i : Has(cs[k], i))
        /\ Apart(ds, cs)
        /\ \A i \in 1 .. m : \E k \in 1 .. Len(cs) : Has(cs[k], i)
        /\ \A k \in 1 .. Len(cs) : Chained(ds, cs[k])
    BY <2>1, <2>2, ClustersApart
  <2>4. DOMAIN ds = 1 .. m /\ DOMAIN cs = 1 .. Len(cs) /\ \A i \in 1 .. m : Spanned(ds[i])
    BY <2>1, <2>2, <2>3
  <2>5. ASSUME NEW k \in 1 .. Len(cs)
        PROVE  cs[k] \in Seq(1 .. m) /\ \A i : (i \in ToSet(cs[k]) <=> Has(cs[k], i)) /\ (Has(cs[k], i) => i \in 1 .. m)
    <3>1. PICK c, S : c = cs[k] /\ S = 1 .. m
      OBVIOUS
    <3>2. c \in Seq(S)
      BY <2>3, <3>1
    <3>3. \A i : (i \in ToSet(c) <=> Has(c, i)) /\ (Has(c, i) => i \in S)
      BY <3>2 DEF ToSet, Has
    <3> QED BY <3>1, <3>2, <3>3
  <2>6. UNION {ToSet(c) : c \in ToSet(cs)} = DOMAIN ds
    <3>1. \A c : c \in ToSet(cs) <=> \E k \in 1 .. Len(cs) : c = cs[k]
      BY <2>4 DEF ToSet
    <3>2. \A k \in 1 .. Len(cs) : ToSet(cs[k]) \subseteq 1 .. m
      BY <2>5
    <3>3. ASSUME NEW i \in 1 .. m PROVE \E c \in ToSet(cs) : i \in ToSet(c)
      BY <2>3, <2>5, <3>1
    <3>4. ASSUME NEW c \in ToSet(cs) PROVE ToSet(c) \subseteq 1 .. m
      BY <3>1, <3>2
    <3> QED BY <2>4, <3>3, <3>4
  <2>7. ASSUME NEW k \in DOMAIN cs, NEW l \in DOMAIN cs, k # l,
               NEW i \in ToSet(cs[k]), NEW j \in ToSet(cs[l])
        PROVE  i # j /\ ~Overlap(ds[i], ds[j])
    <3>0. k \in 1 .. Len(cs) /\ l \in 1 .. Len(cs) /\ (k < l \/ l < k)
      BY <2>3, <2>4, <2>7
    <3>1. Has(cs[k], i) /\ Has(cs[l], j) /\ i \in 1 .. m /\ j \in 1 .. m
      BY <2>5, <2>7, <3>0
    <3>2. ds[i].end <= ds[j].start \/ ds[j].end <= ds[i].start
      BY <2>3, <3>0, <3>1 DEF Apart
    <3>3. PICK a, b, c, d : a = ds[i].start /\ b = ds[i].end /\ c = ds[j].start /\ d = ds[j].end
      OBVIOUS
    <3>4. a \in Int /\ b \in Int /\ c \in Int /\ d \in Int /\ a < b /\ c < d
      BY <2>4, <3>1, <3>3 DEF Spanned
    <3>5. ~(a < d /\ c < b)
      BY <3>2, <3>3, <3>4
    <3>6. i = j => a = c /\ b = d
      BY <3>3
    <3>7. i # j
      BY <3>4, <3>5, <3>6
    <3> QED BY <3>3, <3>5, <3>7 DEF Overlap
  <2>8. ASSUME NEW k \in DOMAIN cs
        PROVE  /\ cs[k] # <<>>
               /\ \A part \in SUBSET ToSet(cs[k]) :
                    part \notin {{}, ToSet(cs[k])} =>
                      \E i \in part, j \in ToSet(cs[k]) \ part : Overlap(ds[i], ds[j])
    <3>1. PICK c : c = cs[k] /\ c \in Seq(1 .. m) /\ Chained(ds, c) /\ \E i : Has(c, i)
      BY <2>3, <2>4, <2>5
    <3>2. c # <<>>
      BY <3>1 DEF Has
    <3>3. ASSUME NEW part \in SUBSET ToSet(c), part \notin {{}, ToSet(c)}
          PROVE  \E i \in part, j \in ToSet(c) \ part : Overlap(ds[i], ds[j])
      BY <3>1, <3>3, ChainedConnects
    <3> QED BY <3>1, <3>2, <3>3
  <2>9. Clusters(Survivors) = cs
    BY <2>1
  <2> HIDE DEF Survivors
  <2> QED BY <2>1, <2>6, <2>7, <2>8, <2>9 DEF ClustersAreComponents
<1> QED BY <1>1, StageInvariance, PTL

-----------------------------------------------------------------------------
(* The clusters as sets of detections, in the order of the text. *)

Block(ds, c) == {ds[c[x]] : x \in 1 .. Len(c)}
Connected(B) == \A part \in SUBSET B : part \notin {{}, B} => \E a \in part, b \in B \ part : Overlap(a, b)

Blocks(V, n, D) ==
  /\ n \in Nat
  /\ \A k \in 1 .. n : V[k] # {} /\ V[k] \subseteq D /\ Connected(V[k])
  /\ \A d \in D : \E k \in 1 .. n : d \in V[k]
  /\ \A j, k \in 1 .. n : j < k => \A a \in V[j], b \in V[k] : a.end <= b.start

\* What overlaps is in the same block.
LEMMA BlocksJoin ==
  ASSUME NEW V, NEW n \in Nat, NEW D, Blocks(V, n, D), \A d \in D : Spanned(d),
         NEW j \in 1 .. n, NEW k \in 1 .. n, NEW a \in V[j], NEW b \in V[k], Overlap(a, b)
  PROVE  j = k
<1>1. n \in Nat /\ a \in D /\ b \in D
  BY DEF Blocks
<1>2. PICK a1, a2, b1, b2 : a1 = a.start /\ a2 = a.end /\ b1 = b.start /\ b2 = b.end
  OBVIOUS
<1>3. a1 \in Int /\ a2 \in Int /\ b1 \in Int /\ b2 \in Int /\ a1 < b2 /\ b1 < a2
  BY <1>1, <1>2 DEF Spanned, Overlap
<1>4. ~(a2 <= b1) /\ ~(b2 <= a1)
  BY <1>3
<1>5. ~(j < k) /\ ~(k < j)
  BY <1>2, <1>4 DEF Blocks
<1> QED BY <1>1, <1>5

\* With more detections, a block can only grow.
AllSpanned(D) == \A d \in D : Spanned(d)
Inside(A, W, m) == \E l \in 1 .. m : A \subseteq W[l]
IsOne(A, W, m) == \E l \in 1 .. m : A = W[l]

LEMMA BlockInside ==
  ASSUME NEW V, NEW n \in Nat, NEW D, Blocks(V, n, D), NEW W, NEW m \in Nat, NEW E, Blocks(W, m, E),
         D \subseteq E, AllSpanned(E), NEW k \in 1 .. n
  PROVE  Inside(V[k], W, m)
<1>1. V[k] # {} /\ V[k] \subseteq E /\ Connected(V[k])
  BY DEF Blocks
<1>2. PICK v \in V[k] : v \in E
  BY <1>1
<1>3. PICK l \in 1 .. m : v \in W[l]
  BY <1>2 DEF Blocks
<1>4. ASSUME ~(V[k] \subseteq W[l]) PROVE FALSE
  <2>1. PICK part : part = V[k] \cap W[l]
    OBVIOUS
  <2>2. part \in SUBSET V[k] /\ part \notin {{}, V[k]}
    BY <1>2, <1>3, <1>4, <2>1
  <2>3. PICK a \in part, b \in V[k] \ part : Overlap(a, b)
    BY <1>1, <2>2 DEF Connected
  <2>4. a \in W[l] /\ b \in E /\ b \notin W[l]
    BY <1>1, <2>1, <2>3
  <2>5. PICK i \in 1 .. m : b \in W[i]
    BY <2>4 DEF Blocks
  <2>6. l = i
    BY <2>3, <2>4, <2>5, BlocksJoin DEF AllSpanned
  <2> QED BY <2>4, <2>5, <2>6
<1> QED BY <1>3, <1>4 DEF Inside

\* What a span overlaps it overlaps in any case itself.
LEMMA SelfOverlap == ASSUME NEW d, Spanned(d) PROVE Overlap(d, d)
BY DEF Spanned, Overlap

\* The same detections give the same blocks.
LEMMA BlockSame ==
  ASSUME NEW V, NEW n \in Nat, NEW D, Blocks(V, n, D), NEW W, NEW m \in Nat, Blocks(W, m, D),
         AllSpanned(D), NEW k \in 1 .. n
  PROVE  IsOne(V[k], W, m)
<1>0. D \subseteq D
  OBVIOUS
<1>1. PICK l \in 1 .. m : V[k] \subseteq W[l]
  <2>1. Inside(V[k], W, m)
    BY <1>0, BlockInside
  <2> QED BY <2>1 DEF Inside
<1>2. PICK i \in 1 .. n : W[l] \subseteq V[i]
  <2>1. Inside(W[l], V, n)
    BY <1>0, BlockInside
  <2> QED BY <2>1 DEF Inside
<1>3. PICK v \in V[k] : v \in V[i] /\ v \in D
  BY <1>1, <1>2 DEF Blocks
<1>4. k = i
  BY <1>3, SelfOverlap, BlocksJoin DEF AllSpanned
<1> QED BY <1>1, <1>2, <1>4 DEF IsOne

BlocksOf(ds) == [k \in 1 .. Len(Clusters(ds)) |-> Block(ds, Clusters(ds)[k])]

LEMMA ClustersBlock ==
  ASSUME NEW Y, NEW ds \in Seq(Y), \A d \in Y : Spanned(d), NEW cs, cs = Clusters(ds),
         NEW V, V = BlocksOf(ds), NEW D, D = ToSet(ds)
  PROVE  Blocks(V, Len(cs), D)
<1>1. PICK m, n : m = Len(ds) /\ n = Len(cs)
  OBVIOUS
<1>2. /\ cs \in Seq(Seq(1 .. m)) /\ (\A k \in 1 .. n : \E i : Has(cs[k], i)) /\ Apart(ds, cs)
      /\ \A i \in 1 .. m : \E k \in 1 .. n : Has(cs[k], i)
      /\ \A k \in 1 .. n : Chained(ds, cs[k])
  BY <1>1, ClustersApart
<1>3. n \in Nat /\ m \in Nat /\ DOMAIN ds = 1 .. m
  BY <1>1, <1>2
<1>4. \A d : d \in D <=> \E i \in 1 .. m : ds[i] = d
  BY <1>3 DEF ToSet
<1>5. ASSUME NEW k \in 1 .. n
      PROVE  cs[k] \in Seq(1 .. m) /\ V[k] = Block(ds, cs[k]) /\ \A i : Has(cs[k], i) => i \in 1 .. m
  <2>1. cs[k] \in Seq(1 .. m)
    BY <1>1, <1>2
  <2>2. V[k] = Block(ds, cs[k])
    BY <1>1 DEF BlocksOf
  <2>3. \A i : Has(cs[k], i) => i \in 1 .. m
    <3>1. PICK S, c : S = 1 .. m /\ c = cs[k] /\ c \in Seq(S)
      BY <2>1
    <3> QED BY <3>1, HasIn
  <2> QED BY <2>1, <2>2, <2>3
<1>6. \A k \in 1 .. n : \A d : d \in V[k] <=> \E i : Has(cs[k], i) /\ d = ds[i]
  BY <1>5, SMTT(30) DEF Block, Has
<1>7. ASSUME NEW k \in 1 .. n PROVE V[k] # {} /\ V[k] \subseteq D
  <2>1. PICK i : Has(cs[k], i)
    BY <1>2
  <2>2. ds[i] \in V[k]
    BY <1>6, <2>1
  <2>3. ASSUME NEW d \in V[k] PROVE d \in D
    <3>1. PICK j : Has(cs[k], j) /\ d = ds[j]
      BY <1>6, <2>3
    <3>2. j \in 1 .. m
      BY <1>5, <3>1
    <3> QED BY <1>4, <3>1, <3>2
  <2> QED BY <2>2, <2>3
<1>8. \A d \in D : \E k \in 1 .. n : d \in V[k]
  BY <1>2, <1>4, <1>6
<1>9. ASSUME NEW j \in 1 .. n, NEW k \in 1 .. n, j < k, NEW a \in V[j], NEW b \in V[k]
      PROVE  a.end <= b.start
  <2>1. PICK x, y : Has(cs[j], x) /\ a = ds[x] /\ Has(cs[k], y) /\ b = ds[y]
    BY <1>6
  <2> QED BY <1>1, <1>2, <1>9, <2>1 DEF Apart
<1>10. ASSUME NEW k \in 1 .. n, NEW part \in SUBSET V[k], part \notin {{}, V[k]}
       PROVE  \E a \in part, b \in V[k] \ part : Overlap(a, b)
  <2>1. PICK c, S : c = cs[k] /\ S = 1 .. m
    OBVIOUS
  <2>2. c \in Seq(S) /\ Chained(ds, c)
    BY <1>2, <1>5, <2>1
  <2>3. \A i : i \in ToSet(c) <=> Has(c, i)
    BY <2>2 DEF ToSet, Has
  <2>4. PICK P : P = {i \in ToSet(c) : ds[i] \in part}
    OBVIOUS
  <2>5. PICK u, v : u \in part /\ u \in V[k] /\ v \in V[k] /\ v \notin part
    BY <1>10
  <2>6. PICK x, y : Has(c, x) /\ u = ds[x] /\ Has(c, y) /\ v = ds[y]
    <3>1. PICK x : Has(cs[k], x) /\ u = ds[x]
      BY <1>6, <2>5
    <3>2. PICK y : Has(cs[k], y) /\ v = ds[y]
      BY <1>6, <2>5
    <3> QED BY <2>1, <3>1, <3>2
  <2>7. x \in P /\ y \in ToSet(c) /\ y \notin P
    BY <2>3, <2>4, <2>5, <2>6
  <2>8. P \in SUBSET ToSet(c) /\ P \notin {{}, ToSet(c)}
    BY <2>4, <2>7
  <2>9. PICK i \in P, j \in ToSet(c) \ P : Overlap(ds[i], ds[j])
    BY <2>2, <2>8, ChainedConnects
  <2>10. ds[i] \in part /\ ds[j] \notin part /\ Has(c, j)
    BY <2>3, <2>4, <2>9
  <2>11. ds[j] \in V[k]
    BY <1>6, <2>1, <2>10
  <2> QED BY <2>9, <2>10, <2>11
<1>11. \A k \in 1 .. n : Connected(V[k])
  BY <1>10 DEF Connected
<1> QED BY <1>1, <1>3, <1>7, <1>8, <1>9, <1>11 DEF Blocks

-----------------------------------------------------------------------------
(* Winners. *)

Unbeaten(B, d) == \A e \in B : ~Outranks(e, d)
SameRank(d, e) ==
  SpanLength(d) = SpanLength(e) /\ d.tier = e.tier /\ Precedence(d.detector) = Precedence(e.detector)

LEMMA RanksEqual ==
  ASSUME NEW d, NEW e, Spanned(d), Spanned(e), ~Outranks(d, e), ~Outranks(e, d)
  PROVE  SameRank(d, e)
<1>1. PICK a, b, s, t, p, q : /\ a = SpanLength(d) /\ b = SpanLength(e) /\ s = d.tier /\ t = e.tier
                              /\ p = Precedence(d.detector) /\ q = Precedence(e.detector)
  OBVIOUS
<1>2. a \in Int /\ b \in Int /\ s \in Int /\ t \in Int
  BY <1>1 DEF Spanned, SpanLength
<1>3. p \in Int /\ q \in Int
  BY <1>1 DEF Precedence, DETECTOR_PRECEDENCE
<1>4. ~(a > b \/ (a = b /\ s < t) \/ (a = b /\ s = t /\ p < q))
  BY <1>1 DEF Outranks
<1>5. ~(b > a \/ (b = a /\ t < s) \/ (b = a /\ t = s /\ q < p))
  BY <1>1 DEF Outranks
<1>6. a = b /\ s = t /\ p = q
  BY <1>2, <1>3, <1>4, <1>5
<1> QED BY <1>1, <1>6 DEF SameRank

LEMMA RankUnbeaten ==
  ASSUME NEW B, NEW d, NEW e, Unbeaten(B, d), SameRank(d, e)
  PROVE  Unbeaten(B, e)
BY DEF Unbeaten, SameRank, Outranks

\* The winner, among the members of its cluster: none outranks it, and it comes
\* before the others that none outranks.
Wins(ds, c, w) ==
  /\ Has(c, w) /\ Unbeaten(Block(ds, c), ds[w])
  /\ \A i : Has(c, i) /\ Unbeaten(Block(ds, c), ds[i]) => i = w \/ StartsFirst(ds, w, i)

LEMMA WinnerWins ==
  ASSUME NEW n \in Nat, NEW ds, \A i \in 1 .. n : Spanned(ds[i]),
         NEW c \in Seq(1 .. n), Ascends(ds, c), NEW i0, Has(c, i0), NEW w, w = Winner(ds, c)
  PROVE  Wins(ds, c, w)
<1>1. \A i \in 1 .. n : ds[i].start \in Int /\ ds[i].end \in Int /\ ds[i].tier \in Int
  BY DEF Spanned
<1>2. PICK x \in 1 .. Len(c) : /\ Winner(ds, c) = c[x] /\ NoneAbove(ds, c, x)
                               /\ \A y \in 1 .. Len(c) : NoneAbove(ds, c, y) => x <= y
  BY <1>1, WinnerFirst
<1>3. w = c[x]
  BY <1>2
<1>4. Len(c) \in Nat /\ DOMAIN c = 1 .. Len(c)
  OBVIOUS
<1>5. \A y : NoneAbove(ds, c, y) <=> Unbeaten(Block(ds, c), ds[c[y]])
  BY <1>4 DEF NoneAbove, Unbeaten, Block
<1>6. ASSUME NEW i, Has(c, i), Unbeaten(Block(ds, c), ds[i]) PROVE i = w \/ StartsFirst(ds, w, i)
  <2>1. PICK y \in 1 .. Len(c) : c[y] = i
    BY <1>6 DEF Has
  <2>2. x <= y
    BY <1>2, <1>5, <1>6, <2>1
  <2>3. x = y \/ x < y
    BY <1>4, <2>2
  <2> QED BY <1>3, <2>1, <2>3 DEF Ascends
<1>7. Has(c, w) /\ Unbeaten(Block(ds, c), ds[w])
  BY <1>2, <1>3, <1>5 DEF Has
<1> QED BY <1>6, <1>7 DEF Wins

\* What _pick_cluster_winner makes of it.
LEMMA PickDoes ==
  ASSUME NEW ds, NEW c, NEW w, w = Winner(ds, c), NEW d, d = ds[w], {"start", "end"} \subseteq DOMAIN d,
         NEW e, e = _pick_cluster_winner(ds, c)
  PROVE  e.start = d.start /\ e.end = d.end
<1>1. e = d \/ e = [d EXCEPT !.confidence = Boost(d.confidence)]
  BY DEF _pick_cluster_winner
<1> QED BY <1>1

\* The k-th accepted span, its cluster and its winner.
Resolves(ds, cs, r, k, w) ==
  /\ cs[k] \in Seq(1 .. Len(ds)) /\ w \in 1 .. Len(ds) /\ w = Winner(ds, cs[k]) /\ Wins(ds, cs[k], w)
  /\ r[k] = _pick_cluster_winner(ds, cs[k]) /\ r[k].start = ds[w].start /\ r[k].end = ds[w].end

LEMMA ResolvedBy ==
  ASSUME NEW Y, NEW ds \in Seq(Y), \A d \in Y : Spanned(d), NEW r, r = _resolve_overlaps(ds),
         NEW cs, cs = Clusters(ds)
  PROVE  /\ Len(cs) \in Nat /\ DOMAIN r = 1 .. Len(cs)
         /\ \A k \in 1 .. Len(cs) : \E w : Resolves(ds, cs, r, k, w)
<1>1. PICK m, n : m = Len(ds) /\ n = Len(cs)
  OBVIOUS
<1>2. /\ cs \in Seq(Seq(1 .. m)) /\ (\A k \in 1 .. n : \E i : Has(cs[k], i))
      /\ \A k \in 1 .. n : Ascends(ds, cs[k])
  BY <1>1, ClustersApart
<1>3. n \in Nat /\ m \in Nat /\ DOMAIN cs = 1 .. n /\ \A i \in 1 .. m : Spanned(ds[i])
  BY <1>1, <1>2
<1>4. r = [k \in DOMAIN cs |-> _pick_cluster_winner(ds, cs[k])]
  BY DEF _resolve_overlaps
<1>5. ASSUME NEW k \in 1 .. n PROVE \E w : Resolves(ds, cs, r, k, w)
  <2>1. PICK c, w : c = cs[k] /\ w = Winner(ds, c)
    OBVIOUS
  <2>2. c \in Seq(1 .. m) /\ Ascends(ds, c) /\ \E i : Has(c, i)
    BY <1>1, <1>2, <2>1
  <2>3. Wins(ds, c, w)
    BY <1>3, <2>1, <2>2, WinnerWins
  <2>4. w \in 1 .. m
    <3>1. PICK S : S = 1 .. m /\ c \in Seq(S) /\ Has(c, w)
      BY <2>2, <2>3 DEF Wins
    <3> QED BY <3>1, HasIn
  <2>5. PICK d, e : d = ds[w] /\ e = _pick_cluster_winner(ds, c)
    OBVIOUS
  <2>6. {"start", "end"} \subseteq DOMAIN d
    BY <1>3, <2>4, <2>5 DEF Spanned
  <2>7. e.start = d.start /\ e.end = d.end
    BY <2>1, <2>5, <2>6, PickDoes
  <2>8. r[k] = e
    BY <1>3, <1>4, <2>1, <2>5
  <2>9. Resolves(ds, cs, r, k, w)
    BY <1>1, <2>1, <2>2, <2>3, <2>4, <2>5, <2>7, <2>8 DEF Resolves
  <2> QED BY <2>9
<1> QED BY <1>1, <1>3, <1>4, <1>5

-----------------------------------------------------------------------------
(* The order of the reports. *)

\* What decides the span of a winner.
BestIn(B, d) == d \in B /\ Unbeaten(B, d) /\ \A e \in B : Unbeaten(B, e) => d.start <= e.start

LEMMA WinsBest ==
  ASSUME NEW n, NEW ds, \A i \in 1 .. n : Spanned(ds[i]), NEW c \in Seq(1 .. n), NEW w, Wins(ds, c, w)
  PROVE  BestIn(Block(ds, c), ds[w])
<1>1. \A d : d \in Block(ds, c) <=> \E i : Has(c, i) /\ d = ds[i]
  BY DEF Block, Has
<1>2. \A i : Has(c, i) => i \in 1 .. n
  <2>1. PICK S : S = 1 .. n /\ c \in Seq(S)
    OBVIOUS
  <2> QED BY <2>1, HasIn
<1>3. Has(c, w) /\ Unbeaten(Block(ds, c), ds[w])
  BY DEF Wins
<1>4. ASSUME NEW e \in Block(ds, c), Unbeaten(Block(ds, c), e) PROVE ds[w].start <= e.start
  <2>1. PICK i : Has(c, i) /\ e = ds[i]
    BY <1>1, <1>4
  <2>2. i = w \/ StartsFirst(ds, w, i)
    BY <1>4, <2>1 DEF Wins
  <2>3. ds[w].start \in Int /\ ds[i].start \in Int
    BY <1>2, <1>3, <2>1 DEF Spanned
  <2>4. CASE i = w
    BY <2>1, <2>3, <2>4
  <2>5. CASE StartsFirst(ds, w, i)
    <3>1. ds[w].start < ds[i].start \/ ds[w].start = ds[i].start
      BY <2>5 DEF StartsFirst
    <3> QED BY <2>1, <2>3, <3>1
  <2> QED BY <2>2, <2>4, <2>5
<1>5. ds[w] \in Block(ds, c)
  BY <1>1, <1>3
<1> QED BY <1>3, <1>4, <1>5 DEF BestIn

LEMMA BestSpan ==
  ASSUME NEW B, \A d \in B : Spanned(d), NEW d, NEW e, BestIn(B, d), BestIn(B, e)
  PROVE  d.start = e.start /\ d.end = e.end
<1>1. d \in B /\ e \in B /\ Spanned(d) /\ Spanned(e)
  BY DEF BestIn
<1>2. ~Outranks(d, e) /\ ~Outranks(e, d)
  BY <1>1 DEF BestIn, Unbeaten
<1>3. d.end - d.start = e.end - e.start
  BY <1>1, <1>2, RanksEqual DEF SameRank, SpanLength
<1>4. d.start <= e.start /\ e.start <= d.start
  BY DEF BestIn
<1>5. PICK a, b, u, v : a = d.start /\ b = d.end /\ u = e.start /\ v = e.end
  OBVIOUS
<1>6. a \in Int /\ b \in Int /\ u \in Int /\ v \in Int
  BY <1>1, <1>5 DEF Spanned
<1>7. a = u /\ b = v
  BY <1>3, <1>4, <1>5, <1>6
<1> QED BY <1>5, <1>7

\* The same span is accepted, whatever the order of the list.
SameSpan(d, e) == d.start = e.start /\ d.end = e.end

LEMMA SpansMatch ==
  ASSUME NEW Y, \A d \in Y : Spanned(d), NEW ds \in Seq(Y), NEW ds2 \in Seq(Y), ToSet(ds) = ToSet(ds2),
         NEW r, r = _resolve_overlaps(ds), NEW r2, r2 = _resolve_overlaps(ds2), NEW k \in DOMAIN r
  PROVE  \E l \in DOMAIN r2 : SameSpan(r[k], r2[l])
<1>1. PICK cs, cs2, V, W, D : /\ cs = Clusters(ds) /\ cs2 = Clusters(ds2) /\ V = BlocksOf(ds) /\ W = BlocksOf(ds2)
                              /\ D = ToSet(ds) /\ D = ToSet(ds2)
  OBVIOUS
<1>2. Blocks(V, Len(cs), D)
  BY <1>1, ClustersBlock
<1>3. Blocks(W, Len(cs2), D)
  BY <1>1, ClustersBlock
<1>4. D \subseteq Y
  BY <1>1 DEF ToSet
<1>5. \A d \in D : Spanned(d)
  BY <1>4
<1>6. DOMAIN r = 1 .. Len(cs) /\ \E w : Resolves(ds, cs, r, k, w)
  BY <1>1, ResolvedBy
<1>7. PICK l \in 1 .. Len(cs2) : V[k] = W[l]
  <2>1. PICK n, m : n = Len(cs) /\ m = Len(cs2)
    OBVIOUS
  <2>2. Blocks(V, n, D) /\ Blocks(W, m, D) /\ k \in 1 .. n
    BY <1>2, <1>3, <1>6, <2>1
  <2>3. n \in Nat /\ m \in Nat
    BY <2>2 DEF Blocks
  <2>4. AllSpanned(D)
    BY <1>5 DEF AllSpanned
  <2>5. IsOne(V[k], W, m)
    BY <2>2, <2>3, <2>4, BlockSame
  <2> QED BY <2>1, <2>5 DEF IsOne
<1>8. DOMAIN r2 = 1 .. Len(cs2) /\ \E w : Resolves(ds2, cs2, r2, l, w)
  BY <1>1, <1>7, ResolvedBy
<1>9. V[k] = Block(ds, cs[k]) /\ W[l] = Block(ds2, cs2[l])
  BY <1>1, <1>6, <1>7 DEF BlocksOf
<1>10. PICK w : Resolves(ds, cs, r, k, w)
  BY <1>6
<1>11. PICK u : Resolves(ds2, cs2, r2, l, u)
  BY <1>8
<1>12. BestIn(V[k], ds[w])
  <2>1. PICK n, c : n = Len(ds) /\ c = cs[k] /\ c \in Seq(1 .. n) /\ Wins(ds, c, w)
    BY <1>10 DEF Resolves
  <2>2. \A i \in 1 .. n : Spanned(ds[i])
    BY <2>1
  <2> QED BY <1>9, <2>1, <2>2, WinsBest
<1>13. BestIn(W[l], ds2[u])
  <2>1. PICK n, c : n = Len(ds2) /\ c = cs2[l] /\ c \in Seq(1 .. n) /\ Wins(ds2, c, u)
    BY <1>11 DEF Resolves
  <2>2. \A i \in 1 .. n : Spanned(ds2[i])
    BY <2>1
  <2> QED BY <1>9, <2>1, <2>2, WinsBest
<1>14. \A d \in V[k] : Spanned(d)
  BY <1>2, <1>5, <1>6 DEF Blocks
<1>15. ds[w].start = ds2[u].start /\ ds[w].end = ds2[u].end
  <2>1. PICK d, e, B : d = ds[w] /\ e = ds2[u] /\ B = V[k] /\ BestIn(B, d) /\ BestIn(B, e)
    BY <1>7, <1>12, <1>13
  <2> QED BY <1>14, <2>1, BestSpan
<1>16. SameSpan(r[k], r2[l])
  BY <1>10, <1>11, <1>15 DEF Resolves, SameSpan
<1> QED BY <1>8, <1>16

\* The accepted spans start at different places, in ascending order.
Begins(r) == {r[k].start : k \in DOMAIN r}
BeginsOf(r) == [k \in DOMAIN r |-> r[k].start]

LEMMA StartsAscend ==
  ASSUME NEW Y, \A d \in Y : Spanned(d), NEW ds \in Seq(Y), NEW r, r = _resolve_overlaps(ds)
  PROVE  \E n : n \in Nat /\ DOMAIN r = 1 .. n /\ Begins(r) \subseteq Int /\ Enumerates(BeginsOf(r), n, Begins(r))
<1>1. PICK cs, n : cs = Clusters(ds) /\ n = Len(cs)
  OBVIOUS
<1>2. n \in Nat /\ DOMAIN r = 1 .. n /\ \A k \in 1 .. n : \E w : Resolves(ds, cs, r, k, w)
  BY <1>1, ResolvedBy
<1>3. ASSUME NEW k \in 1 .. n PROVE r[k].start \in Int /\ r[k].end \in Int /\ r[k].start < r[k].end
  <2>1. PICK w : Resolves(ds, cs, r, k, w)
    BY <1>2
  <2>2. w \in 1 .. Len(ds) /\ r[k].start = ds[w].start /\ r[k].end = ds[w].end
    BY <2>1 DEF Resolves
  <2>3. Spanned(ds[w])
    BY <2>2
  <2> QED BY <2>2, <2>3 DEF Spanned
<1>4. PICK f, K : f = BeginsOf(r) /\ K = Begins(r)
  OBVIOUS
<1>5. f \in [1 .. n -> K] /\ (\A k \in 1 .. n : f[k] = r[k].start) /\ \A i \in K : \E k \in 1 .. n : f[k] = i
  BY <1>2, <1>4 DEF BeginsOf, Begins
<1>6. K \subseteq Int
  BY <1>2, <1>3, <1>4 DEF Begins
<1>7. ASSUME NEW j \in 1 .. n, NEW k \in 1 .. n, j < k PROVE f[j] < f[k]
  <2>1. r[j].end <= r[k].start
    BY <1>2, <1>7, ResolvedApart
  <2>2. PICK a, b, c : a = r[j].start /\ b = r[j].end /\ c = r[k].start
    OBVIOUS
  <2>3. a \in Int /\ b \in Int /\ c \in Int /\ a < b /\ b <= c
    BY <1>3, <2>1, <2>2
  <2>4. a < c
    BY <2>3
  <2> QED BY <1>5, <2>2, <2>4
<1>8. ASSUME NEW j \in 1 .. n, NEW k \in 1 .. n, f[j] < f[k] PROVE j < k
  <2>1. f[j] \in Int /\ f[k] \in Int /\ j \in Int /\ k \in Int
    <3>1. f[j] = r[j].start /\ f[k] = r[k].start
      BY <1>5
    <3>2. r[j].start \in Int /\ r[k].start \in Int
      BY <1>3
    <3>3. j \in Int /\ k \in Int
      BY <1>2
    <3> QED BY <3>1, <3>2, <3>3
  <2>2. ~(k < j) /\ j # k
    BY <1>7, <1>8, <2>1
  <2> QED BY <2>1, <2>2
<1>9. Enumerates(f, n, K)
  BY <1>2, <1>5, <1>7, <1>8 DEF Enumerates
<1> QED BY <1>2, <1>4, <1>6, <1>9

LEMMA SpansEqual ==
  ASSUME NEW Y, \A d \in Y : Spanned(d), NEW ds \in Seq(Y), NEW ds2 \in Seq(Y), ToSet(ds) = ToSet(ds2),
         NEW r, r = _resolve_overlaps(ds), NEW r2, r2 = _resolve_overlaps(ds2)
  PROVE  DOMAIN r = DOMAIN r2 /\ \A k \in DOMAIN r : SameSpan(r[k], r2[k])
<1>1. \A k \in DOMAIN r : \E l \in DOMAIN r2 : SameSpan(r[k], r2[l])
  BY SpansMatch
<1>2. \A l \in DOMAIN r2 : \E k \in DOMAIN r : SameSpan(r2[l], r[k])
  <2>1. ToSet(ds2) = ToSet(ds)
    OBVIOUS
  <2> QED BY <2>1, SpansMatch
<1>3. PICK n : n \in Nat /\ DOMAIN r = 1 .. n /\ Begins(r) \subseteq Int /\ Enumerates(BeginsOf(r), n, Begins(r))
  BY StartsAscend
<1>4. PICK m : m \in Nat /\ DOMAIN r2 = 1 .. m /\ Enumerates(BeginsOf(r2), m, Begins(r2))
  BY StartsAscend
<1>5. Begins(r) = Begins(r2)
  BY <1>1, <1>2 DEF Begins, SameSpan
<1>6. PICK K, f, g : K = Begins(r) /\ f = BeginsOf(r) /\ g = BeginsOf(r2)
  OBVIOUS
<1>7. K \in SUBSET Int /\ Enumerates(f, n, K) /\ Enumerates(g, m, K)
  BY <1>3, <1>4, <1>5, <1>6
<1>8. m = n /\ f = g
  BY <1>7, SameEnumeration
<1>9. DOMAIN r = DOMAIN r2
  BY <1>3, <1>4, <1>8
<1>10. ASSUME NEW k \in DOMAIN r PROVE SameSpan(r[k], r2[k])
  <2>1. PICK l \in DOMAIN r2 : SameSpan(r[k], r2[l])
    BY <1>1
  <2>2. l \in 1 .. n /\ k \in 1 .. n /\ f[k] = r[k].start /\ f[l] = r2[l].start
    BY <1>3, <1>6, <1>8, <1>9, <2>1 DEF BeginsOf
  <2>3. f[k] = f[l]
    BY <2>1, <2>2 DEF SameSpan
  <2>4. k = l
    <3>1. f[k] \in Int /\ f[l] \in Int /\ k \in Int /\ l \in Int
      <4>1. f[k] \in K /\ f[l] \in K
        BY <1>7, <2>2 DEF Enumerates
      <4>2. K \subseteq Int
        BY <1>7
      <4>3. k \in Int /\ l \in Int
        BY <1>3, <2>2
      <4> QED BY <4>1, <4>2, <4>3
    <3>2. ~(f[k] < f[l]) /\ ~(f[l] < f[k])
      BY <2>3, <3>1
    <3>3. ~(k < l) /\ ~(l < k)
      BY <1>7, <2>2, <3>2 DEF Enumerates
    <3> QED BY <3>1, <3>3
  <2> QED BY <2>1, <2>4
<1> QED BY <1>9, <1>10

\* The detections that are left: ds has what is at the positions J of all, in
\* their order.
Passes(text, excs, d) == _span_matches(text, d) /\ ~Excepted(excs, d) /\ Confident(d)
Passing(text, excs, all) == {n \in 1 .. Len(all) : Passes(text, excs, all[n])}
Draws(ds, all, g, J) == Enumerates(g, Len(ds), J) /\ \A k \in 1 .. Len(ds) : ds[k] = all[g[k]]

LEMMA LeftAre ==
  ASSUME NEW text, NEW excs, NEW Y, NEW all \in Seq(Y), NEW ds, ds = Left(text, all, excs)
  PROVE  ds \in Seq(Y) /\ \E g : Draws(ds, all, g, Passing(text, excs, all))
<1>1. PICK I : I = Passing(text, excs, all)
  OBVIOUS
<1>2. DOMAIN all = 1 .. Len(all)
  OBVIOUS
<1>3. ds = At(all, I)
  BY <1>1, <1>2 DEF Left, Filter, Passing, Passes
<1>4. I \in SUBSET (1 .. Len(all))
  BY <1>1 DEF Passing
<1>5. ds \in Seq(Y) /\ \E p : Enumerates(p, Len(ds), I) /\ \A k \in 1 .. Len(ds) : ds[k] = all[p[k]]
  BY <1>3, <1>4, AtEnumerates
<1> QED BY <1>1, <1>5 DEF Draws

LEMMA LeftSet ==
  ASSUME NEW text, NEW excs, NEW Y, NEW all \in Seq(Y), NEW ds, ds = Left(text, all, excs)
  PROVE  ds \in Seq(Y) /\ ToSet(ds) = {d \in ToSet(all) : Passes(text, excs, d)}
<1>1. ds \in Seq(Y)
  BY LeftAre
<1>2. PICK g, I : I = Passing(text, excs, all) /\ Draws(ds, all, g, I)
  BY LeftAre
<1>3. \A n : n \in I <=> n \in 1 .. Len(all) /\ Passes(text, excs, all[n])
  BY <1>2 DEF Passing
<1>4. \A d : d \in ToSet(ds) <=> \E k \in 1 .. Len(ds) : ds[k] = d
  BY <1>1 DEF ToSet
<1>5. \A d : d \in ToSet(all) <=> \E n \in 1 .. Len(all) : all[n] = d
  BY DEF ToSet
<1>6. \A k \in 1 .. Len(ds) : g[k] \in I /\ ds[k] = all[g[k]]
  BY <1>2 DEF Draws, Enumerates
<1>7. \A n \in I : \E k \in 1 .. Len(ds) : g[k] = n
  BY <1>2 DEF Draws, Enumerates
<1>8. ASSUME NEW d \in ToSet(ds) PROVE d \in ToSet(all) /\ Passes(text, excs, d)
  BY <1>3, <1>4, <1>5, <1>6, <1>8
<1>9. ASSUME NEW d \in ToSet(all), Passes(text, excs, d) PROVE d \in ToSet(ds)
  BY <1>3, <1>4, <1>5, <1>6, <1>7, <1>9
<1> QED BY <1>1, <1>8, <1>9

\* A list with its elements in another order.
LEMMA ShuffledSame ==
  ASSUME NEW Y, NEW ds \in Seq(Y), NEW p \in SetToSeqs(DOMAIN ds),
         NEW t, t = [k \in DOMAIN ds |-> ds[p[k]]]
  PROVE  t \in Seq(Y) /\ ToSet(t) = ToSet(ds)
<1>1. PICK n, S : n = Len(ds) /\ S = 1 .. n /\ n \in Nat /\ DOMAIN ds = S
  OBVIOUS
<1>2. IsFiniteSet(S) /\ Cardinality(S) = n
  <2>1. n \in Nat
    BY <1>1
  <2>2. IsFiniteSet(1 .. n) /\ Cardinality(1 .. n) = n
    BY <2>1, FS_Interval
  <2> QED BY <1>1, <2>2
<1>3. p \in [S -> S] /\ \A i, j \in S : i # j => p[i] # p[j]
  BY <1>1, <1>2 DEF SetToSeqs
<1>4. p \in Injection(S, S)
  BY <1>3 DEF Injection, IsInjective
<1>5. p \in Surjection(S, S)
  BY <1>2, <1>4, FS_Injection
<1>6. \A i \in S : \E k \in S : p[k] = i
  BY <1>5 DEF Surjection
<1>7. t \in [S -> Y] /\ \A k \in S : t[k] = ds[p[k]]
  BY <1>1, <1>3
<1>8. t \in Seq(Y) /\ DOMAIN t = S
  BY <1>1, <1>7
<1>9. \A d : d \in ToSet(t) <=> \E k \in S : t[k] = d
  BY <1>8 DEF ToSet
<1>10. \A d : d \in ToSet(ds) <=> \E k \in S : ds[k] = d
  BY <1>1 DEF ToSet
<1>11. ToSet(t) \subseteq ToSet(ds)
  BY <1>3, <1>7, <1>9, <1>10
<1>12. ToSet(ds) \subseteq ToSet(t)
  BY <1>6, <1>7, <1>9, <1>10
<1> QED BY <1>8, <1>11, <1>12

\* OrderIndependent: the spans that are masked depend on what was reported, not
\* on the order of the reports, for any number of them.
THEOREM OrderNeverMatters == Spec => []OrderIndependent
<1>1. StageInv => OrderIndependent
  <2> SUFFICES ASSUME StageInv, Merged, NEW p \in SetToSeqs(DOMAIN detections)
               PROVE  LET shuffled == [k \in DOMAIN detections |-> detections[p[k]]]
                          again    == merge(Text, shuffled, input.exceptions).accepted
                      IN  [k \in DOMAIN again |-> SpanOf(again[k])]
                            = [k \in DOMAIN result.accepted |-> SpanOf(result.accepted[k])]
    BY DEF OrderIndependent
  <2>1. PICK text, excs, ds, t : /\ text = Text /\ excs = input.exceptions /\ ds = detections
                                 /\ t = [k \in DOMAIN ds |-> ds[p[k]]]
    OBVIOUS
  <2>2. PICK Y : ds \in Seq(Y) /\ \A d \in Y : Sound(text, d)
    BY <2>1 DEF StageInv, Quoting
  <2>3. t \in Seq(Y) /\ ToSet(t) = ToSet(ds)
    BY <2>1, <2>2, ShuffledSame
  <2>4. PICK r, r2, u, v : /\ r = merge(text, ds, excs).accepted /\ r2 = merge(text, t, excs).accepted
                           /\ u = Left(text, ds, excs) /\ v = Left(text, t, excs)
    OBVIOUS
  <2>5. r = _resolve_overlaps(u) /\ r2 = _resolve_overlaps(v)
    BY <2>2, <2>3, <2>4, FilteredOnce
  <2>6. u \in Seq(Y) /\ ToSet(u) = {d \in ToSet(ds) : Passes(text, excs, d)}
    BY <2>2, <2>4, LeftSet
  <2>7. v \in Seq(Y) /\ ToSet(v) = {d \in ToSet(t) : Passes(text, excs, d)}
    BY <2>3, <2>4, LeftSet
  <2>8. ToSet(u) = ToSet(v)
    BY <2>3, <2>6, <2>7
  <2>9. \A d \in Y : Spanned(d)
    BY <2>2, SoundSpanned
  <2>10. DOMAIN r = DOMAIN r2 /\ \A k \in DOMAIN r : SameSpan(r[k], r2[k])
    <3>1. u \in Seq(Y) /\ v \in Seq(Y)
      BY <2>6, <2>7
    <3> QED BY <2>5, <2>8, <2>9, <3>1, SpansEqual
  <2>11. [k \in DOMAIN r2 |-> SpanOf(r2[k])] = [k \in DOMAIN r |-> SpanOf(r[k])]
    BY <2>10 DEF SpanOf, SameSpan
  <2>12. result.accepted = r
    BY <2>1, <2>4 DEF StageInv
  <2> QED BY <2>1, <2>4, <2>11, <2>12
<1> QED BY <1>1, StageInvariance, PTL

-----------------------------------------------------------------------------
(* Reports that are dropped. *)

\* The list without its n-th element.
Skip(n, j) == IF j < n THEN j ELSE j + 1

LEMMA RemovedIs ==
  ASSUME NEW Y, NEW all \in Seq(Y), NEW n \in 1 .. Len(all), NEW u, u = RemoveAt(all, n)
  PROVE  u \in Seq(Y) /\ Len(u) = Len(all) - 1 /\ \A j \in 1 .. Len(all) - 1 : u[j] = all[Skip(n, j)]
<1>1. PICK l, m, q, o : l = Len(all) /\ m = n - 1 /\ q = n + 1 /\ o = 1
  OBVIOUS
<1>2. l \in Nat /\ m \in Int /\ q \in Int /\ n \in 1 .. l /\ o \in Int
  BY <1>1
<1>3. PICK a, b : a = SubSeq(all, o, m) /\ b = SubSeq(all, q, l)
  OBVIOUS
<1>4. u = a \o b
  BY <1>1, <1>3 DEF RemoveAt
<1>5. (\A i \in o .. m : all[i] \in Y) /\ \A i \in q .. l : all[i] \in Y
  <2>1. (\A i \in o .. m : i \in 1 .. Len(all)) /\ \A i \in q .. l : i \in 1 .. Len(all)
    BY <1>1, <1>2
  <2> QED BY <2>1, ElementOfSeq
<1>6. /\ a \in Seq(Y) /\ Len(a) = (IF o <= m THEN m - o + 1 ELSE 0)
      /\ \A i \in 1 .. m - o + 1 : a[i] = all[o + i - 1]
  BY <1>2, <1>3, <1>5, SubSeqProperties, SMTT(30)
<1>7. /\ b \in Seq(Y) /\ Len(b) = (IF q <= l THEN l - q + 1 ELSE 0)
      /\ \A i \in 1 .. l - q + 1 : b[i] = all[q + i - 1]
  BY <1>2, <1>3, <1>5, SubSeqProperties
<1>8. Len(a) = m /\ \A i \in 1 .. m : a[i] = all[i]
  <2>1. Len(a) = m /\ m - o + 1 = m
    BY <1>1, <1>2, <1>6
  <2>2. \A i \in 1 .. m : o + i - 1 = i
    BY <1>1
  <2> QED BY <1>6, <2>1, <2>2
<1>9. Len(b) = l - n /\ \A i \in 1 .. l - n : b[i] = all[n + i]
  <2>1. Len(b) = l - n /\ l - q + 1 = l - n
    BY <1>1, <1>2, <1>7
  <2>2. \A i \in 1 .. l - n : q + i - 1 = n + i
    BY <1>1, <1>2
  <2> QED BY <1>7, <2>1, <2>2
<1>10. /\ u \in Seq(Y) /\ Len(u) = Len(a) + Len(b)
       /\ \A i \in 1 .. Len(a) + Len(b) : u[i] = IF i <= Len(a) THEN a[i] ELSE b[i - Len(a)]
  <2>1. a \in Seq(Y) /\ b \in Seq(Y)
    BY <1>6, <1>7
  <2> QED BY <1>4, <2>1, ConcatProperties, ZenonT(40)
<1>11. Len(a) + Len(b) = l - 1
  BY <1>1, <1>2, <1>8, <1>9
<1>12. ASSUME NEW j \in 1 .. l - 1 PROVE u[j] = all[Skip(n, j)]
  <2>1. u[j] = IF j <= m THEN a[j] ELSE b[j - m]
    BY <1>8, <1>10, <1>11
  <2>2. CASE j < n
    <3>1. j <= m /\ j \in 1 .. m
      BY <1>1, <1>2, <2>2
    <3> QED BY <1>8, <2>1, <2>2, <3>1 DEF Skip
  <2>3. CASE ~(j < n)
    <3>1. PICK i \in 1 .. l - n : i = j - m /\ ~(j <= m) /\ n + i = j + 1
      BY <1>1, <1>2, <2>3
    <3>2. u[j] = all[n + i]
      BY <1>9, <2>1, <3>1
    <3> QED BY <2>3, <3>1, <3>2 DEF Skip
  <2> QED BY <2>2, <2>3
<1> QED BY <1>1, <1>10, <1>11, <1>12

LEMMA DrawsWithout ==
  ASSUME NEW text, NEW excs, NEW Y, NEW all \in Seq(Y), NEW n \in 1 .. Len(all),
         NEW u, u = RemoveAt(all, n), NEW ds, ds = Left(text, u, excs)
  PROVE  /\ u \in Seq(Y) /\ ds \in Seq(Y)
         /\ \E g : Draws(ds, all, g, Passing(text, excs, all) \ {n})
<1>1. PICK l, m : l = Len(all) /\ m = l - 1 /\ l \in Nat /\ m \in Nat /\ n \in 1 .. l
  OBVIOUS
<1>2. u \in Seq(Y) /\ Len(u) = m /\ \A j \in 1 .. m : u[j] = all[Skip(n, j)]
  <2>1. /\ u \in Seq(Y) /\ Len(u) = Len(all) - 1
        /\ \A j \in 1 .. Len(all) - 1 : u[j] = all[Skip(n, j)]
    BY RemovedIs, ZenonT(40)
  <2>2. m = Len(all) - 1
    BY <1>1
  <2> QED BY <2>1, <2>2, Zenon
<1>3. ds \in Seq(Y)
  BY <1>2, LeftAre
<1>4. PICK p, I : I = Passing(text, excs, u) /\ Draws(ds, u, p, I)
  BY <1>2, LeftAre
<1>5. PICK J, z : J = Passing(text, excs, all) \ {n} /\ z = Len(ds)
  OBVIOUS
<1>6. \A j \in 1 .. m : Skip(n, j) \in 1 .. l /\ Skip(n, j) # n /\ Skip(n, j) \in Int
  BY <1>1 DEF Skip
<1>7. \A j, k \in 1 .. m : j < k <=> Skip(n, j) < Skip(n, k)
  BY <1>1 DEF Skip
<1>8. \A q \in 1 .. l : q # n => \E j \in 1 .. m : Skip(n, j) = q
  <2> SUFFICES ASSUME NEW q \in 1 .. l, q # n PROVE \E j \in 1 .. m : Skip(n, j) = q
    OBVIOUS
  <2>1. CASE q < n
    BY <1>1, <2>1 DEF Skip
  <2>2. CASE ~(q < n)
    <3>1. PICK j : j = q - 1 /\ j \in 1 .. m /\ ~(j < n) /\ j + 1 = q
      BY <1>1, <2>2
    <3> QED BY <3>1 DEF Skip
  <2> QED BY <2>1, <2>2
<1>9. \A j : j \in I <=> j \in 1 .. m /\ Passes(text, excs, u[j])
  BY <1>2, <1>4 DEF Passing
<1>10. \A q : q \in J <=> q \in 1 .. l /\ Passes(text, excs, all[q]) /\ q # n
  BY <1>1, <1>5 DEF Passing
<1>11. \A j \in I : j \in 1 .. m /\ Skip(n, j) \in J
  BY <1>2, <1>6, <1>9, <1>10
<1>12. \A q \in J : \E j \in I : Skip(n, j) = q
  <2> SUFFICES ASSUME NEW q \in J PROVE \E j \in I : Skip(n, j) = q
    OBVIOUS
  <2>1. q \in 1 .. l /\ Passes(text, excs, all[q]) /\ q # n
    BY <1>10
  <2>2. PICK j \in 1 .. m : Skip(n, j) = q
    BY <1>8, <2>1
  <2> QED BY <1>2, <1>9, <2>1, <2>2
<1>13. /\ z \in Nat /\ p \in [1 .. z -> I] /\ (\A i \in I : \E k \in 1 .. z : p[k] = i)
       /\ (\A j, k \in 1 .. z : j < k <=> p[j] < p[k]) /\ \A k \in 1 .. z : ds[k] = u[p[k]]
  BY <1>4, <1>5 DEF Draws, Enumerates
<1> DEFINE g == [k \in 1 .. z |-> Skip(n, p[k])]
<1>14. g \in [1 .. z -> J] /\ \A k \in 1 .. z : g[k] = Skip(n, p[k])
  BY <1>11, <1>13
<1> HIDE DEF g
<1>15. \A q \in J : \E k \in 1 .. z : g[k] = q
  BY <1>12, <1>13, <1>14
<1>16. ASSUME NEW j \in 1 .. z, NEW k \in 1 .. z PROVE j < k <=> g[j] < g[k]
  <2>1. p[j] \in 1 .. m /\ p[k] \in 1 .. m
    BY <1>11, <1>13
  <2> QED BY <1>7, <1>13, <1>14, <2>1
<1>17. Enumerates(g, z, J)
  BY <1>13, <1>14, <1>15, <1>16 DEF Enumerates
<1>18. \A k \in 1 .. z : ds[k] = all[g[k]]
  BY <1>2, <1>11, <1>13, <1>14
<1>19. Draws(ds, all, g, J)
  BY <1>5, <1>17, <1>18 DEF Draws
<1> QED BY <1>2, <1>3, <1>5, <1>19

\* DroppedHaveNoSay: without a report that an exception or its threshold drops,
\* the same spans are masked with the same confidences, for any number of reports.
THEOREM DroppedChangeNothing == Spec => []DroppedHaveNoSay
<1>1. StageInv => DroppedHaveNoSay
  <2> SUFFICES ASSUME StageInv, Merged, NEW n \in DOMAIN detections,
                      Excepted(input.exceptions, detections[n]) \/ ~Confident(detections[n])
               PROVE  merge(Text, RemoveAt(detections, n), input.exceptions).accepted = result.accepted
    BY DEF DroppedHaveNoSay
  <2>1. PICK text, excs, all, u : /\ text = Text /\ excs = input.exceptions /\ all = detections
                                  /\ u = RemoveAt(all, n)
    OBVIOUS
  <2>2. PICK Y : all \in Seq(Y)
    BY <2>1 DEF StageInv, Quoting
  <2>3. n \in 1 .. Len(all)
    BY <2>1, <2>2
  <2>4. PICK ds, ds2 : ds = Left(text, all, excs) /\ ds2 = Left(text, u, excs)
    OBVIOUS
  <2>5. PICK J : J = Passing(text, excs, all) /\ J \in SUBSET Int /\ J \ {n} = J
    <3>1. Passing(text, excs, all) \subseteq Int
      BY DEF Passing
    <3>2. n \notin Passing(text, excs, all)
      BY <2>1 DEF Passing, Passes
    <3> QED BY <3>1, <3>2
  <2>6. u \in Seq(Y) /\ ds2 \in Seq(Y) /\ \E g : Draws(ds2, all, g, Passing(text, excs, all) \ {n})
    BY <2>1, <2>2, <2>3, <2>4, DrawsWithout
  <2>7. PICK g2 : Draws(ds2, all, g2, J)
    BY <2>5, <2>6
  <2>8. ds \in Seq(Y) /\ \E g : Draws(ds, all, g, J)
    BY <2>2, <2>4, <2>5, LeftAre
  <2>9. PICK g : Draws(ds, all, g, J)
    BY <2>8
  <2>10. PICK l, l2 : l = Len(ds) /\ l2 = Len(ds2) /\ Enumerates(g, l, J) /\ Enumerates(g2, l2, J)
    BY <2>7, <2>9 DEF Draws
  <2>11. l = l2 /\ g = g2
    <3>1. J \in SUBSET Int
      BY <2>5
    <3> QED BY <2>10, <3>1, SameEnumeration
  <2>12. ds = ds2
    <3>1. \A k \in 1 .. l : ds[k] = ds2[k]
      BY <2>7, <2>9, <2>10, <2>11 DEF Draws
    <3>2. ds \in Seq(Y) /\ ds2 \in Seq(Y) /\ Len(ds) = Len(ds2) /\ l = Len(ds)
      BY <2>6, <2>8, <2>10, <2>11
    <3> QED BY <3>1, <3>2, SeqEqual
  <2>13. merge(text, all, excs).accepted = _resolve_overlaps(ds)
    BY <2>2, <2>4, FilteredOnce
  <2>14. merge(text, u, excs).accepted = _resolve_overlaps(ds2)
    BY <2>4, <2>6, FilteredOnce
  <2>15. result.accepted = merge(text, all, excs).accepted
    BY <2>1 DEF StageInv
  <2> QED BY <2>1, <2>12, <2>13, <2>14, <2>15
<1> QED BY <1>1, StageInvariance, PTL

-----------------------------------------------------------------------------
(* The places of detector B: what its engine labelled, and what it reports. *)

Holds(s, i) == s.start < i /\ i <= s.end
Real(token) == token.end # 0
Shown(S, T, i) == \E k \in 1 .. Len(S) : S[k].entity_type = T /\ Holds(S[k], i)
Marked(tokens, n, T, i) ==
  \E j \in 1 .. n : Real(tokens[j]) /\ EntityOf(tokens[j].label) = T /\ Holds(tokens[j], i)
Free(tokens, i) == \A j \in 1 .. Len(tokens) : Real(tokens[j]) => ~Holds(tokens[j], i)
Gap(tokens, n, T, i) == Marked(tokens, n, T, i - 1) /\ Marked(tokens, n, T, i + 1) /\ Free(tokens, i)

\* The first n tokens and the spans made of them: nothing lost, and nothing added
\* but gaps.
Traces(tokens, n, S) ==
  \A T \in Labels, i \in Int : /\ Marked(tokens, n, T, i) => Shown(S, T, i)
                               /\ Shown(S, T, i) => Marked(tokens, n, T, i) \/ Gap(tokens, n, T, i)
Rising(S) == \A j, k \in 1 .. Len(S) : j < k => S[j].end <= S[k].start
Proper(S) == \A k \in 1 .. Len(S) : S[k].start \in Int /\ S[k].end \in Int /\ S[k].start < S[k].end
EndsBy(tokens, n, S) == \A k \in 1 .. Len(S) : \E j \in 1 .. n : Real(tokens[j]) /\ S[k].end = tokens[j].end
Current(tokens, n, cur) ==
  cur # Null => /\ n # 0 /\ Real(tokens[n])
                /\ cur.end = tokens[n].end /\ cur.entity_type = EntityOf(tokens[n].label)

OnnxInv(tokens, n, S, cur) ==
  Traces(tokens, n, S) /\ Rising(S) /\ Proper(S) /\ EndsBy(tokens, n, S) /\ Current(tokens, n, cur)

\* Tokens one behind the other.
Row(tokens) ==
  /\ \A j \in 1 .. Len(tokens) : tokens[j].start \in Int /\ tokens[j].end \in Int
  /\ \A j \in 1 .. Len(tokens) : Real(tokens[j]) => tokens[j].start < tokens[j].end
  /\ \A j, k \in 1 .. Len(tokens) :
       Real(tokens[j]) /\ Real(tokens[k]) /\ j < k => tokens[j].end <= tokens[k].start

\* A list whose last span cur grew to the end e, and one with a span more.
Grows(S, S2, cur, cur2, e) ==
  /\ Len(S) \in Nat /\ Len(S) # 0 /\ Len(S2) = Len(S) /\ S[Len(S)] = cur /\ S2[Len(S)] = cur2
  /\ cur2.start = cur.start /\ cur2.end = e /\ cur2.entity_type = cur.entity_type
  /\ \A k \in 1 .. Len(S) : k # Len(S) => S2[k] = S[k]
Extra(S, S2, c) ==
  /\ Len(S) \in Nat /\ Len(S2) = Len(S) + 1 /\ S2[Len(S2)] = c
  /\ \A k \in 1 .. Len(S) : S2[k] = S[k]

LEMMA MarkedNext ==
  ASSUME NEW tokens, NEW p \in Nat, NEW n, n = p + 1, NEW T, NEW i
  PROVE  Marked(tokens, n, T, i) <=> \/ Marked(tokens, p, T, i)
                                     \/ Real(tokens[n]) /\ EntityOf(tokens[n].label) = T /\ Holds(tokens[n], i)
<1>1. \A j : j \in 1 .. n <=> j \in 1 .. p \/ j = n
  OBVIOUS
<1> QED BY <1>1 DEF Marked

LEMMA ShownAdds ==
  ASSUME NEW S, NEW S2, NEW c, Extra(S, S2, c), NEW T, NEW i
  PROVE  Shown(S2, T, i) <=> Shown(S, T, i) \/ (c.entity_type = T /\ Holds(c, i))
<1>1. PICK l, m : l = Len(S) /\ m = Len(S2) /\ l \in Nat /\ m = l + 1
  BY DEF Extra
<1>2. \A k : k \in 1 .. m <=> k \in 1 .. l \/ k = m
  BY <1>1
<1>3. S2[m] = c /\ \A k \in 1 .. l : S2[k] = S[k]
  BY <1>1 DEF Extra
<1> QED BY <1>1, <1>2, <1>3 DEF Shown

LEMMA ShownGrows ==
  ASSUME NEW S, NEW S2, NEW cur, NEW cur2, NEW e \in Int, Grows(S, S2, cur, cur2, e), Proper(S),
         cur.end <= e, NEW T, NEW i \in Int
  PROVE  Shown(S2, T, i) <=> Shown(S, T, i) \/ (cur.entity_type = T /\ cur.end < i /\ i <= e)
<1>1. PICK l : l = Len(S) /\ l = Len(S2) /\ l \in Nat /\ l # 0
  BY DEF Grows
<1>2. l \in 1 .. l /\ S[l] = cur /\ S2[l] = cur2
  BY <1>1 DEF Grows
<1>3. \A k \in 1 .. l : k # l => S2[k] = S[k]
  BY <1>1 DEF Grows
<1>4. PICK a, b : a = cur.start /\ b = cur.end /\ a \in Int /\ b \in Int /\ a < b /\ b <= e
  BY <1>1, <1>2 DEF Proper
<1>5. cur2.start = a /\ cur2.end = e /\ cur2.entity_type = cur.entity_type
  BY <1>4 DEF Grows
<1>6. Holds(cur2, i) <=> Holds(cur, i) \/ (b < i /\ i <= e)
  BY <1>4, <1>5 DEF Holds
<1>7. Shown(S2, T, i) <=> (\E k \in 1 .. l : k # l /\ S[k].entity_type = T /\ Holds(S[k], i))
                          \/ (cur.entity_type = T /\ Holds(cur2, i))
  BY <1>1, <1>2, <1>3, <1>5 DEF Shown
<1>8. Shown(S, T, i) <=> (\E k \in 1 .. l : k # l /\ S[k].entity_type = T /\ Holds(S[k], i))
                         \/ (cur.entity_type = T /\ Holds(cur, i))
  BY <1>1, <1>2 DEF Shown
<1> QED BY <1>4, <1>6, <1>7, <1>8

\* What is between two tokens is nobody's.
LEMMA FreeBetween ==
  ASSUME NEW tokens, Row(tokens), Len(tokens) \in Nat, NEW p \in 1 .. Len(tokens), NEW n \in 1 .. Len(tokens),
         n = p + 1, Real(tokens[p]), Real(tokens[n]),
         NEW i \in Int, tokens[p].end < i, i <= tokens[n].start
  PROVE  Free(tokens, i)
<1> SUFFICES ASSUME NEW j \in 1 .. Len(tokens), Real(tokens[j]), Holds(tokens[j], i) PROVE FALSE
  BY DEF Free
<1>1. PICK a, b, c, d, e, f : /\ a = tokens[p].start /\ b = tokens[p].end /\ c = tokens[n].start
                              /\ d = tokens[n].end /\ e = tokens[j].start /\ f = tokens[j].end
  OBVIOUS
<1>2. /\ a \in Int /\ b \in Int /\ c \in Int /\ d \in Int /\ e \in Int /\ f \in Int
      /\ a < b /\ c < d /\ e < f /\ b < i /\ i <= c
  BY <1>1 DEF Row
<1>3. e < i /\ i <= f
  BY <1>1 DEF Holds
<1>4. CASE j = p \/ j = n
  BY <1>1, <1>2, <1>3, <1>4
<1>5. CASE j < p
  <2>1. f <= a
    BY <1>1, <1>5 DEF Row
  <2> QED BY <1>2, <1>3, <2>1
<1>6. CASE n < j
  <2>1. d <= e
    BY <1>1, <1>6 DEF Row
  <2> QED BY <1>2, <1>3, <2>1
<1> QED BY <1>4, <1>5, <1>6

\* A gap stays one with more tokens.
LEMMA GapStays ==
  ASSUME NEW tokens, NEW p \in Nat, NEW n, n = p + 1, NEW T, NEW i, Gap(tokens, p, T, i)
  PROVE  Gap(tokens, n, T, i)
<1>1. PICK x, y : x = i - 1 /\ y = i + 1
  OBVIOUS
<1>2. Marked(tokens, p, T, x) /\ Marked(tokens, p, T, y) /\ Free(tokens, i)
  BY <1>1 DEF Gap
<1>3. Marked(tokens, n, T, x) /\ Marked(tokens, n, T, y)
  BY <1>2, MarkedNext
<1> QED BY <1>1, <1>2, <1>3 DEF Gap

LEMMA EndsStay ==
  ASSUME NEW tokens, NEW p \in Nat, NEW n, n = p + 1, NEW S, EndsBy(tokens, p, S)
  PROVE  EndsBy(tokens, n, S)
<1>1. \A j : j \in 1 .. p => j \in 1 .. n
  OBVIOUS
<1> QED BY <1>1 DEF EndsBy

-----------------------------------------------------------------------------
(* One token. *)

LEMMA TokenSkipped ==
  ASSUME NEW tokens, NEW p \in Nat, NEW n, n = p + 1, NEW S, NEW cur, OnnxInv(tokens, p, S, cur),
         ~Real(tokens[n]) \/ EntityOf(tokens[n].label) \notin Labels
  PROVE  OnnxInv(tokens, n, S, Null)
<1>1. Traces(tokens, n, S)
  <2> SUFFICES ASSUME NEW T \in Labels, NEW i \in Int
               PROVE  /\ Marked(tokens, n, T, i) => Shown(S, T, i)
                      /\ Shown(S, T, i) => Marked(tokens, n, T, i) \/ Gap(tokens, n, T, i)
    BY DEF Traces
  <2>1. Marked(tokens, n, T, i) <=> Marked(tokens, p, T, i)
    BY MarkedNext
  <2>2. Gap(tokens, p, T, i) => Gap(tokens, n, T, i)
    BY GapStays
  <2> QED BY <2>1, <2>2 DEF OnnxInv, Traces
<1>2. EndsBy(tokens, n, S)
  BY EndsStay DEF OnnxInv
<1> QED BY <1>1, <1>2 DEF OnnxInv, Current

\* The spans end before the token starts.
LEMMA EndsBefore ==
  ASSUME NEW tokens, Row(tokens), Len(tokens) \in Nat, NEW p \in Nat, NEW n \in 1 .. Len(tokens), n = p + 1,
         NEW S, EndsBy(tokens, p, S), Real(tokens[n]), NEW k \in 1 .. Len(S)
  PROVE  S[k].end <= tokens[n].start
<1>1. PICK j \in 1 .. p : Real(tokens[j]) /\ S[k].end = tokens[j].end
  BY DEF EndsBy
<1>2. j \in 1 .. Len(tokens) /\ j < n
  BY <1>1
<1> QED BY <1>1, <1>2 DEF Row

LEMMA TokenOpened ==
  ASSUME NEW tokens, Row(tokens), Len(tokens) \in Nat, NEW p \in Nat, NEW n \in 1 .. Len(tokens), n = p + 1,
         NEW S, NEW cur, OnnxInv(tokens, p, S, cur),
         Real(tokens[n]), NEW T0 \in Labels, T0 = EntityOf(tokens[n].label),
         NEW c, c.start = tokens[n].start, c.end = tokens[n].end, c.entity_type = T0,
         NEW S2, Extra(S, S2, c)
  PROVE  OnnxInv(tokens, n, S2, c)
<1>1. PICK l, m : l = Len(S) /\ m = Len(S2) /\ l \in Nat /\ m = l + 1
  BY DEF Extra
<1>2. S2[m] = c /\ (\A k \in 1 .. l : S2[k] = S[k]) /\ \A k : k \in 1 .. m <=> k \in 1 .. l \/ k = m
  BY <1>1 DEF Extra
<1>3. \A i : Holds(c, i) <=> Holds(tokens[n], i)
  BY DEF Holds
<1>4. Traces(tokens, n, S2)
  <2> SUFFICES ASSUME NEW T \in Labels, NEW i \in Int
               PROVE  /\ Marked(tokens, n, T, i) => Shown(S2, T, i)
                      /\ Shown(S2, T, i) => Marked(tokens, n, T, i) \/ Gap(tokens, n, T, i)
    BY DEF Traces
  <2>1. Marked(tokens, n, T, i) <=> Marked(tokens, p, T, i) \/ (T0 = T /\ Holds(tokens[n], i))
    BY MarkedNext
  <2>2. Gap(tokens, p, T, i) => Gap(tokens, n, T, i)
    BY GapStays
  <2>3. Shown(S2, T, i) <=> Shown(S, T, i) \/ (c.entity_type = T /\ Holds(c, i))
    BY ShownAdds
  <2>4. /\ Marked(tokens, p, T, i) => Shown(S, T, i)
        /\ Shown(S, T, i) => Marked(tokens, p, T, i) \/ Gap(tokens, p, T, i)
    BY DEF OnnxInv, Traces
  <2> QED BY <1>3, <2>1, <2>2, <2>3, <2>4
<1>5. Proper(S2)
  <2>1. c.start \in Int /\ c.end \in Int /\ c.start < c.end
    BY DEF Row
  <2>2. \A k \in 1 .. l : S[k].start \in Int /\ S[k].end \in Int /\ S[k].start < S[k].end
    BY <1>1 DEF OnnxInv, Proper
  <2> QED BY <1>1, <1>2, <2>1, <2>2 DEF Proper
<1>6. \A k \in 1 .. l : S[k].end <= c.start
  BY <1>1, EndsBefore DEF OnnxInv
<1>7. Rising(S2)
  <2> SUFFICES ASSUME NEW j \in 1 .. m, NEW k \in 1 .. m, j < k PROVE S2[j].end <= S2[k].start
    BY <1>1 DEF Rising
  <2>1. j \in 1 .. l /\ S2[j] = S[j]
    BY <1>1, <1>2
  <2>2. CASE k = m
    BY <1>2, <1>6, <2>1, <2>2
  <2>3. CASE k \in 1 .. l
    BY <1>1, <1>2, <2>1, <2>3 DEF OnnxInv, Rising
  <2> QED BY <1>2, <2>2, <2>3
<1>8. EndsBy(tokens, n, S2)
  <2> SUFFICES ASSUME NEW k \in 1 .. m
               PROVE  \E j \in 1 .. n : Real(tokens[j]) /\ S2[k].end = tokens[j].end
    BY <1>1 DEF EndsBy
  <2>1. EndsBy(tokens, n, S)
    BY EndsStay DEF OnnxInv
  <2>2. CASE k = m
    <3>1. n \in 1 .. n
      OBVIOUS
    <3> QED BY <1>2, <2>2, <3>1
  <2>3. CASE k \in 1 .. l
    BY <1>1, <1>2, <2>1, <2>3 DEF EndsBy
  <2> QED BY <1>2, <2>2, <2>3
<1>9. Current(tokens, n, c)
  BY DEF Current
<1> QED BY <1>4, <1>5, <1>7, <1>8, <1>9 DEF OnnxInv

LEMMA TokenExtends ==
  ASSUME NEW tokens, Row(tokens), Len(tokens) \in Nat, NEW p \in Nat, NEW n \in 1 .. Len(tokens), n = p + 1,
         NEW S, NEW cur, OnnxInv(tokens, p, S, cur), cur # Null,
         Real(tokens[n]), cur.entity_type = EntityOf(tokens[n].label), tokens[n].start <= cur.end + 1,
         NEW S2, NEW cur2, Grows(S, S2, cur, cur2, tokens[n].end)
  PROVE  OnnxInv(tokens, n, S2, cur2)
<1>1. PICK l : l = Len(S) /\ l = Len(S2) /\ l \in Nat /\ l # 0
  BY DEF Grows
<1>2. l \in 1 .. l /\ S[l] = cur /\ S2[l] = cur2 /\ \A k \in 1 .. l : k # l => S2[k] = S[k]
  BY <1>1 DEF Grows
<1>3. /\ p # 0 /\ p \in 1 .. Len(tokens) /\ Real(tokens[p])
      /\ cur.end = tokens[p].end /\ cur.entity_type = EntityOf(tokens[p].label)
  BY DEF OnnxInv, Current
<1>4. PICK a, b, s, e : a = cur.start /\ b = cur.end /\ s = tokens[n].start /\ e = tokens[n].end
  OBVIOUS
<1>5. a \in Int /\ b \in Int /\ a < b
  BY <1>1, <1>2, <1>4 DEF OnnxInv, Proper
<1>6. s \in Int /\ e \in Int /\ s < e
  BY <1>4 DEF Row
<1>7. b <= s /\ s <= b + 1
  BY <1>3, <1>4 DEF Row
<1>8. cur2.start = a /\ cur2.end = e /\ cur2.entity_type = cur.entity_type
  BY <1>4 DEF Grows
<1>9. \A i \in Int : Holds(tokens[n], i) <=> s < i /\ i <= e
  BY <1>4 DEF Holds
<1>10. \A i \in Int : b < i /\ i <= s => i = s /\ s = b + 1
  BY <1>5, <1>6, <1>7
<1>11. ASSUME s = b + 1 PROVE Gap(tokens, n, cur.entity_type, s)
  <2>1. PICK x, y, T : x = s - 1 /\ y = s + 1 /\ T = cur.entity_type
    OBVIOUS
  <2>2. Holds(tokens[p], x)
    <3>1. tokens[p].start \in Int /\ tokens[p].start < b
      BY <1>3, <1>4 DEF Row
    <3> QED BY <1>3, <1>4, <1>5, <1>11, <2>1, <3>1 DEF Holds
  <2>3. Marked(tokens, n, T, x)
    <3>1. p \in 1 .. n
      BY <1>3
    <3> QED BY <1>3, <2>1, <2>2, <3>1 DEF Marked
  <2>4. Marked(tokens, n, T, y)
    <3>1. n \in 1 .. n /\ Holds(tokens[n], y)
      BY <1>6, <1>9, <2>1
    <3> QED BY <2>1, <3>1 DEF Marked
  <2>5. Free(tokens, s)
    <3>1. tokens[p].end < s /\ s <= tokens[n].start
      BY <1>3, <1>4, <1>5, <1>6, <1>11
    <3> QED BY <1>3, <1>6, <3>1, FreeBetween
  <2> QED BY <2>1, <2>3, <2>4, <2>5 DEF Gap
<1>12. Traces(tokens, n, S2)
  <2> SUFFICES ASSUME NEW T \in Labels, NEW i \in Int
               PROVE  /\ Marked(tokens, n, T, i) => Shown(S2, T, i)
                      /\ Shown(S2, T, i) => Marked(tokens, n, T, i) \/ Gap(tokens, n, T, i)
    BY DEF Traces
  <2>1. Marked(tokens, n, T, i) <=> Marked(tokens, p, T, i) \/ (cur.entity_type = T /\ s < i /\ i <= e)
    BY <1>9, MarkedNext
  <2>2. Gap(tokens, p, T, i) => Gap(tokens, n, T, i)
    BY GapStays
  <2>3. Shown(S2, T, i) <=> Shown(S, T, i) \/ (cur.entity_type = T /\ b < i /\ i <= e)
    <3>1. Grows(S, S2, cur, cur2, e) /\ Proper(S) /\ cur.end <= e
      BY <1>4, <1>5, <1>6, <1>7 DEF OnnxInv
    <3> QED BY <1>4, <1>6, <3>1, ShownGrows
  <2>4. /\ Marked(tokens, p, T, i) => Shown(S, T, i)
        /\ Shown(S, T, i) => Marked(tokens, p, T, i) \/ Gap(tokens, p, T, i)
    BY DEF OnnxInv, Traces
  <2>5. Marked(tokens, n, T, i) => Shown(S2, T, i)
    BY <1>5, <1>6, <1>7, <2>1, <2>3, <2>4
  <2>6. ASSUME cur.entity_type = T, b < i, i <= e PROVE Marked(tokens, n, T, i) \/ Gap(tokens, n, T, i)
    <3>1. CASE s < i
      BY <2>1, <2>6, <3>1
    <3>2. CASE ~(s < i)
      <4>1. i = s /\ s = b + 1
        BY <1>6, <1>10, <2>6, <3>2
      <4> QED BY <1>11, <2>6, <4>1
    <3> QED BY <3>1, <3>2
  <2> QED BY <2>1, <2>2, <2>3, <2>4, <2>5, <2>6
<1>13. Proper(S2)
  <2>1. \A k \in 1 .. l : S[k].start \in Int /\ S[k].end \in Int /\ S[k].start < S[k].end
    BY <1>1 DEF OnnxInv, Proper
  <2>2. a < e
    BY <1>5, <1>6, <1>7
  <2> QED BY <1>1, <1>2, <1>5, <1>6, <1>8, <2>1, <2>2 DEF Proper
<1>14. Rising(S2)
  <2> SUFFICES ASSUME NEW j \in 1 .. l, NEW k \in 1 .. l, j < k PROVE S2[j].end <= S2[k].start
    BY <1>1 DEF Rising
  <2>1. S2[j] = S[j] /\ S2[k].start = S[k].start
    <3>1. j # l
      BY <1>1
    <3> QED BY <1>2, <1>4, <1>8, <3>1
  <2> QED BY <1>1, <2>1 DEF OnnxInv, Rising
<1>15. EndsBy(tokens, n, S2)
  <2> SUFFICES ASSUME NEW k \in 1 .. l
               PROVE  \E j \in 1 .. n : Real(tokens[j]) /\ S2[k].end = tokens[j].end
    BY <1>1 DEF EndsBy
  <2>1. EndsBy(tokens, n, S)
    BY EndsStay DEF OnnxInv
  <2>2. CASE k = l
    <3>1. n \in 1 .. n
      OBVIOUS
    <3> QED BY <1>2, <1>4, <1>8, <2>2, <3>1
  <2>3. CASE k # l
    BY <1>1, <1>2, <2>1, <2>3 DEF EndsBy
  <2> QED BY <2>2, <2>3
<1>16. Current(tokens, n, cur2)
  BY <1>4, <1>8 DEF Current
<1> QED BY <1>12, <1>13, <1>14, <1>15, <1>16 DEF OnnxInv

-----------------------------------------------------------------------------
(* The loop over the tokens. *)

LEMMA UpTo ==
  ASSUME NEW m \in Nat, NEW G, 0 \in G, \A n \in 1 .. m : n - 1 \in G => n \in G
  PROVE  m \in G
<1>1. PICK g : g = [n \in 0 .. m |-> n]
  OBVIOUS
<1>2. g[0] \in G /\ \A n \in 1 .. m : g[n - 1] = n - 1 /\ g[n] = n
  BY <1>1
<1>3. \A n \in 1 .. m : g[n - 1] \in G => g[n] \in G
  BY <1>2
<1>4. \A n \in 0 .. m : g[n] \in G
  BY <1>2, <1>3, RunStays
<1> QED BY <1>1, <1>4

\* What a token does to the spans so far, with the current one.
Moves(token, acc, S, next, S2) ==
  \/ (~Real(token) \/ EntityOf(token.label) \notin Labels) /\ S2 = S /\ next.cur = Null
  \/ /\ Real(token) /\ acc.cur # Null /\ acc.cur.entity_type = EntityOf(token.label)
     /\ token.start <= acc.cur.end + 1 /\ Grows(S, S2, acc.cur, next.cur, token.end)
  \/ /\ Real(token) /\ EntityOf(token.label) \in Labels
     /\ next.cur.start = token.start /\ next.cur.end = token.end
     /\ next.cur.entity_type = EntityOf(token.label) /\ Extra(S, S2, next.cur)

LEMMA NullIsNone == Null \notin Labels /\ \A text : Null \notin LabelledSpan(text)
<1>1. Null \notin Labels /\ Null \notin [start : Nat, end : Nat, entity_type : Labels]
  BY NullAssumption DEF Labels
<1>2. ASSUME NEW text, Null \in LabelledSpan(text) PROVE FALSE
  <2>1. LabelledSpan(text) \subseteq [start : Nat, end : Nat, entity_type : Labels]
    BY DEF LabelledSpan
  <2> QED BY <1>1, <1>2, <2>1
<1> QED BY <1>1, <1>2

LEMMA TokenMoves ==
  ASSUME NEW text, Len(text) \in Nat, NEW acc \in OnnxState(text), NEW token \in TokenOf(text),
         NEW next, next = Token(acc, token), NEW S, S = Flush(acc), NEW S2, S2 = Flush(next)
  PROVE  Moves(token, acc, S, next, S2)
<1>1. /\ acc.spans \in Seq(LabelledSpan(text)) /\ acc.cur \in LabelledSpan(text) \cup {Null}
      /\ next \in OnnxState(text)
  BY TokenTypes DEF OnnxState
<1>2. S \in Seq(LabelledSpan(text))
  BY FlushTypes
<1>3. PICK ent : ent = EntityOf(token.label)
  OBVIOUS
<1>4. Null \notin LabelledSpan(text) /\ Null \notin Labels /\ (ent # Null => ent \in Labels)
  BY <1>3, NullIsNone, EntityTypes
<1>5. CASE ent = Null \/ token.end = 0
  <2>1. next = [spans |-> S, cur |-> Null]
    BY <1>3, <1>5 DEF Token
  <2>2. S2 = S /\ next.cur = Null
    BY <2>1 DEF Flush
  <2> QED BY <1>3, <1>4, <1>5, <2>2 DEF Moves, Real
<1>6. CASE /\ ent # Null /\ token.end # 0
           /\ acc.cur # Null /\ acc.cur.entity_type = ent /\ token.start <= acc.cur.end + 1
  <2>1. next = [acc EXCEPT !.cur.end = token.end]
    BY <1>3, <1>6 DEF Token
  <2>2. PICK c, d, sp : c = acc.cur /\ d = [c EXCEPT !.end = token.end] /\ sp = acc.spans
    OBVIOUS
  <2>3. next.spans = sp /\ next.cur = d
    BY <2>1, <2>2 DEF OnnxState
  <2>4. c \in LabelledSpan(text) /\ d \in LabelledSpan(text)
    BY <1>1, <1>6, <2>2 DEF LabelledSpan, TokenOf
  <2>5. d.start = c.start /\ d.end = token.end /\ d.entity_type = c.entity_type
    BY <2>2, <2>4 DEF LabelledSpan
  <2>6. S = Append(sp, c) /\ S2 = Append(sp, d) /\ sp \in Seq(LabelledSpan(text))
    BY <1>1, <1>4, <1>6, <2>2, <2>3, <2>4 DEF Flush
  <2>7. /\ Len(S) = Len(sp) + 1 /\ S[Len(sp) + 1] = c /\ \A k \in 1 .. Len(sp) : S[k] = sp[k]
    BY <2>4, <2>6, AppendProperties
  <2>8. /\ Len(S2) = Len(sp) + 1 /\ S2[Len(sp) + 1] = d /\ \A k \in 1 .. Len(sp) : S2[k] = sp[k]
    BY <2>4, <2>6, AppendProperties
  <2>9. Len(sp) \in Nat
    BY <2>6
  <2>10. Grows(S, S2, c, d, token.end)
    <3>1. Len(S) \in Nat /\ Len(S) # 0 /\ Len(S2) = Len(S) /\ S[Len(S)] = c /\ S2[Len(S)] = d
      BY <2>7, <2>8, <2>9
    <3>2. \A k \in 1 .. Len(S) : k # Len(S) => k \in 1 .. Len(sp)
      BY <2>7, <2>9
    <3>3. \A k \in 1 .. Len(S) : k # Len(S) => S2[k] = S[k]
      BY <2>7, <2>8, <3>2
    <3> QED BY <2>5, <3>1, <3>3 DEF Grows
  <2> QED BY <1>3, <1>6, <2>2, <2>3, <2>10 DEF Moves, Real
<1>7. CASE /\ ent # Null /\ token.end # 0
           /\ ~(acc.cur # Null /\ acc.cur.entity_type = ent /\ token.start <= acc.cur.end + 1)
  <2>1. PICK d : d = [start |-> token.start, end |-> token.end, entity_type |-> ent]
    OBVIOUS
  <2>2. next = [spans |-> S, cur |-> d]
    BY <1>3, <1>7, <2>1 DEF Token
  <2>3. d \in LabelledSpan(text)
    BY <1>4, <1>7, <2>1 DEF LabelledSpan, TokenOf
  <2>4. next.spans = S /\ next.cur = d /\ S2 = Append(S, d)
    BY <1>4, <2>2, <2>3 DEF Flush
  <2>5. /\ Len(S2) = Len(S) + 1 /\ S2[Len(S) + 1] = d /\ \A k \in 1 .. Len(S) : S2[k] = S[k]
    BY <1>2, <2>3, <2>4, AppendProperties
  <2>6. Extra(S, S2, d)
    BY <1>2, <2>5 DEF Extra
  <2>7. d.start = token.start /\ d.end = token.end /\ d.entity_type = ent
    BY <2>1
  <2> QED BY <1>3, <1>4, <1>7, <2>4, <2>6, <2>7 DEF Moves, Real
<1> QED BY <1>5, <1>6, <1>7

LEMMA OnnxKeeps ==
  ASSUME NEW text, Len(text) \in Nat, NEW tokens \in Seq(TokenOf(text)), Row(tokens), NEW state,
         OnnxRun(state, text, tokens), NEW S, S = Flush(state[Len(tokens)])
  PROVE  S \in Seq(LabelledSpan(text)) /\ Traces(tokens, Len(tokens), S) /\ Rising(S) /\ Proper(S)
<1> DEFINE Good(n) == OnnxInv(tokens, n, Flush(state[n]), state[n].cur)
           G == {n \in 0 .. Len(tokens) : Good(n)}
<1>1. PICK m : m = Len(tokens) /\ m \in Nat
  OBVIOUS
<1>2. Good(0)
  <2>1. PICK Q : Q = Flush(state[0])
    OBVIOUS
  <2>2. Q = <<>> /\ state[0].cur = Null /\ Len(Q) = 0
    BY <2>1 DEF OnnxRun, Flush
  <2>3. (\A k : k \notin 1 .. Len(Q)) /\ \A j : j \notin 1 .. 0
    BY <2>2
  <2>4. Traces(tokens, 0, Q)
    BY <2>3 DEF Traces, Marked, Shown
  <2>5. Rising(Q) /\ Proper(Q) /\ EndsBy(tokens, 0, Q)
    BY <2>3 DEF Rising, Proper, EndsBy
  <2> QED BY <2>1, <2>2, <2>4, <2>5 DEF OnnxInv, Current
<1>3. ASSUME NEW n \in 1 .. m, Good(n - 1) PROVE Good(n)
  <2>1. PICK p, acc, next, Q, R : /\ p = n - 1 /\ acc = state[p] /\ next = state[n]
                                  /\ Q = Flush(acc) /\ R = Flush(next)
    OBVIOUS
  <2>2. p \in Nat /\ n = p + 1 /\ n \in 1 .. Len(tokens) /\ p \in 0 .. Len(tokens)
    BY <1>1, <2>1
  <2>3. acc \in OnnxState(text) /\ next = Token(acc, tokens[n]) /\ tokens[n] \in TokenOf(text)
    BY <2>1, <2>2 DEF OnnxRun
  <2>4. OnnxInv(tokens, p, Q, acc.cur)
    BY <1>3, <2>1
  <2>5. Moves(tokens[n], acc, Q, next, R)
    BY <2>1, <2>3, TokenMoves
  <2>6. OnnxInv(tokens, n, R, next.cur)
    <3>1. CASE (~Real(tokens[n]) \/ EntityOf(tokens[n].label) \notin Labels) /\ R = Q /\ next.cur = Null
      BY <2>2, <2>4, <3>1, TokenSkipped
    <3>2. CASE /\ Real(tokens[n]) /\ acc.cur # Null /\ acc.cur.entity_type = EntityOf(tokens[n].label)
               /\ tokens[n].start <= acc.cur.end + 1 /\ Grows(Q, R, acc.cur, next.cur, tokens[n].end)
      <4>1. PICK c, d : c = acc.cur /\ d = next.cur
        OBVIOUS
      <4>2. /\ OnnxInv(tokens, p, Q, c) /\ c # Null /\ c.entity_type = EntityOf(tokens[n].label)
            /\ tokens[n].start <= c.end + 1 /\ Grows(Q, R, c, d, tokens[n].end) /\ Real(tokens[n])
        BY <2>4, <3>2, <4>1
      <4>3. OnnxInv(tokens, n, R, d)
        BY <2>2, <4>2, TokenExtends
      <4> QED BY <4>1, <4>3
    <3>3. CASE /\ Real(tokens[n]) /\ EntityOf(tokens[n].label) \in Labels
               /\ next.cur.start = tokens[n].start /\ next.cur.end = tokens[n].end
               /\ next.cur.entity_type = EntityOf(tokens[n].label) /\ Extra(Q, R, next.cur)
      <4>1. PICK c, d, T0 : c = acc.cur /\ d = next.cur /\ T0 = EntityOf(tokens[n].label)
        OBVIOUS
      <4>2. /\ OnnxInv(tokens, p, Q, c) /\ T0 \in Labels /\ Real(tokens[n]) /\ d.start = tokens[n].start
            /\ d.end = tokens[n].end /\ d.entity_type = T0 /\ Extra(Q, R, d)
        BY <2>4, <3>3, <4>1
      <4>3. OnnxInv(tokens, n, R, d)
        BY <2>2, <4>1, <4>2, TokenOpened
      <4> QED BY <4>1, <4>3
    <3> QED BY <2>5, <3>1, <3>2, <3>3 DEF Moves
  <2> QED BY <2>1, <2>6
<1> HIDE DEF Good
<1>4. m \in G
  <2>1. 0 \in G
    BY <1>1, <1>2
  <2>2. ASSUME NEW n \in 1 .. m, n - 1 \in G PROVE n \in G
    BY <1>1, <1>3, <2>2
  <2> HIDE DEF G
  <2> QED BY <1>1, <2>1, <2>2, UpTo
<1>5. OnnxInv(tokens, Len(tokens), S, state[Len(tokens)].cur)
  BY <1>1, <1>4 DEF Good
<1>6. S \in Seq(LabelledSpan(text))
  BY <1>1, FlushTypes DEF OnnxRun
<1> QED BY <1>5, <1>6 DEF OnnxInv

-----------------------------------------------------------------------------
(* The stub: one list of names, united. *)

AsSpan(q) == [start |-> q[1], end |-> q[2], entity_type |-> "person"]
AsSpans(out) == [k \in DOMAIN out |-> AsSpan(out[k])]
Among(P, n, i) == \E j \in 1 .. n : Holds(P[j], i)

\* The first n names of P and the spans S made of them.
StubInv(P, n, S) ==
  /\ \A i \in Int : Among(P, n, i) <=> Shown(S, "person", i)
  /\ Rising(S) /\ Proper(S) /\ Len(S) \in Nat
  /\ \A k \in 1 .. Len(S) : S[k].entity_type = "person"
  /\ Len(S) # 0 => \E j \in 1 .. n : S[Len(S)].start = P[j].start

\* Names in the order of the text.
Names(P) ==
  /\ Proper(P) /\ Len(P) \in Nat /\ \A j \in 1 .. Len(P) : P[j].entity_type = "person"
  /\ \A j, k \in 1 .. Len(P) : j < k => P[j].start <= P[k].start

LEMMA AmongNext ==
  ASSUME NEW P, NEW p \in Nat, NEW n, n = p + 1, NEW i
  PROVE  Among(P, n, i) <=> Among(P, p, i) \/ Holds(P[n], i)
<1>1. \A j : j \in 1 .. n <=> j \in 1 .. p \/ j = n
  OBVIOUS
<1> QED BY <1>1 DEF Among

\* The last span begins no later than the next name.
LEMMA LastBegins ==
  ASSUME NEW P, Names(P), NEW p \in Nat, NEW n \in 1 .. Len(P), n = p + 1, NEW S, StubInv(P, p, S), Len(S) # 0
  PROVE  S[Len(S)].start <= P[n].start
<1>1. PICK j \in 1 .. p : S[Len(S)].start = P[j].start
  BY DEF StubInv
<1>2. j \in 1 .. Len(P) /\ j < n
  BY <1>1 DEF Names
<1> QED BY <1>1, <1>2 DEF Names

LEMMA NameAdded ==
  ASSUME NEW P, Names(P), NEW p \in Nat, NEW n \in 1 .. Len(P), n = p + 1, NEW S, StubInv(P, p, S),
         Len(S) # 0 => S[Len(S)].end <= P[n].start, NEW S2, Extra(S, S2, P[n])
  PROVE  StubInv(P, n, S2)
<1>1. PICK l, m, c : l = Len(S) /\ m = Len(S2) /\ l \in Nat /\ m = l + 1 /\ c = P[n]
  BY DEF Extra
<1>2. S2[m] = c /\ (\A k \in 1 .. l : S2[k] = S[k]) /\ \A k : k \in 1 .. m <=> k \in 1 .. l \/ k = m
  BY <1>1 DEF Extra
<1>3. c.start \in Int /\ c.end \in Int /\ c.start < c.end /\ c.entity_type = "person"
  BY <1>1 DEF Names, Proper
<1>4. \A k \in 1 .. l : /\ S[k].start \in Int /\ S[k].end \in Int /\ S[k].start < S[k].end
                         /\ S[k].entity_type = "person"
  BY <1>1 DEF StubInv, Proper
<1>5. ASSUME NEW i \in Int PROVE Among(P, n, i) <=> Shown(S2, "person", i)
  <2>1. Among(P, n, i) <=> Among(P, p, i) \/ Holds(c, i)
    BY <1>1, AmongNext
  <2>2. Shown(S2, "person", i) <=> Shown(S, "person", i) \/ (c.entity_type = "person" /\ Holds(c, i))
    BY <1>1, ShownAdds
  <2>3. Among(P, p, i) <=> Shown(S, "person", i)
    BY DEF StubInv
  <2> QED BY <1>3, <2>1, <2>2, <2>3
<1>6. Proper(S2) /\ \A k \in 1 .. Len(S2) : S2[k].entity_type = "person"
  <2>1. ASSUME NEW k \in 1 .. m
        PROVE  /\ S2[k].start \in Int /\ S2[k].end \in Int /\ S2[k].start < S2[k].end
               /\ S2[k].entity_type = "person"
    <3>1. CASE k = m
      BY <1>2, <1>3, <3>1
    <3>2. CASE k \in 1 .. l
      BY <1>2, <1>4, <3>2
    <3> QED BY <1>2, <3>1, <3>2
  <2> QED BY <1>1, <2>1 DEF Proper
<1>7. ASSUME NEW k \in 1 .. l PROVE S[k].end <= c.start
  <2>1. l \in 1 .. l /\ S[l].end <= c.start
    BY <1>1
  <2>2. CASE k = l
    BY <2>1, <2>2
  <2>3. CASE k # l
    <3>1. S[k].end <= S[l].start
      BY <1>1, <2>1, <2>3 DEF StubInv, Rising
    <3>2. PICK u, v, w, x : u = S[k].end /\ v = S[l].start /\ w = S[l].end /\ x = c.start
      OBVIOUS
    <3>3. u \in Int /\ v \in Int /\ w \in Int /\ x \in Int /\ u <= v /\ v < w /\ w <= x
      BY <1>3, <1>4, <2>1, <3>1, <3>2
    <3>4. u <= x
      BY <3>3
    <3> QED BY <3>2, <3>4
  <2> QED BY <2>2, <2>3
<1>8. Rising(S2)
  <2> SUFFICES ASSUME NEW j \in 1 .. m, NEW k \in 1 .. m, j < k PROVE S2[j].end <= S2[k].start
    BY <1>1 DEF Rising
  <2>1. j \in 1 .. l /\ S2[j] = S[j]
    BY <1>1, <1>2
  <2>2. CASE k = m
    BY <1>2, <1>7, <2>1, <2>2
  <2>3. CASE k \in 1 .. l
    BY <1>1, <1>2, <2>1, <2>3 DEF StubInv, Rising
  <2> QED BY <1>2, <2>2, <2>3
<1>9. \E j \in 1 .. n : S2[Len(S2)].start = P[j].start
  <2>1. n \in 1 .. n
    OBVIOUS
  <2> QED BY <1>1, <1>2, <2>1
<1>10. Len(S2) \in Nat
  BY <1>1
<1> QED BY <1>5, <1>6, <1>8, <1>9, <1>10 DEF StubInv

LEMMA NameInside ==
  ASSUME NEW P, Names(P), NEW p \in Nat, NEW n \in 1 .. Len(P), n = p + 1, NEW S, StubInv(P, p, S),
         Len(S) # 0, P[n].end <= S[Len(S)].end
  PROVE  StubInv(P, n, S)
<1>1. PICK l, c, d : l = Len(S) /\ l \in 1 .. l /\ c = P[n] /\ d = S[l]
  BY DEF StubInv
<1>2. PICK a, b, s, e : a = d.start /\ b = d.end /\ s = c.start /\ e = c.end
  OBVIOUS
<1>3. a \in Int /\ b \in Int /\ s \in Int /\ e \in Int
  BY <1>1, <1>2 DEF StubInv, Names, Proper
<1>4. a <= s /\ e <= b
  BY <1>1, <1>2, LastBegins
<1>5. ASSUME NEW i \in Int PROVE Among(P, n, i) <=> Shown(S, "person", i)
  <2>1. Among(P, n, i) <=> Among(P, p, i) \/ Holds(c, i)
    BY <1>1, AmongNext
  <2>2. Among(P, p, i) <=> Shown(S, "person", i)
    BY DEF StubInv
  <2>3. ASSUME Holds(c, i) PROVE Shown(S, "person", i)
    <3>1. s < i /\ i <= e
      BY <1>2, <2>3 DEF Holds
    <3>2. a < i /\ i <= b
      BY <1>3, <1>4, <3>1
    <3>3. Holds(d, i) /\ d.entity_type = "person"
      BY <1>1, <1>2, <3>2 DEF Holds, StubInv
    <3> QED BY <1>1, <3>3 DEF Shown
  <2> QED BY <2>1, <2>2, <2>3
<1>6. \E j \in 1 .. n : S[Len(S)].start = P[j].start
  <2>1. \A j : j \in 1 .. p => j \in 1 .. n
    OBVIOUS
  <2> QED BY <2>1 DEF StubInv
<1> QED BY <1>5, <1>6 DEF StubInv

LEMMA NameUnited ==
  ASSUME NEW P, Names(P), NEW p \in Nat, NEW n \in 1 .. Len(P), n = p + 1, NEW S, StubInv(P, p, S),
         NEW d, NEW d2, NEW e, e = P[n].end, P[n].start < d.end, d.end < e,
         NEW S2, Grows(S, S2, d, d2, e)
  PROVE  StubInv(P, n, S2)
<1>1. PICK l, c : l = Len(S) /\ l = Len(S2) /\ l \in Nat /\ l # 0 /\ c = P[n]
  BY DEF Grows
<1>2. l \in 1 .. l /\ S[l] = d /\ S2[l] = d2 /\ \A k \in 1 .. l : k # l => S2[k] = S[k]
  BY <1>1 DEF Grows
<1>3. PICK a, b, s : a = d.start /\ b = d.end /\ s = c.start
  OBVIOUS
<1>4. a \in Int /\ b \in Int /\ s \in Int /\ e \in Int /\ a < b /\ b < e /\ s < b /\ d.entity_type = "person"
  BY <1>1, <1>2, <1>3 DEF StubInv, Names, Proper
<1>5. a <= s
  BY <1>1, <1>2, <1>3, LastBegins
<1>6. d2.start = a /\ d2.end = e /\ d2.entity_type = "person"
  BY <1>3, <1>4 DEF Grows
<1>7. ASSUME NEW i \in Int PROVE Among(P, n, i) <=> Shown(S2, "person", i)
  <2>1. Among(P, n, i) <=> Among(P, p, i) \/ (s < i /\ i <= e)
    <3>1. Holds(P[n], i) <=> s < i /\ i <= e
      BY <1>1, <1>3 DEF Holds
    <3> QED BY <3>1, AmongNext
  <2>2. Shown(S2, "person", i) <=> Shown(S, "person", i) \/ (b < i /\ i <= e)
    <3>1. Proper(S) /\ d.end <= e
      BY <1>3, <1>4 DEF StubInv
    <3>2. PICK T : T = "person"
      OBVIOUS
    <3>3. Shown(S2, T, i) <=> Shown(S, T, i) \/ (d.entity_type = T /\ d.end < i /\ i <= e)
      BY <1>4, <3>1, ShownGrows
    <3> QED BY <1>3, <1>4, <3>2, <3>3
  <2>3. Among(P, p, i) <=> Shown(S, "person", i)
    BY DEF StubInv
  <2>4. ASSUME a < i, i <= b PROVE Shown(S, "person", i)
    <3>1. Holds(d, i)
      BY <1>3, <2>4 DEF Holds
    <3> QED BY <1>1, <1>2, <1>4, <3>1 DEF Shown
  <2> QED BY <1>4, <1>5, <2>1, <2>2, <2>3, <2>4
<1>8. Proper(S2) /\ \A k \in 1 .. Len(S2) : S2[k].entity_type = "person"
  <2>1. \A k \in 1 .. l : /\ S[k].start \in Int /\ S[k].end \in Int /\ S[k].start < S[k].end
                           /\ S[k].entity_type = "person"
    BY <1>1 DEF StubInv, Proper
  <2>2. a < e
    BY <1>4
  <2> QED BY <1>1, <1>2, <1>4, <1>6, <2>1, <2>2 DEF Proper
<1>9. Rising(S2)
  <2> SUFFICES ASSUME NEW j \in 1 .. l, NEW k \in 1 .. l, j < k PROVE S2[j].end <= S2[k].start
    BY <1>1 DEF Rising
  <2>1. S2[j] = S[j] /\ S2[k].start = S[k].start
    <3>1. j # l
      BY <1>1
    <3> QED BY <1>2, <1>3, <1>6, <3>1
  <2> QED BY <1>1, <2>1 DEF StubInv, Rising
<1>10. \E j \in 1 .. n : S2[Len(S2)].start = P[j].start
  <2>1. \A j : j \in 1 .. p => j \in 1 .. n
    OBVIOUS
  <2>2. S2[Len(S2)].start = S[Len(S)].start
    BY <1>1, <1>2, <1>3, <1>6
  <2>3. \E j \in 1 .. p : S[Len(S)].start = P[j].start
    BY <1>1 DEF StubInv
  <2> QED BY <2>1, <2>2, <2>3
<1> QED BY <1>1, <1>7, <1>8, <1>9, <1>10 DEF StubInv

LEMMA AsSpansAre ==
  ASSUME NEW text, NEW out \in Seq(SpansIn(text)), NEW S, S = AsSpans(out)
  PROVE  /\ Len(S) = Len(out) /\ Len(S) \in Nat /\ \A k \in 1 .. Len(out) : S[k] = AsSpan(out[k])
         /\ Proper(S) /\ \A k \in 1 .. Len(S) : S[k].entity_type = "person"
<1>1. PICK l : l = Len(out) /\ l \in Nat /\ DOMAIN out = 1 .. l
  OBVIOUS
<1>2. S = [k \in 1 .. l |-> AsSpan(out[k])]
  BY <1>1 DEF AsSpans
<1>3. Len(S) = l /\ \A k \in 1 .. l : S[k] = AsSpan(out[k])
  BY <1>1, <1>2
<1>4. ASSUME NEW k \in 1 .. l
      PROVE  /\ S[k].start \in Int /\ S[k].end \in Int /\ S[k].start < S[k].end
             /\ S[k].entity_type = "person"
  <2>1. PICK q \in SpansIn(text) : q = out[k]
    BY <1>1
  <2>2. q[1] \in Int /\ q[2] \in Int /\ q[1] < q[2]
    BY DEF SpansIn
  <2>3. S[k].start = q[1] /\ S[k].end = q[2] /\ S[k].entity_type = "person"
    BY <1>3, <2>1 DEF AsSpan
  <2> QED BY <2>2, <2>3
<1> QED BY <1>1, <1>3, <1>4 DEF Proper

\* What a name does to the spans so far.
Unites(c, S, S2) ==
  \/ (Len(S) # 0 => S[Len(S)].end <= c.start) /\ Extra(S, S2, c)
  \/ Len(S) # 0 /\ c.end <= S[Len(S)].end /\ S2 = S
  \/ \E d, d2 : c.start < d.end /\ d.end < c.end /\ Grows(S, S2, d, d2, c.end)

LEMMA UniteMoves ==
  ASSUME NEW text, NEW out \in Seq(SpansIn(text)), NEW q \in SpansIn(text), NEW out2, out2 = Unite(out, q),
         NEW S, S = AsSpans(out), NEW S2, S2 = AsSpans(out2), NEW c, c = AsSpan(q)
  PROVE  Unites(c, S, S2)
<1>1. PICK l : l = Len(out) /\ l \in Nat
  OBVIOUS
<1>2. Len(S) = l /\ \A k \in 1 .. l : S[k] = AsSpan(out[k])
  BY <1>1, AsSpansAre
<1>3. out2 \in Seq(SpansIn(text))
  BY UniteKeepsSpans
<1>4. Len(S2) = Len(out2) /\ \A k \in 1 .. Len(out2) : S2[k] = AsSpan(out2[k])
  BY <1>3, AsSpansAre
<1>5. PICK a, b : a = q[1] /\ b = q[2] /\ a \in Int /\ b \in Int /\ c.start = a /\ c.end = b
  BY DEF AsSpan, SpansIn
<1>6. PICK g : g = out[l]
  OBVIOUS
<1>7. ASSUME l # 0 PROVE /\ l \in 1 .. l /\ g \in SpansIn(text) /\ g[1] \in Int /\ g[2] \in Int
                         /\ S[l].start = g[1] /\ S[l].end = g[2] /\ S[l] = AsSpan(g)
  <2>1. l \in 1 .. l
    BY <1>1, <1>7
  <2>2. g \in SpansIn(text)
    BY <1>1, <1>6, <2>1
  <2>3. S[l] = AsSpan(g)
    BY <1>2, <1>6, <2>1
  <2> QED BY <2>1, <2>2, <2>3 DEF AsSpan, SpansIn
<1>8. Last(out) = g /\ (out = <<>> <=> l = 0)
  BY <1>1, <1>6, EmptySeq DEF Last
<1>9. CASE out = <<>> \/ a >= g[2]
  <2>1. out2 = Append(out, q)
    BY <1>5, <1>8, <1>9 DEF Unite
  <2>2. Len(out2) = l + 1 /\ out2[l + 1] = q /\ \A k \in 1 .. l : out2[k] = out[k]
    BY <1>1, <2>1, AppendProperties
  <2>3. PICK m : m = l + 1 /\ m \in 1 .. m /\ \A k : k \in 1 .. l => k \in 1 .. m
    BY <1>1
  <2>4. Len(S2) = m /\ S2[m] = c /\ \A k \in 1 .. l : S2[k] = S[k]
    BY <1>2, <1>4, <2>2, <2>3
  <2>5. Extra(S, S2, c)
    BY <1>1, <1>2, <2>3, <2>4 DEF Extra
  <2>6. Len(S) # 0 => S[Len(S)].end <= c.start
    BY <1>2, <1>5, <1>7, <1>8, <1>9
  <2> QED BY <2>5, <2>6 DEF Unites
<1>10. CASE ~(out = <<>> \/ a >= g[2]) /\ b > g[2]
  <2>1. out2 = [out EXCEPT ![l] = <<g[1], b>>]
    BY <1>1, <1>5, <1>6, <1>8, <1>10 DEF Unite
  <2>2. l # 0
    BY <1>8, <1>10
  <2>3. Len(out2) = l /\ out2[l] = <<g[1], b>> /\ \A k \in 1 .. l : k # l => out2[k] = out[k]
    BY <1>1, <1>7, <2>1, <2>2
  <2>4. PICK d, d2 : d = AsSpan(g) /\ d2 = AsSpan(<<g[1], b>>)
    OBVIOUS
  <2>5. d.start = g[1] /\ d.end = g[2] /\ d.entity_type = "person"
    BY <2>4 DEF AsSpan
  <2>6. d2.start = g[1] /\ d2.end = b /\ d2.entity_type = "person"
    BY <2>4 DEF AsSpan
  <2>7. /\ Len(S2) = l /\ S[l] = d /\ S2[l] = d2 /\ \A k \in 1 .. l : k # l => S2[k] = S[k]
    BY <1>2, <1>4, <1>7, <2>2, <2>3, <2>4
  <2>8. Grows(S, S2, d, d2, c.end)
    BY <1>1, <1>2, <1>5, <2>2, <2>5, <2>6, <2>7 DEF Grows
  <2>9. c.start < d.end /\ d.end < c.end
    BY <1>5, <1>7, <1>10, <2>2, <2>5
  <2> QED BY <2>8, <2>9 DEF Unites
<1>11. CASE ~(out = <<>> \/ a >= g[2]) /\ ~(b > g[2])
  <2>1. out2 = out
    BY <1>5, <1>8, <1>11 DEF Unite
  <2>2. l # 0
    BY <1>8, <1>11
  <2>3. c.end <= S[l].end
    BY <1>5, <1>7, <1>11, <2>2
  <2> QED BY <1>2, <2>1, <2>2, <2>3 DEF Unites
<1> QED BY <1>9, <1>10, <1>11

LEMMA StubKeeps ==
  ASSUME NEW text, NEW names \in Seq(SpansIn(text)), NEW spans, spans = _merge_overlapping(names),
         NEW S, S = AsSpans(spans)
  PROVE  /\ \A i \in Int : Shown(S, "person", i) <=> \E j \in 1 .. Len(names) : Holds(AsSpan(names[j]), i)
         /\ Rising(S) /\ Proper(S) /\ spans \in Seq(SpansIn(text))
<1>1. PICK s, P : s = SortedSpans(names) /\ P = AsSpans(s)
  OBVIOUS
<1>2. s \in Seq(SpansIn(text)) /\ Sorts(s, names)
  BY <1>1, SortedAreSpans
<1>3. PICK m : m = Len(s) /\ m = Len(P) /\ m \in Nat /\ \A k \in 1 .. m : P[k] = AsSpan(s[k])
  BY <1>1, <1>2, AsSpansAre
<1>4. Names(P)
  <2>1. Proper(P) /\ \A j \in 1 .. Len(P) : P[j].entity_type = "person"
    BY <1>1, <1>2, AsSpansAre
  <2>2. \A j \in 1 .. m : P[j].start = s[j][1]
    <3>1. \A q : AsSpan(q).start = q[1]
      BY DEF AsSpan
    <3> QED BY <1>3, <3>1
  <2>3. \A j, k \in 1 .. m : j < k => P[j].start <= P[k].start
    BY <1>2, <1>3, <2>2 DEF Sorts
  <2> QED BY <1>3, <2>1, <2>3 DEF Names
<1>5. PICK state : UniteRun(state, text, s) /\ spans = state[Len(s)]
  BY <1>1, MergedByRun
<1> DEFINE Good(n) == StubInv(P, n, AsSpans(state[n]))
           G == {n \in 0 .. m : Good(n)}
<1>6. Good(0)
  <2>1. PICK Q : Q = AsSpans(state[0])
    OBVIOUS
  <2>2. Len(Q) = 0
    BY <1>5, <2>1 DEF UniteRun, AsSpans
  <2>3. (\A k : k \notin 1 .. Len(Q)) /\ \A j : j \notin 1 .. 0
    BY <2>2
  <2>4. Rising(Q) /\ Proper(Q)
    BY <2>3 DEF Rising, Proper
  <2>5. \A i : ~Among(P, 0, i) /\ ~Shown(Q, "person", i)
    BY <2>3 DEF Among, Shown
  <2> QED BY <2>1, <2>2, <2>3, <2>4, <2>5 DEF StubInv
<1>7. ASSUME NEW n \in 1 .. m, Good(n - 1) PROVE Good(n)
  <2>1. PICK p, o, o2, Q, R, c : /\ p = n - 1 /\ o = state[p] /\ o2 = state[n]
                                 /\ Q = AsSpans(o) /\ R = AsSpans(o2) /\ c = P[n]
    OBVIOUS
  <2>2. p \in Nat /\ n = p + 1 /\ n \in 1 .. Len(P) /\ p \in 0 .. Len(s)
    BY <1>3, <2>1
  <2>3. o \in Seq(SpansIn(text)) /\ o2 = Unite(o, s[n]) /\ s[n] \in SpansIn(text) /\ c = AsSpan(s[n])
    <3>1. o \in Seq(SpansIn(text))
      BY <1>5, <2>1, <2>2 DEF UniteRun
    <3>2. o2 = Unite(o, s[n])
      <4>1. \A k \in 1 .. m : state[k] = Unite(state[k - 1], s[k])
        BY <1>3, <1>5 DEF UniteRun
      <4>2. state[n] = Unite(state[n - 1], s[n])
        BY <4>1, Zenon
      <4> QED BY <2>1, <4>2
    <3>3. s[n] \in SpansIn(text)
      <4>1. n \in 1 .. Len(s)
        BY <1>3
      <4> QED BY <1>2, <4>1
    <3>4. c = AsSpan(s[n])
      <4>1. P[n] = AsSpan(s[n])
        BY <1>3, Zenon
      <4> QED BY <2>1, <4>1
    <3> QED BY <3>1, <3>2, <3>3, <3>4
  <2>4. StubInv(P, p, Q)
    BY <1>7, <2>1
  <2>5. Unites(c, Q, R)
    BY <2>1, <2>3, UniteMoves
  <2>6. StubInv(P, n, R)
    <3>1. CASE (Len(Q) # 0 => Q[Len(Q)].end <= c.start) /\ Extra(Q, R, c)
      BY <1>4, <2>1, <2>2, <2>4, <3>1, NameAdded
    <3>2. CASE Len(Q) # 0 /\ c.end <= Q[Len(Q)].end /\ R = Q
      BY <1>4, <2>1, <2>2, <2>4, <3>2, NameInside
    <3>3. CASE \E d, d2 : c.start < d.end /\ d.end < c.end /\ Grows(Q, R, d, d2, c.end)
      <4>1. PICK d, d2, e : e = c.end /\ c.start < d.end /\ d.end < e /\ Grows(Q, R, d, d2, e)
        BY <3>3
      <4>2. e = P[n].end /\ P[n].start < d.end
        BY <2>1, <4>1
      <4> QED BY <1>4, <2>2, <2>4, <4>1, <4>2, NameUnited
    <3> QED BY <2>5, <3>1, <3>2, <3>3 DEF Unites
  <2> QED BY <2>1, <2>6
<1> HIDE DEF Good
<1>8. m \in G
  <2>1. 0 \in G
    BY <1>3, <1>6
  <2>2. ASSUME NEW n \in 1 .. m, n - 1 \in G PROVE n \in G
    BY <1>3, <1>7, <2>2
  <2> HIDE DEF G
  <2> QED BY <1>3, <2>1, <2>2, UpTo
<1>9. StubInv(P, m, S)
  BY <1>3, <1>5, <1>8 DEF Good
<1>10. ASSUME NEW i \in Int
       PROVE  Shown(S, "person", i) <=> \E j \in 1 .. Len(names) : Holds(AsSpan(names[j]), i)
  <2>1. Shown(S, "person", i) <=> \E k \in 1 .. m : Holds(P[k], i)
    BY <1>9 DEF StubInv, Among
  <2>2. ASSUME NEW k \in 1 .. m PROVE \E j \in 1 .. Len(names) : P[k] = AsSpan(names[j])
    BY <1>2, <1>3 DEF Sorts
  <2>3. ASSUME NEW j \in 1 .. Len(names) PROVE \E k \in 1 .. m : P[k] = AsSpan(names[j])
    BY <1>2, <1>3 DEF Sorts
  <2> QED BY <2>1, <2>2, <2>3
<1>11. spans \in Seq(SpansIn(text))
  BY MergedAreSpans
<1> QED BY <1>9, <1>10, <1>11 DEF StubInv

-----------------------------------------------------------------------------
(* What detector B reports of what its engine labelled. *)

SameSpans(N, S) ==
  /\ Len(N) = Len(S) /\ Len(S) \in Nat
  /\ \A k \in 1 .. Len(S) : /\ N[k].start = S[k].start /\ N[k].end = S[k].end
                            /\ N[k].entity_type = S[k].entity_type /\ N[k].detector = "ner"

LEMMA SameShown ==
  ASSUME NEW N, NEW S, SameSpans(N, S)
  PROVE  /\ \A T, i : Shown(N, T, i) <=> Shown(S, T, i)
         /\ Rising(S) => Rising(N)
         /\ Proper(S) => Proper(N)
<1>1. PICK l : l = Len(N) /\ l = Len(S) /\ l \in Nat
  BY DEF SameSpans
<1>2. \A k \in 1 .. l : N[k].start = S[k].start /\ N[k].end = S[k].end /\ N[k].entity_type = S[k].entity_type
  BY <1>1 DEF SameSpans
<1>3. ASSUME NEW T, NEW i PROVE Shown(N, T, i) <=> Shown(S, T, i)
  <2>1. \A k \in 1 .. l : Holds(N[k], i) <=> Holds(S[k], i)
    BY <1>2 DEF Holds
  <2> QED BY <1>1, <1>2, <2>1 DEF Shown
<1>4. Rising(S) => Rising(N)
  BY <1>1, <1>2 DEF Rising
<1>5. Proper(S) => Proper(N)
  BY <1>1, <1>2 DEF Proper
<1> QED BY <1>3, <1>4, <1>5

\* A place is a label's, and one of a type's.
Within(l, i) == l[1][1] < i /\ i <= l[1][2]
MarkedBy(L, T, i) == \E l \in L : l[2] = T /\ Within(l, i)
Nobodys(L, i) == \A l \in L : ~Within(l, i)

KeptPlaces(N, L) ==
  /\ \A T \in Labels, i \in Int :
       /\ MarkedBy(L, T, i) => Shown(N, T, i)
       /\ Shown(N, T, i) => \/ MarkedBy(L, T, i)
                            \/ MarkedBy(L, T, i - 1) /\ MarkedBy(L, T, i + 1) /\ Nobodys(L, i)
  /\ Rising(N) /\ Proper(N) /\ Len(N) \in Nat
  /\ \A k \in 1 .. Len(N) : N[k].detector = "ner"

LabelledOf(ner) ==
  CASE ner.backend = "stub" -> {<<n, "person">> : n \in ToSet(ner.names)}
    [] ner.backend = "onnx" ->
         {<<<<t.start, t.end>>, EntityOf(t.label)>> : t \in {u \in ToSet(ner.tokens) : u.end # 0}}
    [] OTHER -> {}

NameLabel(q) == <<q, "person">>
LabelOf(t) == <<<<t.start, t.end>>, EntityOf(t.label)>>

LEMMA LabelsHold ==
  /\ \A q, i : NameLabel(q)[2] = "person" /\ (Within(NameLabel(q), i) <=> Holds(AsSpan(q), i))
  /\ \A t, i : LabelOf(t)[2] = EntityOf(t.label) /\ (Within(LabelOf(t), i) <=> Holds(t, i))
BY DEF NameLabel, LabelOf, Within, Holds, AsSpan

LEMMA ConstructGives ==
  ASSUME NEW ds, ~Construct(ds).raised
  PROVE  Construct(ds).detections = ds
BY DEF Construct, Found, Failed

LEMMA StubSays ==
  ASSUME NEW text, Len(text) \in Nat, NEW names \in Seq(SpansIn(text)), NEW N,
         N = stub_detect(text, names).detections, NEW L, L = {<<n, "person">> : n \in ToSet(names)}
  PROVE  KeptPlaces(N, L)
<1>1. PICK spans, S, ds :
        /\ spans = _merge_overlapping(names) /\ S = AsSpans(spans)
        /\ ds = [k \in DOMAIN spans |-> Detection(text, "person", spans[k], 85, 2, "ner", "ner.stub.person")]
  OBVIOUS
<1>2. N = ds
  <2>1. stub_detect(text, names) = Construct(ds)
    BY <1>1 DEF stub_detect
  <2>2. ~stub_detect(text, names).raised
    BY StubSound
  <2> QED BY <2>1, <2>2, ConstructGives
<1>3. /\ \A i \in Int : Shown(S, "person", i) <=> \E j \in 1 .. Len(names) : Holds(AsSpan(names[j]), i)
      /\ Rising(S) /\ Proper(S) /\ spans \in Seq(SpansIn(text))
  BY <1>1, StubKeeps
<1>4. PICK l : l = Len(spans) /\ l \in Nat /\ DOMAIN spans = 1 .. l
  BY <1>3
<1>5. /\ Len(S) = l /\ \A k \in 1 .. l : S[k] = AsSpan(spans[k])
      /\ \A k \in 1 .. Len(S) : S[k].entity_type = "person"
  BY <1>1, <1>3, <1>4, AsSpansAre
<1>6. SameSpans(N, S)
  <2>1. N = [k \in 1 .. l |-> Detection(text, "person", spans[k], 85, 2, "ner", "ner.stub.person")]
    BY <1>1, <1>2, <1>4
  <2>2. Len(N) = l
    BY <1>4, <2>1
  <2>3. ASSUME NEW k \in 1 .. l
        PROVE  /\ N[k].start = S[k].start /\ N[k].end = S[k].end
               /\ N[k].entity_type = S[k].entity_type /\ N[k].detector = "ner"
    <3>1. PICK q : q = spans[k]
      OBVIOUS
    <3>2. N[k] = Detection(text, "person", q, 85, 2, "ner", "ner.stub.person") /\ S[k] = AsSpan(q)
      BY <1>5, <2>1, <3>1
    <3> QED BY <3>2 DEF Detection, AsSpan
  <2> QED BY <1>4, <1>5, <2>2, <2>3 DEF SameSpans
<1>7. ASSUME NEW T \in Labels, NEW i \in Int PROVE MarkedBy(L, T, i) <=> Shown(N, T, i)
  <2>1. Shown(N, T, i) <=> Shown(S, T, i)
    BY <1>6, SameShown
  <2>2. MarkedBy(L, T, i) <=> T = "person" /\ \E j \in 1 .. Len(names) : Holds(AsSpan(names[j]), i)
    <3>1. ToSet(names) = {names[j] : j \in 1 .. Len(names)}
      BY DEF ToSet
    <3>2. \A lab : lab \in L <=> \E q \in ToSet(names) : lab = NameLabel(q)
      BY DEF NameLabel
    <3>3. MarkedBy(L, T, i) <=> \E q \in ToSet(names) : NameLabel(q)[2] = T /\ Within(NameLabel(q), i)
      BY <3>2 DEF MarkedBy
    <3>4. MarkedBy(L, T, i) <=> \E q \in ToSet(names) : "person" = T /\ Holds(AsSpan(q), i)
      BY <3>3, LabelsHold
    <3> QED BY <3>1, <3>4
  <2>3. CASE T = "person"
    BY <1>3, <2>1, <2>2, <2>3
  <2>4. CASE T # "person"
    <3>1. ~Shown(S, T, i)
      BY <1>5, <2>4 DEF Shown
    <3> QED BY <2>1, <2>2, <2>4, <3>1
  <2> QED BY <2>3, <2>4
<1>8. Rising(N) /\ Proper(N)
  BY <1>3, <1>6, SameShown
<1>9. Len(N) \in Nat /\ \A k \in 1 .. Len(N) : N[k].detector = "ner"
  BY <1>6 DEF SameSpans
<1> QED BY <1>7, <1>8, <1>9 DEF KeptPlaces

LEMMA OnnxSays ==
  ASSUME NEW text, Len(text) \in Nat, NEW tokens \in Seq(TokenOf(text)), Row(tokens), Ordered(tokens), NEW N,
         N = onnx_detect(text, tokens).detections,
         NEW L, L = {<<<<t.start, t.end>>, EntityOf(t.label)>> : t \in {u \in ToSet(tokens) : u.end # 0}}
  PROVE  KeptPlaces(N, L)
<1>1. PICK state : /\ OnnxRun(state, text, tokens)
                   /\ Loop(Token, [spans |-> <<>>, cur |-> Null], tokens) = state[Len(tokens)]
  BY TokenRun
<1> DEFINE made(p) == Detection(text, p.entity_type, <<p.start, p.end>>, 90, 2, "ner", RuleOf[p.entity_type])
<1>2. PICK S, ds : S = Flush(state[Len(tokens)]) /\ ds = [k \in DOMAIN S |-> made(S[k])]
  OBVIOUS
<1>3. N = ds
  <2>1. onnx_detect(text, tokens) = Construct(ds)
    BY <1>1, <1>2 DEF onnx_detect
  <2>2. ~onnx_detect(text, tokens).raised
    BY OnnxSound
  <2> QED BY <2>1, <2>2, ConstructGives
<1>4. S \in Seq(LabelledSpan(text)) /\ Traces(tokens, Len(tokens), S) /\ Rising(S) /\ Proper(S)
  BY <1>1, <1>2, OnnxKeeps
<1>5. PICK l : l = Len(S) /\ l \in Nat /\ DOMAIN S = 1 .. l
  BY <1>4
<1>6. SameSpans(N, S)
  <2>1. N = [k \in 1 .. l |-> made(S[k])]
    BY <1>2, <1>3, <1>5
  <2>2. \A p : /\ made(p).start = p.start /\ made(p).end = p.end
               /\ made(p).entity_type = p.entity_type /\ made(p).detector = "ner"
    BY DEF Detection
  <2> HIDE DEF made
  <2>3. Len(N) = l /\ \A k \in 1 .. l : N[k] = made(S[k])
    BY <1>5, <2>1
  <2> QED BY <1>5, <2>2, <2>3 DEF SameSpans
<1>a. \A lab : lab \in L <=> \E u \in ToSet(tokens) : Real(u) /\ lab = LabelOf(u)
  BY DEF Real, LabelOf
<1>7. \A T, i : MarkedBy(L, T, i) <=> Marked(tokens, Len(tokens), T, i)
  <2> SUFFICES ASSUME NEW T, NEW i PROVE MarkedBy(L, T, i) <=> Marked(tokens, Len(tokens), T, i)
    OBVIOUS
  <2>1. MarkedBy(L, T, i) <=> \E u \in ToSet(tokens) : Real(u) /\ EntityOf(u.label) = T /\ Holds(u, i)
    <3>1. MarkedBy(L, T, i) <=> \E u \in ToSet(tokens) : Real(u) /\ LabelOf(u)[2] = T /\ Within(LabelOf(u), i)
      BY <1>a DEF MarkedBy
    <3> QED BY <3>1, LabelsHold
  <2>2. ToSet(tokens) = {tokens[j] : j \in 1 .. Len(tokens)}
    BY DEF ToSet
  <2> QED BY <2>1, <2>2 DEF Marked
<1>8. \A i : Free(tokens, i) => Nobodys(L, i)
  <2> SUFFICES ASSUME NEW i, Free(tokens, i) PROVE Nobodys(L, i)
    OBVIOUS
  <2>1. Nobodys(L, i) <=> \A u \in ToSet(tokens) : Real(u) => ~Holds(u, i)
    <3>1. Nobodys(L, i) <=> \A u \in ToSet(tokens) : Real(u) => ~Within(LabelOf(u), i)
      BY <1>a DEF Nobodys
    <3> QED BY <3>1, LabelsHold
  <2>2. ToSet(tokens) = {tokens[j] : j \in 1 .. Len(tokens)}
    BY DEF ToSet
  <2> QED BY <2>1, <2>2 DEF Free
<1>9. ASSUME NEW T \in Labels, NEW i \in Int
      PROVE  /\ MarkedBy(L, T, i) => Shown(N, T, i)
             /\ Shown(N, T, i) => \/ MarkedBy(L, T, i)
                                  \/ MarkedBy(L, T, i - 1) /\ MarkedBy(L, T, i + 1) /\ Nobodys(L, i)
  <2>1. Shown(N, T, i) <=> Shown(S, T, i)
    BY <1>6, SameShown
  <2>2. /\ Marked(tokens, Len(tokens), T, i) => Shown(S, T, i)
        /\ Shown(S, T, i) => Marked(tokens, Len(tokens), T, i) \/ Gap(tokens, Len(tokens), T, i)
    BY <1>4 DEF Traces
  <2>3. Gap(tokens, Len(tokens), T, i) => MarkedBy(L, T, i - 1) /\ MarkedBy(L, T, i + 1) /\ Nobodys(L, i)
    BY <1>7, <1>8 DEF Gap
  <2> QED BY <1>7, <2>1, <2>2, <2>3
<1>10. Rising(N) /\ Proper(N)
  BY <1>4, <1>6, SameShown
<1>11. Len(N) \in Nat /\ \A k \in 1 .. Len(N) : N[k].detector = "ner"
  BY <1>6 DEF SameSpans
<1> QED BY <1>9, <1>10, <1>11 DEF KeptPlaces

LEMMA NothingKept == KeptPlaces(<<>>, {})
<1>1. PICK N, L : N = <<>> /\ L = {} /\ Len(N) = 0
  OBVIOUS
<1>2. \A k : k \notin 1 .. Len(N)
  BY <1>1
<1>3. \A T, i : ~Shown(N, T, i) /\ ~MarkedBy(L, T, i)
  BY <1>1, <1>2 DEF Shown, MarkedBy
<1>4. Rising(N) /\ Proper(N) /\ Len(N) \in Nat /\ \A k \in 1 .. Len(N) : N[k].detector = "ner"
  BY <1>1, <1>2 DEF Rising, Proper
<1>5. KeptPlaces(N, L)
  BY <1>3, <1>4 DEF KeptPlaces
<1> QED BY <1>1, <1>5

LEMMA NerSays ==
  ASSUME TokensApart, NEW q \in Input, NEW N, N = ner_detect(q.text, q.ner).detections,
         NEW L, L = LabelledOf(q.ner)
  PROVE  KeptPlaces(N, L)
<1>1. PICK text, names, tokens : text = q.text /\ names = q.ner.names /\ tokens = q.ner.tokens
  OBVIOUS
<1>2. /\ Len(text) \in Nat /\ names \in Seq(SpansIn(text)) /\ tokens \in Seq(TokenOf(text))
      /\ q.ner.backend \in {"stub", "onnx", "fails"}
  <2>1. /\ q.text \in Seq(Nat) /\ q.ner.names \in Seq(SpansIn(q.text))
        /\ q.ner.tokens \in Seq([label : Nat, start : Nat, end : 0 .. Len(q.text)])
        /\ q.ner.backend \in {"stub", "onnx", "fails"}
    BY InputAssumption
  <2> QED BY <1>1, <2>1 DEF TokenOf
<1>3. Ordered(tokens)
  BY <1>1, TokenAssumption DEF Ordered
<1>4. Row(tokens)
  <2>1. PICK m : m = Len(tokens) /\ m \in Nat /\ DOMAIN tokens = 1 .. m
    BY <1>2
  <2>2. \A j \in 1 .. m : tokens[j].start \in Int /\ tokens[j].end \in Int
    <3>1. \A t \in TokenOf(text) : t.start \in Int /\ t.end \in Int
      BY <1>2 DEF TokenOf
    <3>2. \A j \in 1 .. m : tokens[j] \in TokenOf(text)
      BY <1>2, <2>1
    <3> QED BY <3>1, <3>2
  <2>3. \A j \in 1 .. m : Real(tokens[j]) => tokens[j].start < tokens[j].end
    BY <1>3, <2>1 DEF Ordered, Real
  <2>4. \A j, k \in {n \in DOMAIN tokens : tokens[n].end # 0} : j < k => tokens[j].end <= tokens[k].start
    BY <1>1 DEF TokensApart
  <2>5. \A j, k \in 1 .. m : Real(tokens[j]) /\ Real(tokens[k]) /\ j < k => tokens[j].end <= tokens[k].start
    BY <2>1, <2>4 DEF Real
  <2> QED BY <2>1, <2>2, <2>3, <2>5 DEF Row
<1>5. CASE q.ner.backend = "stub"
  <2>1. N = stub_detect(text, names).detections
    BY <1>1, <1>5 DEF ner_detect
  <2>2. L = {<<n, "person">> : n \in ToSet(names)}
    BY <1>1, <1>5 DEF LabelledOf
  <2> QED BY <1>2, <2>1, <2>2, StubSays
<1>6. CASE q.ner.backend = "onnx"
  <2>1. N = onnx_detect(text, tokens).detections
    BY <1>1, <1>6 DEF ner_detect
  <2>2. L = {<<<<t.start, t.end>>, EntityOf(t.label)>> : t \in {u \in ToSet(tokens) : u.end # 0}}
    BY <1>1, <1>6 DEF LabelledOf
  <2> QED BY <1>2, <1>3, <1>4, <2>1, <2>2, OnnxSays
<1>7. CASE q.ner.backend = "fails"
  <2>1. N = <<>>
    BY <1>7 DEF ner_detect, Failed
  <2>2. L = {}
    BY <1>7 DEF LabelledOf
  <2> QED BY <2>1, <2>2, NothingKept
<1> QED BY <1>2, <1>5, <1>6, <1>7

-----------------------------------------------------------------------------
(* What detector B reported, in the middle of what was detected. *)

Middle(ds, N) ==
  \E Y, a, c : /\ a \in Seq(Y) /\ N \in Seq(Y) /\ c \in Seq(Y) /\ NotNer(a) /\ NotNer(c)
               /\ ds = a \o N \o c

NerInv ==
  /\ input \in Input
  /\ Detected => Middle(detections, ner_detect(Text, input.ner).detections)

LEMMA NerStep == NerInv /\ [Next]_vars => NerInv'
<1> SUFFICES ASSUME NerInv, [Next]_vars PROVE NerInv'
  OBVIOUS
<1>1. CASE Detect
  <2>1. input \in Input /\ input' = input /\ Text' = Text /\ Text = input.text
    BY <1>1 DEF Detect, NerInv, Text
  <2>2. PICK a, b, c : /\ a = structural_detect(Text, input.country, input.phones)
                       /\ b = ner_detect(Text, input.ner) /\ c = contextual_detect(Text, input.reply)
    OBVIOUS
  <2>3. Outcomes = <<a, b, c>>
    BY <2>2 DEF Outcomes
  <2>4. Quoting(Text, a.detections) /\ NotNer(a.detections)
    BY <2>1, <2>2, StructuralSound
  <2>5. Quoting(Text, b.detections)
    BY <2>1, <2>2, NerSound
  <2>6. Quoting(Text, c.detections) /\ NotNer(c.detections)
    BY <2>1, <2>2, ContextualSound
  <2>7. \/ stage' = "raised"
        \/ stage' = "merging" /\ detections' = a.detections \o b.detections \o c.detections
    BY <1>1, <2>3 DEF Detect
  <2>8. PICK A, N, C : A = a.detections /\ N = b.detections /\ C = c.detections
    OBVIOUS
  <2>9. PICK U, V, W : A \in Seq(U) /\ N \in Seq(V) /\ C \in Seq(W)
    BY <2>4, <2>5, <2>6, <2>8 DEF Quoting
  <2>10. PICK Y : Y = U \cup V \cup W
    OBVIOUS
  <2>11. A \in Seq(Y) /\ N \in Seq(Y) /\ C \in Seq(Y)
    BY <2>9, <2>10
  <2>12. stage' = "merging" => Middle(detections', N)
    BY <2>4, <2>6, <2>7, <2>8, <2>11 DEF Middle
  <2>13. Detected' => stage' = "merging"
    BY <2>7 DEF Detected
  <2> QED BY <2>1, <2>2, <2>8, <2>12, <2>13 DEF NerInv
<1>2. CASE Merge
  <2>1. input' = input /\ detections' = detections /\ Text' = Text /\ Detected
    BY <1>2 DEF Merge, Text, Detected
  <2> QED BY <2>1 DEF NerInv
<1>3. CASE UNCHANGED vars
  BY <1>3 DEF vars, NerInv, Detected, Text
<1> QED BY <1>1, <1>2, <1>3 DEF Next

\* The positions of detector B's detections of a type, and the list of them.
OfNer(ds, T) == {n \in DOMAIN ds : ds[n].detector = "ner" /\ ds[n].entity_type = T}

\* A list drawn, in order, from those of N that have the type T.
DrawsType(own, N, T, h) ==
  /\ Len(own) \in Nat
  /\ \A k \in 1 .. Len(own) : h[k] \in 1 .. Len(N) /\ own[k] = N[h[k]] /\ N[h[k]].entity_type = T
  /\ \A j \in 1 .. Len(N) : N[j].entity_type = T => \E k \in 1 .. Len(own) : h[k] = j
  /\ \A j, k \in 1 .. Len(own) : j < k => h[j] < h[k]

LEMMA OwnDrawn ==
  ASSUME NEW ds, NEW N, Middle(ds, N), \A k \in 1 .. Len(N) : N[k].detector = "ner", NEW T,
         NEW own, own = At(ds, OfNer(ds, T))
  PROVE  (\E Y : own \in Seq(Y)) /\ \E h : DrawsType(own, N, T, h)
<1>1. PICK Y, a, c : /\ a \in Seq(Y) /\ N \in Seq(Y) /\ c \in Seq(Y) /\ NotNer(a) /\ NotNer(c)
                     /\ ds = a \o N \o c
  BY DEF Middle
<1>2. PICK la, ln, lc, ab : la = Len(a) /\ ln = Len(N) /\ lc = Len(c) /\ ab = a \o N
  OBVIOUS
<1>3. la \in Nat /\ ln \in Nat /\ lc \in Nat /\ DOMAIN a = 1 .. la /\ DOMAIN c = 1 .. lc
  BY <1>1, <1>2
<1>4. /\ ab \in Seq(Y) /\ Len(ab) = la + ln
      /\ \A i \in 1 .. la + ln : ab[i] = IF i <= la THEN a[i] ELSE N[i - la]
  BY <1>1, <1>2, ConcatProperties
<1>5. ds = ab \o c
  BY <1>1, <1>2
<1>6. /\ ds \in Seq(Y) /\ Len(ds) = (la + ln) + lc
      /\ \A i \in 1 .. (la + ln) + lc : ds[i] = IF i <= la + ln THEN ab[i] ELSE c[i - (la + ln)]
  BY <1>1, <1>2, <1>4, <1>5, ConcatProperties
<1>7. ASSUME NEW x \in 1 .. Len(ds), ds[x].detector = "ner"
      PROVE  x - la \in 1 .. ln /\ ds[x] = N[x - la]
  <2>1. x \in 1 .. (la + ln) + lc
    BY <1>6
  <2>2. CASE x <= la
    <3>1. x \in 1 .. la /\ x \in 1 .. la + ln /\ x <= la + ln
      BY <1>3, <2>1, <2>2
    <3>2. ds[x] = a[x]
      BY <1>4, <1>6, <2>1, <2>2, <3>1
    <3> QED BY <1>1, <1>3, <1>7, <3>1, <3>2 DEF NotNer
  <2>3. CASE ~(x <= la + ln)
    <3>1. PICK y : y = x - (la + ln) /\ y \in 1 .. lc
      BY <1>3, <2>1, <2>3
    <3>2. ds[x] = c[y]
      BY <1>6, <2>1, <2>3, <3>1
    <3> QED BY <1>1, <1>3, <1>7, <3>1, <3>2 DEF NotNer
  <2>4. CASE ~(x <= la) /\ x <= la + ln
    <3>1. x \in 1 .. la + ln /\ x - la \in 1 .. ln
      BY <1>3, <2>1, <2>4
    <3> QED BY <1>4, <1>6, <2>1, <2>4, <3>1
  <2> QED BY <2>2, <2>3, <2>4
<1>8. ASSUME NEW j \in 1 .. ln PROVE j + la \in 1 .. Len(ds) /\ ds[j + la] = N[j]
  <2>1. PICK x : x = j + la
    OBVIOUS
  <2>2. x \in 1 .. (la + ln) + lc /\ x <= la + ln /\ ~(x <= la) /\ x - la = j /\ x \in 1 .. la + ln
    BY <1>3, <2>1
  <2>3. ds[x] = ab[x] /\ ab[x] = N[x - la]
    BY <1>4, <1>6, <2>2
  <2> QED BY <1>6, <2>1, <2>2, <2>3
<1>9. PICK I : I = OfNer(ds, T)
  OBVIOUS
<1>10. own = At(ds, I) /\ I \in SUBSET (1 .. Len(ds))
  <2>1. DOMAIN ds = 1 .. Len(ds)
    BY <1>6
  <2> QED BY <1>9, <2>1 DEF OfNer
<1>11. own \in Seq(Y) /\ \E p : Enumerates(p, Len(own), I) /\ \A k \in 1 .. Len(own) : own[k] = ds[p[k]]
  <2>1. ds \in Seq(Y) /\ own = At(ds, I) /\ I \in SUBSET (1 .. Len(ds))
    BY <1>6, <1>10
  <2> QED BY <2>1, AtEnumerates
<1>12. PICK p : Enumerates(p, Len(own), I) /\ \A k \in 1 .. Len(own) : own[k] = ds[p[k]]
  BY <1>11
<1>13. PICK m, h : m = Len(own) /\ m \in Nat /\ h = [k \in 1 .. m |-> p[k] - la]
  BY <1>12 DEF Enumerates
<1>14. \A x : x \in I <=> x \in 1 .. Len(ds) /\ ds[x].detector = "ner" /\ ds[x].entity_type = T
  <2>1. DOMAIN ds = 1 .. Len(ds)
    BY <1>6
  <2> QED BY <1>9, <2>1 DEF OfNer
<1>15. ASSUME NEW k \in 1 .. m
       PROVE  h[k] = p[k] - la /\ p[k] \in Int /\ h[k] \in 1 .. ln /\ own[k] = N[h[k]] /\ N[h[k]].entity_type = T
  <2>1. PICK x : x = p[k]
    OBVIOUS
  <2>2. x \in I
    BY <1>12, <1>13, <2>1 DEF Enumerates
  <2>3. x \in 1 .. Len(ds) /\ ds[x].detector = "ner" /\ ds[x].entity_type = T
    BY <1>14, <2>2
  <2>4. x - la \in 1 .. ln /\ ds[x] = N[x - la]
    BY <1>7, <2>3
  <2>5. h[k] = x - la
    BY <1>13, <2>1
  <2>6. own[k] = ds[x]
    BY <1>12, <1>13, <2>1
  <2>7. x \in Int
    BY <2>3
  <2> QED BY <2>1, <2>3, <2>4, <2>5, <2>6, <2>7
<1>16. ASSUME NEW j \in 1 .. ln, N[j].entity_type = T PROVE \E k \in 1 .. m : h[k] = j
  <2>1. PICK x : x = j + la /\ x \in 1 .. Len(ds) /\ ds[x] = N[j]
    BY <1>8
  <2>2. N[j].detector = "ner"
    BY <1>2
  <2>3. x \in I
    BY <1>14, <1>16, <2>1, <2>2
  <2>4. PICK k \in 1 .. m : p[k] = x
    BY <1>12, <1>13, <2>3 DEF Enumerates
  <2>5. h[k] = x - la
    BY <1>15, <2>4
  <2>6. x - la = j
    BY <1>3, <2>1
  <2> QED BY <2>5, <2>6
<1>17. ASSUME NEW j \in 1 .. m, NEW k \in 1 .. m, j < k PROVE h[j] < h[k]
  <2>1. p[j] < p[k]
    BY <1>12, <1>13, <1>17 DEF Enumerates
  <2>2. PICK u, v : u = p[j] /\ v = p[k] /\ h[j] = u - la /\ h[k] = v - la /\ u \in Int /\ v \in Int
    BY <1>15
  <2> QED BY <1>3, <2>1, <2>2
<1>18. DrawsType(own, N, T, h)
  BY <1>2, <1>13, <1>15, <1>16, <1>17 DEF DrawsType
<1> QED BY <1>11, <1>18

\* The sets of places NerKeepsPlaces speaks of.
Bounded(L) == \A l \in L : l[1][1] \in Int /\ l[1][2] \in Int

LEMMA LabelsBounded == ASSUME NEW q \in Input, NEW L, L = LabelledOf(q.ner) PROVE Bounded(L)
<1>1. PICK text, names, tokens : text = q.text /\ names = q.ner.names /\ tokens = q.ner.tokens
  OBVIOUS
<1>2. /\ names \in Seq(SpansIn(text)) /\ tokens \in Seq(TokenOf(text)) /\ text \in Seq(Nat)
      /\ q.ner.backend \in {"stub", "onnx", "fails"}
  <2>1. /\ q.text \in Seq(Nat) /\ q.ner.names \in Seq(SpansIn(q.text))
        /\ q.ner.tokens \in Seq([label : Nat, start : Nat, end : 0 .. Len(q.text)])
        /\ q.ner.backend \in {"stub", "onnx", "fails"}
    BY InputAssumption
  <2> QED BY <1>1, <2>1 DEF TokenOf
<1>3. CASE q.ner.backend = "stub"
  <2>1. L = {<<n, "person">> : n \in ToSet(names)}
    BY <1>1, <1>3 DEF LabelledOf
  <2> SUFFICES ASSUME NEW l \in L PROVE l[1][1] \in Int /\ l[1][2] \in Int
    BY DEF Bounded
  <2>2. PICK n \in ToSet(names) : l = <<n, "person">>
    BY <2>1
  <2>3. n \in SpansIn(text)
    BY <1>2 DEF ToSet
  <2> QED BY <2>2, <2>3 DEF SpansIn
<1>4. CASE q.ner.backend = "onnx"
  <2>1. L = {<<<<t.start, t.end>>, EntityOf(t.label)>> : t \in {u \in ToSet(tokens) : u.end # 0}}
    BY <1>1, <1>4 DEF LabelledOf
  <2> SUFFICES ASSUME NEW l \in L PROVE l[1][1] \in Int /\ l[1][2] \in Int
    BY DEF Bounded
  <2>2. PICK t \in ToSet(tokens) : l = <<<<t.start, t.end>>, EntityOf(t.label)>>
    BY <2>1
  <2>3. t \in TokenOf(text) /\ Len(text) \in Nat
    BY <1>2 DEF ToSet
  <2>4. t.start \in Int /\ t.end \in Int
    BY <2>3 DEF TokenOf
  <2>5. l[1][1] = t.start /\ l[1][2] = t.end
    BY <2>2
  <2> QED BY <2>4, <2>5
<1>5. CASE q.ner.backend = "fails"
  BY <1>5 DEF LabelledOf, Bounded
<1> QED BY <1>2, <1>3, <1>4, <1>5

LEMMA PlacesAre ==
  ASSUME NEW L, Bounded(L), NEW i
  PROVE  i \in Places(L) <=> i \in Int /\ \E l \in L : Within(l, i)
<1>1. i \in Places(L) <=> \E l \in L : i \in l[1][1] + 1 .. l[1][2]
  BY DEF Places
<1>2. ASSUME NEW l \in L PROVE i \in l[1][1] + 1 .. l[1][2] <=> i \in Int /\ Within(l, i)
  <2>1. PICK a, b : a = l[1][1] /\ b = l[1][2] /\ a \in Int /\ b \in Int
    BY DEF Bounded
  <2>2. i \in a + 1 .. b <=> i \in Int /\ a < i /\ i <= b
    BY <2>1
  <2> QED BY <2>1, <2>2 DEF Within
<1> QED BY <1>1, <1>2

LEMMA PlacesMarked ==
  ASSUME NEW L, Bounded(L), NEW T, NEW own, own = {l \in L : l[2] = T}
  PROVE  \A i : i \in Places(own) <=> i \in Int /\ MarkedBy(L, T, i)
<1>1. Bounded(own)
  BY DEF Bounded
<1> SUFFICES ASSUME NEW i PROVE i \in Places(own) <=> i \in Int /\ MarkedBy(L, T, i)
  OBVIOUS
<1>2. i \in Places(own) <=> i \in Int /\ \E l \in own : Within(l, i)
  BY <1>1, PlacesAre
<1> QED BY <1>2 DEF MarkedBy

LEMMA CoveredShown ==
  ASSUME NEW Y, NEW own \in Seq(Y), NEW N, Proper(N), NEW T, NEW h, DrawsType(own, N, T, h)
  PROVE  \A i : i \in Covered(own) <=> i \in Int /\ Shown(N, T, i)
<1> SUFFICES ASSUME NEW i PROVE i \in Covered(own) <=> i \in Int /\ Shown(N, T, i)
  OBVIOUS
<1>1. ToSet(own) = {own[k] : k \in 1 .. Len(own)}
  BY DEF ToSet
<1>2. i \in Covered(own) <=> \E d \in ToSet(own) : i \in d.start + 1 .. d.end
  BY DEF Covered
<1>3. i \in Covered(own) <=> \E k \in 1 .. Len(own) : i \in own[k].start + 1 .. own[k].end
  BY <1>1, <1>2
<1>4. ASSUME NEW j \in 1 .. Len(N) PROVE i \in N[j].start + 1 .. N[j].end <=> i \in Int /\ Holds(N[j], i)
  <2>1. PICK a, b : a = N[j].start /\ b = N[j].end /\ a \in Int /\ b \in Int
    BY DEF Proper
  <2>2. i \in a + 1 .. b <=> i \in Int /\ a < i /\ i <= b
    BY <2>1
  <2> QED BY <2>1, <2>2 DEF Holds
<1>5. ASSUME NEW k \in 1 .. Len(own), i \in own[k].start + 1 .. own[k].end
      PROVE  i \in Int /\ Shown(N, T, i)
  <2>1. PICK j : j = h[k] /\ j \in 1 .. Len(N) /\ own[k] = N[j] /\ N[j].entity_type = T
    BY DEF DrawsType
  <2> QED BY <1>4, <1>5, <2>1 DEF Shown
<1>6. ASSUME i \in Int, Shown(N, T, i)
      PROVE  \E k \in 1 .. Len(own) : i \in own[k].start + 1 .. own[k].end
  <2>1. PICK j \in 1 .. Len(N) : N[j].entity_type = T /\ Holds(N[j], i)
    BY <1>6 DEF Shown
  <2>2. PICK k \in 1 .. Len(own) : h[k] = j
    BY <2>1 DEF DrawsType
  <2>3. own[k] = N[j]
    BY <2>2 DEF DrawsType
  <2> QED BY <1>4, <1>6, <2>1, <2>3
<1> QED BY <1>3, <1>5, <1>6

LEMMA OwnRises ==
  ASSUME NEW Y, NEW own \in Seq(Y), NEW N, Rising(N), NEW T, NEW h, DrawsType(own, N, T, h)
  PROVE  \A m, n \in DOMAIN own : m < n => own[m].end <= own[n].start
<1> SUFFICES ASSUME NEW m \in DOMAIN own, NEW n \in DOMAIN own, m < n PROVE own[m].end <= own[n].start
  OBVIOUS
<1>1. m \in 1 .. Len(own) /\ n \in 1 .. Len(own)
  OBVIOUS
<1>2. PICK j, k : j = h[m] /\ k = h[n]
  OBVIOUS
<1>3. /\ j \in 1 .. Len(N) /\ k \in 1 .. Len(N) /\ j < k /\ own[m] = N[j] /\ own[n] = N[k]
  BY <1>1, <1>2 DEF DrawsType
<1> QED BY <1>3 DEF Rising

\* For any text and whatever the engine labels, if its tokens follow one another:
\* detector B loses no place and adds none but the character between two tokens
\* of a name.  (For a token that lies inside another, the statement is false.)
THEOREM PlacesKept == ASSUME TokensApart PROVE Spec => []NerKeepsPlaces
<1>1. Init => NerInv
  BY DEF Init, NerInv, Detected
<1>2. NerInv => NerKeepsPlaces
  <2> SUFFICES ASSUME NerInv, Detected, NEW T \in Labels, NEW own, NEW mine,
                      own = At(detections, OfNer(detections, T)),
                      mine = {l \in Labelled : l[2] = T}
               PROVE  /\ Places(mine) \subseteq Covered(own)
                      /\ \A i \in Covered(own) \ Places(mine) : /\ {i - 1, i + 1} \subseteq Places(mine)
                                                                /\ i \notin Places(Labelled)
                      /\ \A m, n \in DOMAIN own : m < n => own[m].end <= own[n].start
    BY DEF NerKeepsPlaces, Labels, Filter, OfNer
  <2>1. PICK N, L : N = ner_detect(Text, input.ner).detections /\ L = LabelledOf(input.ner)
    OBVIOUS
  <2>2. input \in Input /\ Middle(detections, N)
    BY <2>1 DEF NerInv
  <2>3. KeptPlaces(N, L) /\ Bounded(L)
    BY <2>1, <2>2, NerSays, LabelsBounded DEF Text
  <2>4. mine = {l \in L : l[2] = T} /\ Labelled = L
    BY <2>1 DEF Labelled, LabelledOf
  <2>5. Rising(N) /\ Proper(N) /\ \A k \in 1 .. Len(N) : N[k].detector = "ner"
    BY <2>3 DEF KeptPlaces
  <2>a. (\E Y : own \in Seq(Y)) /\ \E h : DrawsType(own, N, T, h)
    BY <2>2, <2>5, OwnDrawn
  <2>6. PICK Y, h : own \in Seq(Y) /\ DrawsType(own, N, T, h)
    BY <2>a
  <2>7. \A i : i \in Covered(own) <=> i \in Int /\ Shown(N, T, i)
    BY <2>5, <2>6, CoveredShown
  <2>8. \A i : i \in Places(mine) <=> i \in Int /\ MarkedBy(L, T, i)
    BY <2>3, <2>4, PlacesMarked
  <2>9. \A m, n \in DOMAIN own : m < n => own[m].end <= own[n].start
    BY <2>5, <2>6, OwnRises
  <2>10. \A i \in Int :
           /\ MarkedBy(L, T, i) => Shown(N, T, i)
           /\ Shown(N, T, i) => \/ MarkedBy(L, T, i)
                                \/ MarkedBy(L, T, i - 1) /\ MarkedBy(L, T, i + 1) /\ Nobodys(L, i)
    BY <2>3 DEF KeptPlaces
  <2>11. Places(mine) \subseteq Covered(own)
    BY <2>7, <2>8, <2>10
  <2>12. ASSUME NEW i \in Covered(own) \ Places(mine)
         PROVE  {i - 1, i + 1} \subseteq Places(mine) /\ i \notin Places(Labelled)
    <3>1. i \in Int /\ Shown(N, T, i) /\ ~MarkedBy(L, T, i)
      BY <2>7, <2>8
    <3>2. MarkedBy(L, T, i - 1) /\ MarkedBy(L, T, i + 1) /\ Nobodys(L, i)
      BY <2>10, <3>1
    <3>3. i - 1 \in Int /\ i + 1 \in Int
      BY <3>1
    <3>4. i - 1 \in Places(mine) /\ i + 1 \in Places(mine)
      BY <2>8, <3>2, <3>3
    <3>5. i \notin Places(L)
      BY <2>3, <3>2, PlacesAre DEF Nobodys
    <3> QED BY <2>4, <3>4, <3>5
  <2> QED BY <2>9, <2>11, <2>12
<1> QED BY <1>1, <1>2, NerStep, PTL DEF Spec
=============================================================================
