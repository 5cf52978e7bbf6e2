-------------------------- MODULE MCDetectionStage --------------------------
\* Families of requests, each for one of the questions: spans of the language
\* model over every part of a short text, names and tokens next to them, all
\* that can be wrong with an item, and numbers of the real lengths.
EXTENDS DetectionStage

CONSTANTS MaxItems,     \* bound: items of a well-formed reply, spans of the stub
          MaxOdd        \* bound: items of a reply with odd ones among them

MCThreshold == <<80, 70, 65>>

Letters == <<10, 11, 12, 13>>
Spans == {p \in (0 .. 4) \X (0 .. 4) : p[1] < p[2]}

Num(n) == [kind |-> "int", value |-> n]
Str(s) == [kind |-> "str", value |-> s]
Bad == [kind |-> "bad", value |-> 0]
Missing == [kind |-> "missing", value |-> 0]

Item(text, p, confidence) ==
  [start |-> Num(p[1]), end |-> Num(p[2]), text |-> Str(Slice(text, p[1], p[2])),
   confidence |-> confidence, entity_type |-> "person", rule_id |-> Null]

Items(is) == [shape |-> "items", items |-> is]
Stub(names) == [backend |-> "stub", names |-> names, tokens |-> <<>>]
Onnx(tokens) == [backend |-> "onnx", names |-> <<>>, tokens |-> tokens]

Request(text, phones, ner, reply) ==
  [text |-> text, country |-> "DZ", phones |-> phones, ner |-> ner, reply |-> reply,
   exceptions |-> {}, mode |-> "strict"]

\* Overlaps of the language model's spans, and of names the stub matched.
LetterItems == {Item(Letters, p, Num(90)) : p \in Spans}
Overlapping ==
  {Request(Letters, <<>>, Stub(<<>>), Items(is)) : is \in BoundedSeq(LetterItems, MaxItems)}
    \cup {Request(Letters, <<>>, Stub(names), Items(<<>>)) : names \in BoundedSeq(Spans, MaxItems)}

\* Tokens with and without gaps, between special ones that may be labelled.
Offsets == {<<<<0, 0>>, <<0, 1>>, <<1, 2>>, <<2, 3>>, <<3, 4>>, <<0, 0>>>>,
            <<<<0, 1>>, <<2, 3>>, <<3, 4>>>>, <<<<0, 1>>, <<3, 4>>>>}
Tokens(o, l) == [k \in DOMAIN o |-> [label |-> l[k], start |-> o[k][1], end |-> o[k][2]]]
Tokenised == UNION {{Tokens(o, l) : l \in [DOMAIN o -> {0, 1, 2, 3}]} : o \in Offsets}

\* All three detectors on one text.
Ensemble ==
  {Request(Letters, phones, Onnx(tokens), Items(is)) :
     phones \in {<<>>, <<<<1, 4>>>>},
     tokens \in {t \in Tokenised : Len(t) = 3},
     is \in BoundedSeq(LetterItems, 1)}
    \cup {Request(Letters, <<>>, Onnx(tokens), Items(<<>>)) : tokens \in Tokenised}

\* Everything that can be odd about an item or an answer, with exceptions, in
\* both modes.
Plain == Item(Letters, <<0, 3>>, Num(96))
OddItems ==
  {[Plain EXCEPT !.confidence = c] :
     c \in {Num(64), Num(65), Num(-5), Num(150), Missing, Bad,
            [kind |-> "nan", value |-> 0], [kind |-> "huge", value |-> 0]}}
    \cup {[Plain EXCEPT !.start = Missing], [Plain EXCEPT !.end = Bad], [Plain EXCEPT !.text = Missing],
          [Plain EXCEPT !.text = Str(<<10, 10, 10>>)], [Plain EXCEPT !.end = Num(5)],
          [Plain EXCEPT !.start = Num(-1)], [Plain EXCEPT !.start = Num(3)],
          [Plain EXCEPT !.entity_type = "secret"], Plain, Item(Letters, <<2, 4>>, Num(80))}

NoMatch == [rule_id |-> Null, entity_type |-> Null, text_match |-> Null]
Exceptions == {{}, {NoMatch}, {[NoMatch EXCEPT !.text_match = <<10, 11, 12>>]},
               {[NoMatch EXCEPT !.entity_type = "person", !.text_match = <<12, 13>>],
                [NoMatch EXCEPT !.rule_id = "ner.stub.person"]}}

Replies == {Items(is) : is \in BoundedSeq(OddItems, MaxOdd)}
             \cup {[shape |-> s, items |-> <<>>] :
                     s \in {"no_content", "not_json", "http_error", "null_content",
                            "not_object", "not_iterable"}}
Odd ==
  {[Request(Letters, <<>>, ner, reply) EXCEPT !.exceptions = excs, !.mode = mode] :
     ner \in {Stub(<<>>), Stub(<<<<0, 3>>>>), Stub(<<<<1, 3>>>>),
              [backend |-> "fails", names |-> <<>>, tokens |-> <<>>]},
     reply \in Replies, excs \in Exceptions, mode \in {"strict", "audit_only"}}

\* Bank account numbers with a body of one digit that is not zero at each place,
\* numbers just too short, just right and just too long, and every three digits.
Bodies == {[Zeros(RIB_BODY) EXCEPT ![p[1]] = p[2]] : p \in (1 .. RIB_BODY) \X Digit}
Numbers == {_rib_for(b) : b \in Bodies} \cup {[k \in 1 .. n |-> k % 10] : n \in 14 .. 21}
Texts == Numbers \cup {<<10>> \o n \o <<11>> : n \in Numbers}
           \cup {Zeros(NIN_DIGITS) \o <<10>> \o Zeros(NIF_DIGITS) \o <<10>> \o Zeros(NIN_DIGITS)}
           \cup {<<d[1], d[2], d[3]>> : d \in Digit \X Digit \X Digit}
Numeric ==
  {Request(text, <<>>, Stub(<<>>), Items(<<>>)) : text \in Texts}
    \cup {[Request(text, <<>>, Stub(<<>>), Items(<<>>)) EXCEPT !.country = "FR"] :
            text \in Numbers}

MCInput == Overlapping \cup Ensemble \cup Odd \cup Numeric

\* The tokens here follow one another, which NerKeepsPlaces needs.
ASSUME DisjointTokens == TokensApart
=============================================================================
