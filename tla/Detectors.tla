----------------------------- MODULE Detectors -----------------------------
(***************************************************************************)
(* The three detectors, as functions from the text and from what their     *)
(* engines answer to lists of detections: structural.py with the Algerian  *)
(* validators, ner.py with its two backends, contextual.py.                *)
(*                                                                         *)
(* Abstractions.  A character is a number: a digit itself, anything else   *)
(* ten or more.  Confidences are hundredths.  What the phone library, the  *)
(* name patterns, the NER model and the language model find is an input;   *)
(* a field of a language model's item is its kind and, for a number or a   *)
(* numeric string, its value.                                              *)
(***************************************************************************)
EXTENDS Identifiers

CONSTANT Null            \* None

\* Python slice of a half-open span.
Slice(text, start, end) == SubSeq(text, start + 1, end)

Detection(text, entity_type, span, confidence, tier, detector, rule_id) ==
  [entity_type |-> entity_type, start |-> span[1], end |-> span[2],
   text |-> Slice(text, span[1], span[2]), confidence |-> confidence,
   tier |-> tier, detector |-> detector, rule_id |-> rule_id]

\* Detection.__post_init__ raises ValueError on anything else.
Constructible(d) == d.confidence \in 0 .. 100 /\ d.start >= 0 /\ d.end > d.start

\* What detect() ends with: its detections, or an exception.
Found(ds) == [raised |-> FALSE, detections |-> ds]
Failed == [raised |-> TRUE, detections |-> <<>>]
Construct(ds) == IF \A n \in DOMAIN ds : Constructible(ds[n]) THEN Found(ds) ELSE Failed

-----------------------------------------------------------------------------
(* Detector A. *)

IsDigit(text, i) == i \in DOMAIN text /\ text[i] \in Digit

\* The matches of (?<!\d)(\d{n})(?!\d), in order.
DigitRuns(text, n) ==
  LET starts == {s \in 0 .. Len(text) - n : /\ ~IsDigit(text, s) /\ ~IsDigit(text, s + n + 1)
                                            /\ \A i \in s + 1 .. s + n : IsDigit(text, i)}
      order  == InOrder(starts, Less)
  IN  [k \in DOMAIN order |-> <<order[k], order[k] + n>>]

DZ(text, entity_type, spans, confidence, rule_id) ==
  [k \in DOMAIN spans |->
     Detection(text, entity_type, spans[k], confidence, 1, "structural.dz", rule_id)]

detect_nin(text) == DZ(text, "national_id", DigitRuns(text, NIN_DIGITS), 85, "dz.nin")
detect_nif(text) == DZ(text, "tax_id", DigitRuns(text, NIF_DIGITS), 85, "dz.nif")
detect_rib(text) ==
  DZ(text, "bank_account",
     Filter(DigitRuns(text, RIB_DIGITS), LAMBDA p : _rib_key_valid(Slice(text, p[1], p[2]))),
     99, "dz.rib")

\* phones: the valid numbers PhoneNumberMatcher yields.
detect_phone(text, phones) == DZ(text, "phone", phones, 99, "dz.phone")

\* Only the packs of _COUNTRY_PACKS have validators.
structural_detect(text, country, phones) ==
  Construct(IF country # "DZ" THEN <<>>
            ELSE detect_nin(text) \o detect_nif(text) \o detect_rib(text)
                   \o detect_phone(text, phones))

-----------------------------------------------------------------------------
(* Detector B, stub: spans of names behind honorifics and of capitalised     *)
(* words in a row, overlapping ones united.                                  *)

Unite(out, s) ==
  IF out = <<>> \/ s[1] >= Last(out)[2] THEN Append(out, s)
  ELSE IF s[2] > Last(out)[2] THEN [out EXCEPT ![Len(out)] = <<@[1], s[2]>>]
  ELSE out

\* sorted(spans, key=(start, -end)); equal spans are interchangeable.
SortedSpans(spans) ==
  LET before == {p \in (DOMAIN spans) \X (DOMAIN spans) :
                   LET s == spans[p[1]]
                       t == spans[p[2]]
                   IN  \/ s[1] < t[1]
                       \/ s[1] = t[1] /\ s[2] > t[2]
                       \/ s = t /\ p[1] < p[2]}
      order == InOrder(DOMAIN spans, before)
  IN  [k \in DOMAIN order |-> spans[order[k]]]

_merge_overlapping(spans) == Loop(Unite, <<>>, SortedSpans(spans))

stub_detect(text, names) ==
  LET spans == _merge_overlapping(names)
  IN  Construct([k \in DOMAIN spans |->
                   Detection(text, "person", spans[k], 85, 2, "ner", "ner.stub.person")])

-----------------------------------------------------------------------------
(* Detector B, ONNX: runs of tokens with one entity type.                    *)

_label_map == <<"person", "person", "organization", "organization", "location", "location">>
EntityOf(label) == IF label \in DOMAIN _label_map THEN _label_map[label] ELSE Null

Flush(acc) == IF acc.cur = Null THEN acc.spans ELSE Append(acc.spans, acc.cur)

\* Mutant: a token without a label does not end the current span.
TokenSkips(acc, token) ==
  LET ent     == EntityOf(token.label)
      open    == [start |-> token.start, end |-> token.end, entity_type |-> ent]
      extends == /\ acc.cur # Null
                 /\ acc.cur.entity_type = ent
                 /\ token.start <= acc.cur.end + 1
  IN  IF ent = Null \/ token.end = 0 THEN acc
      ELSE IF extends THEN [acc EXCEPT !.cur.end = token.end]
      ELSE [spans |-> Flush(acc), cur |-> open]

\* One token: it ends the current span, opens one, or extends it.  Special
\* tokens have the offsets (0, 0).
Token(acc, token) ==
  LET ent     == EntityOf(token.label)
      open    == [start |-> token.start, end |-> token.end, entity_type |-> ent]
      extends == /\ acc.cur # Null
                 /\ acc.cur.entity_type = ent
                 /\ token.start <= acc.cur.end + 1
  IN  IF ent = Null \/ token.end = 0 THEN [spans |-> Flush(acc), cur |-> Null]
      ELSE IF extends THEN [acc EXCEPT !.cur.end = token.end]
      ELSE [spans |-> Flush(acc), cur |-> open]

RuleOf == [person |-> "ner.onnx.person", organization |-> "ner.onnx.organization",
           location |-> "ner.onnx.location"]

onnx_detect(text, tokens) ==
  LET spans == Flush(Loop(Token, [spans |-> <<>>, cur |-> Null], tokens))
  IN  Construct([k \in DOMAIN spans |->
                   Detection(text, spans[k].entity_type, <<spans[k].start, spans[k].end>>,
                             90, 2, "ner", RuleOf[spans[k].entity_type])])

\* What the configured backend makes of its engine's answer.
ner_detect(text, ner) == CASE ner.backend = "stub" -> stub_detect(text, ner.names)
                           [] ner.backend = "onnx" -> onnx_detect(text, ner.tokens)
                           [] ner.backend = "fails" -> Failed

-----------------------------------------------------------------------------
(* Detector C. *)

_KNOWN_ENTITY_TYPES ==
  {"national_id", "tax_id", "bank_account", "card_number", "phone", "email", "person",
   "organization", "location", "date", "monetary", "custom"}

_safe_entity_type(value) == IF value \in _KNOWN_ENTITY_TYPES THEN value ELSE "custom"

\* start and end must be there and be integers, or strings that are; text must
\* be there.  A confidence that is no number loses the item too, and one that
\* float() cannot hold is an OverflowError, which nothing catches.
Readable(item) == /\ item.start.kind = "int" /\ item.end.kind = "int"
                  /\ item.text.kind = "str"
                  /\ item.confidence.kind # "bad"
Overflows(item) == Readable(item) /\ item.confidence.kind = "huge"

\* Mutant: the claimed text is not compared with the slice.
Unquoted(text, item) ==
  item.start.value >= 0 /\ item.end.value <= Len(text) /\ item.end.value > item.start.value

\* Hallucinated spans are dropped.
Quoted(text, item) ==
  /\ item.start.value >= 0 /\ item.end.value <= Len(text)
  /\ item.end.value > item.start.value
  /\ Slice(text, item.start.value, item.end.value) = item.text.value

\* Mutant: no clamp.
RawConfidence(c) == CASE c.kind = "missing" -> 70 [] c.kind = "nan" -> 99 [] OTHER -> c.value

\* max(0.0, min(0.99, c)), 0.7 when absent.  min keeps 0.99 against a NaN.
Confidence(c) == CASE c.kind = "missing" -> 70
                   [] c.kind = "nan"     -> 99
                   [] OTHER              -> Max({0, Min({99, c.value})})

\* Mutant: the first item that cannot be read ends the loop.
ParseUntilOdd(text, raw) ==
  LET odd  == {n \in DOMAIN raw : ~Readable(raw[n])}
      kept == Filter(IF odd = {} THEN raw ELSE SubSeq(raw, 1, Min(odd) - 1),
                     LAMBDA item : Quoted(text, item))
  IN  [k \in DOMAIN kept |->
         Detection(text, _safe_entity_type(kept[k].entity_type),
                   <<kept[k].start.value, kept[k].end.value>>,
                   Confidence(kept[k].confidence), 3, "contextual", kept[k].rule_id)]

_parse_detections(text, raw) ==
  LET kept == Filter(raw, LAMBDA item : Readable(item) /\ Quoted(text, item))
  IN  [k \in DOMAIN kept |->
         [Detection(text, _safe_entity_type(kept[k].entity_type),
                    <<kept[k].start.value, kept[k].end.value>>,
                    Confidence(kept[k].confidence), 3, "contextual", kept[k].rule_id)
            EXCEPT !.text = kept[k].text.value]]

\* An answer without choices or without JSON in it is no detection; one whose
\* content is null or no object, or whose detections cannot be iterated, raises,
\* as an HTTP error or a timeout does.
contextual_detect(text, reply) ==
  CASE reply.shape \in {"no_content", "not_json"} -> Found(<<>>)
    [] reply.shape \in {"http_error", "null_content", "not_object", "not_iterable"} -> Failed
    [] reply.shape = "items" ->
         IF \E n \in DOMAIN reply.items : Overflows(reply.items[n])
         THEN Failed
         ELSE Construct(_parse_detections(text, reply.items))
=============================================================================
