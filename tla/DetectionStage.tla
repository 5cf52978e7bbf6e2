--------------------------- MODULE DetectionStage ---------------------------
(***************************************************************************)
(* The detection stage of handle_chat (proxy/pipeline.py): the three       *)
(* detectors read one text, what they find is concatenated, and the merge  *)
(* engine turns it into the spans that are masked.                         *)
(***************************************************************************)
EXTENDS Merge

CONSTANT Input           \* requests with what the detectors' engines answer

SpansIn(text) == {p \in Nat \X Nat : p[1] < p[2] /\ p[2] <= Len(text)}

\* The engines answer about the text they were given: what a library or a
\* pattern matched is a part of it, and a token of it ends within it.  A reply
\* may hold anything.
ASSUME InputAssumption ==
  \A q \in Input :
    /\ q.text \in Seq(Nat)
    /\ q.phones \in Seq(SpansIn(q.text))
    /\ q.ner.backend \in {"stub", "onnx", "fails"}
    /\ q.ner.names \in Seq(SpansIn(q.text))
    /\ q.ner.tokens \in Seq([label : Nat, start : Nat, end : 0 .. Len(q.text)])
    /\ q.reply.shape \in {"no_content", "not_json", "http_error", "null_content", "not_object",
                          "not_iterable", "items"}
    /\ q.reply.items \in Seq(ToSet(q.reply.items))
    /\ \A item \in ToSet(q.reply.items) :
         /\ item.start.kind = "int" => item.start.value \in Int
         /\ item.end.kind = "int" => item.end.value \in Int
         /\ item.confidence.kind \in {"int", "missing", "nan", "huge", "bad"}
         /\ item.confidence.value \in Int

\* Tokens come in the order of the text, and only special ones are empty.
ASSUME TokenAssumption ==
  \A q \in Input : \A j, k \in {n \in DOMAIN q.ner.tokens : q.ner.tokens[n].end # 0} :
    /\ q.ner.tokens[k].start < q.ner.tokens[k].end
    /\ j < k => q.ner.tokens[j].start <= q.ner.tokens[k].start

\* Tokens one behind the other, as a tokenizer of whole characters gives them.
TokensApart ==
  \A q \in Input : \A j, k \in {n \in DOMAIN q.ner.tokens : q.ner.tokens[n].end # 0} :
    j < k => q.ner.tokens[j].end <= q.ner.tokens[k].start

\* None is neither an entity type nor a span of one.
ASSUME NullAssumption ==
  LET types == {"person", "organization", "location"}
  IN  Null \notin types /\ Null \notin [start : Nat, end : Nat, entity_type : types]

VARIABLES input,        \* the request of this behaviour
          stage,        \* "detecting", "merging", "merged" or "raised"
          detections,   \* what the detectors reported, in order
          result        \* the MergeResult

vars == <<input, stage, detections, result>>

Text == input.text

\* asyncio.gather: the outcomes, in the order of the tasks.
Outcomes == <<structural_detect(Text, input.country, input.phones),
              ner_detect(Text, input.ner),
              contextual_detect(Text, input.reply)>>

Init == /\ input \in Input
        /\ stage = "detecting"
        /\ detections = <<>>
        /\ result = Null

\* A detector's exception fails the request in strict mode; in the other modes
\* the request goes on with what the others found.
Detect ==
  /\ stage = "detecting"
  /\ LET failed == \E n \in DOMAIN Outcomes : Outcomes[n].raised
     IN  IF failed /\ input.mode = "strict"
         THEN stage' = "raised" /\ UNCHANGED detections
         ELSE /\ stage' = "merging"
              /\ detections' = Outcomes[1].detections \o Outcomes[2].detections \o Outcomes[3].detections
  /\ UNCHANGED <<input, result>>

Merge == /\ stage = "merging"
         /\ stage' = "merged"
         /\ result' = merge(Text, detections, input.exceptions)
         /\ UNCHANGED <<input, detections>>

Next == Detect \/ Merge

Spec == Init /\ [][Next]_vars

-----------------------------------------------------------------------------
Detected == stage \in {"merging", "merged"}
Merged == stage = "merged"

\* The detections that pass validation, exceptions and thresholds.
Survivors == Filter(detections, LAMBDA d :
               _span_matches(Text, d) /\ ~Excepted(input.exceptions, d) /\ Confident(d))

Overlap(d, e) == d.start < e.end /\ e.start < d.end
SpanOf(d) == <<d.start, d.end>>
Covered(ds) == UNION {d.start + 1 .. d.end : d \in ToSet(ds)}
From(detector) == Filter(detections, LAMBDA d : d.detector = detector)

\* Hard rule 6 of detectors/base.py: whatever the engines answer, a detector
\* hands on only spans that quote the text, so that the validation in merge()
\* finds nothing to drop and every span can be spliced.
OnlyQuotes == \A d \in ToSet(detections) : _span_matches(Text, d)

\* No item a language model writes fails the detector, and in strict mode the
\* request with it, but for an integer no float can hold: bad fields and false
\* quotes lose the item, and a confidence out of range never reaches the
\* constructor of Detection, which raises on it.
ItemsNeverFail ==
  stage = "raised" =>
    \/ input.ner.backend = "fails" \/ input.reply.shape # "items"
    \/ \E item \in ToSet(input.reply.items) : item.confidence.kind = "huge"

\* An odd item costs nothing but itself: whatever stands around it in the reply,
\* each item that can be read and quotes the text is reported at its place.
NeighboursSurvive ==
  Detected /\ input.reply.shape = "items" /\ (\A item \in ToSet(input.reply.items) : ~Overflows(item)) =>
    \A item \in ToSet(input.reply.items) :
      Readable(item) /\ Quoted(Text, item) =>
        \E d \in ToSet(detections) :
          d.detector = "contextual" /\ SpanOf(d) = <<item.start.value, item.end.value>>

\* The spans the engine behind detector B labelled, with their entity types.
Labelled ==
  CASE input.ner.backend = "stub" -> {<<n, "person">> : n \in ToSet(input.ner.names)}
    [] input.ner.backend = "onnx" ->
         {<<<<t.start, t.end>>, EntityOf(t.label)>> : t \in {u \in ToSet(input.ner.tokens) : u.end # 0}}
    [] OTHER -> {}
Places(labels) == UNION {l[1][1] + 1 .. l[1][2] : l \in labels}

\* Detector B neither loses nor invents a place: of each type it reports,
\* without overlaps, what its engine labelled, and beyond that at most the one
\* character between two tokens of a name.
NerKeepsPlaces ==
  Detected =>
    \A type \in {"person", "organization", "location"} :
      LET ds   == Filter(detections, LAMBDA d : d.detector = "ner" /\ d.entity_type = type)
          own  == {l \in Labelled : l[2] = type}
      IN  /\ Places(own) \subseteq Covered(ds)
          /\ \A i \in Covered(ds) \ Places(own) : /\ {i - 1, i + 1} \subseteq Places(own)
                                                  /\ i \notin Places(Labelled)
          /\ \A m, n \in DOMAIN ds : m < n => ds[m].end <= ds[n].start

\* A bank account number with one digit wrong or two neighbours swapped is not
\* reported as one, at any place of the number.
MistypedRibIsNone ==
  \A d \in ToSet(From("structural.dz")) :
    d.entity_type = "bank_account" =>
      \A other \in Mistyped(d.text) : other # d.text => ~_rib_key_valid(other)

\* The digit strings of a length that hold a digit run of the text somewhere,
\* with zeros around it: what the hash may give a generator.
HashDigits(length) ==
  LET run == Filter(Text, LAMBDA c : c \in Digit)
      kept == SubSeq(run, 1, Min({Len(run), length}))
  IN  IF run = <<>> THEN {}
      ELSE {Zeros(k) \o kept \o Zeros(length - k - Len(kept)) : k \in 0 .. length - Len(kept)}

\* What replaces a bank account number has a valid key, so that an upstream
\* model or a second pass takes it for one; what replaces a card number passes
\* the Luhn test.
SyntheticsValidate ==
  Merged =>
    /\ \A body \in HashDigits(RIB_BODY) : _rib_key_valid(_rib_for(body))
    /\ \A base \in HashDigits(CARD_BODY) : LuhnHolds(_luhn_for(base))

\* The accepted spans come in ascending order and do not overlap, which
\* apply_substitution relies on: a span it finds behind its cursor is skipped
\* and stays in clear.
AcceptedDisjoint ==
  Merged => \A i, j \in DOMAIN result.accepted :
              i < j => result.accepted[i].end <= result.accepted[j].start

\* The one-pass clustering finds exactly the connected components of the
\* overlap relation: each detection is in a cluster, what overlaps is in the
\* same one, and a cluster cannot be split in two without parting an overlap.
ClustersAreComponents ==
  Merged =>
    LET ds == Survivors
        cs == Clusters(ds)
    IN  /\ UNION {ToSet(c) : c \in ToSet(cs)} = DOMAIN ds
        /\ \A k, l \in DOMAIN cs : k # l =>
             \A i \in ToSet(cs[k]), j \in ToSet(cs[l]) : i # j /\ ~Overlap(ds[i], ds[j])
        /\ \A k \in DOMAIN cs : cs[k] # <<>> /\ \A part \in SUBSET ToSet(cs[k]) :
             part \notin {{}, ToSet(cs[k])} =>
               \E i \in part, j \in ToSet(cs[k]) \ part : Overlap(ds[i], ds[j])

\* Which spans are masked does not depend on the order in which the detectors
\* and the detections of one detector are listed.
OrderIndependent ==
  Merged =>
    \A p \in SetToSeqs(DOMAIN detections) :
      LET shuffled == [k \in DOMAIN detections |-> detections[p[k]]]
          again    == merge(Text, shuffled, input.exceptions).accepted
      IN  [k \in DOMAIN again |-> SpanOf(again[k])]
            = [k \in DOMAIN result.accepted |-> SpanOf(result.accepted[k])]

\* A report that a customer's exception names, or that is below its threshold,
\* has no say: the request ends with the same masked spans and confidences as if
\* it had not been made.  It wins no cluster, joins no two, corroborates nothing.
DroppedHaveNoSay ==
  Merged =>
    \A n \in DOMAIN detections :
      Excepted(input.exceptions, detections[n]) \/ ~Confident(detections[n]) =>
        merge(Text, RemoveAt(detections, n), input.exceptions).accepted = result.accepted

\* README.md: original data never leaves.  Here: every detection that passed
\* the filters is at least touched by a masked span.
SurvivorsTouched ==
  Merged => \A i \in DOMAIN Survivors :
              \E k \in DOMAIN result.accepted : Overlap(Survivors[i], result.accepted[k])
=============================================================================
