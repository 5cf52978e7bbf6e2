---------------------------- MODULE Substitution ----------------------------
(***************************************************************************)
(* Forward and reverse substitution (substitution/engine.py, components.py,*)
(* synthetic.py): the accepted spans of a request are replaced by          *)
(* synthetic values, and the synthetics found in the answer are replaced   *)
(* by what they stand for.                                                 *)
(*                                                                         *)
(* Abstractions.  A text is a sequence of characters, which are strings of *)
(* length one; the blank stands for all white space.  The hash that picks  *)
(* a value out of a dictionary, or makes one, is for one request (one      *)
(* salt) an arbitrary function.                                            *)
(***************************************************************************)
EXTENDS Lists, SequencesExt

CONSTANTS Entity,       \* the entities of the inputs: [type, text]
          Plain,        \* texts that belong to no entity
          Pool,         \* Pool[t]: the synthetic values of type t, from the
                        \* dictionary of the country or from a generator
          SaltStart,    \* salt[:6]
          Honorifics,   \* prefixes of the three languages
          Verbatim,     \* the types synthetic_for returns unchanged
          MaxSegments,  \* bound: entities and plain texts in a request
          MaxSize,      \* bound: segments of a request and pieces of an answer, together
          Null

ASSUME TextAssumption ==
  /\ \A e \in Entity : e.text \in Seq(STRING) /\ e.text # <<>>
  /\ Plain \subseteq Seq(STRING)
  /\ \A t \in DOMAIN Pool : Pool[t] \subseteq Seq(STRING)
  /\ SaltStart \in Seq(STRING)

VARIABLES segments,     \* the request, as entities and plain texts
          pick,         \* the salted hash: pick[e] is e's value
          forward,      \* ForwardResult, or Null
          response,     \* contents of the upstream's choices, the text taken from
                        \* them, what NER found in it, and the pieces it was
                        \* written from
          reverse,      \* ReverseResult, or Null
          reply         \* contents of the choices the caller gets, or Null

vars == <<segments, pick, forward, response, reverse, reply>>

Segment == Entity \cup [type : {"plain"}, text : Plain]

\* The texts of the first of some pieces, one behind the other.
Beginnings(pieces) ==
  LET upto[k \in 0 .. Len(pieces)] == IF k = 0 THEN <<>> ELSE upto[k - 1] \o pieces[k].text
  IN  upto

Joined(pieces) == Beginnings(pieces)[Len(pieces)]

\* The accepted detections: the merge engine's output for this text.
Accepted(segs) ==
  LET found == Filter([k \in DOMAIN segs |-> k], LAMBDA k : segs[k].type # "plain")
  IN  [n \in DOMAIN found |->
         [start  |-> Len(Beginnings(segs)[found[n] - 1]),
          end    |-> Len(Beginnings(segs)[found[n]]),
          entity |-> segs[found[n]]]]

Text == Joined(segments)
Detections == Accepted(segments)

-----------------------------------------------------------------------------
\* Custom entities, which have neither a dictionary nor a generator, get a tag
\* with the first characters of the seed: the salt, not the original.
Custom == <<"<", "c", "u", "s", "t", "o", "m", "-">> \o SaltStart \o <<">">>

\* _pick: a tag when the dictionary is empty.
_pick(pool) == IF pool = {} THEN {<<"<">> \o SaltStart \o <<">">>} ELSE pool

synthetic_for(e, salt) ==
  CASE e.type \in Verbatim                 -> e.text
    [] e.type \in (DOMAIN Pool) \ Verbatim -> salt[e]
    [] OTHER                               -> Custom

Component(surface, original, kind) ==
  [surface |-> surface, original_surface |-> original, kind |-> kind]

\* str.split(): the longest runs of characters other than blanks.
split(s) ==
  LET starts == {i \in DOMAIN s : s[i] # " " /\ (i = 1 \/ s[i - 1] = " ")}
      ends   == {i \in DOMAIN s : s[i] # " " /\ (i = Len(s) \/ s[i + 1] = " ")}
  IN  [n \in 1 .. Cardinality(starts) |-> SubSeq(s, InOrder(starts, Less)[n], InOrder(ends, Less)[n])]

decompose_person(original, synthetic) ==
  LET o == split(original)
      s == split(synthetic)
  IN  <<Component(synthetic, original, "full")>>
      \o IF Len(o) < 2 \/ Len(s) < 2
         THEN <<>>
         ELSE <<Component(Head(s), Head(o), "first"), Component(Last(s), Last(o), "last")>>
              \o [h \in DOMAIN Honorifics |->
                    Component(Honorifics[h] \o <<" ">> \o Last(s),
                              Honorifics[h] \o <<" ">> \o Last(o), "honorific")]

decompose(e, synthetic) ==
  IF e.type = "person"
  THEN decompose_person(e.text, synthetic)
  ELSE <<Component(synthetic, e.text, "full")>>

-----------------------------------------------------------------------------
(* apply_substitution, one detection at a time.  components is the           *)
(* dictionary components_by_synthetic, as the pairs of one key in order of   *)
(* first insertion: a second value replaces the first.                       *)

Put(dict, key, value) ==
  IF \E n \in DOMAIN dict : dict[n].key = key
  THEN [n \in DOMAIN dict |-> IF dict[n].key = key THEN [key |-> key, value |-> value] ELSE dict[n]]
  ELSE Append(dict, [key |-> key, value |-> value])

\* Mutant: the cursor is moved to the start of the span.
SubstituteBehind(text, salt, acc, det) ==
  LET synthetic == synthetic_for(det.entity, salt)
  IN  [out        |-> acc.out \o SubSeq(text, acc.cursor + 1, det.start) \o synthetic,
       cursor     |-> det.start,
       components |-> Put(acc.components, synthetic, decompose(det.entity, synthetic))]

Substitute(text, salt, acc, det) ==
  LET synthetic == synthetic_for(det.entity, salt)
  IN  IF det.start < acc.cursor
      THEN acc
      ELSE [out        |-> acc.out \o SubSeq(text, acc.cursor + 1, det.start) \o synthetic,
            cursor     |-> det.end,
            components |-> Put(acc.components, synthetic, decompose(det.entity, synthetic))]

\* sorted(detections, key=start), which is stable.
SortedByStart(detections) ==
  LET before == {p \in (DOMAIN detections) \X (DOMAIN detections) :
                   LET s == detections[p[1]].start
                       t == detections[p[2]].start
                   IN  s < t \/ (s = t /\ p[1] < p[2])}
      order  == InOrder(DOMAIN detections, before)
  IN  [k \in DOMAIN order |-> detections[order[k]]]

apply_substitution(text, detections, salt) ==
  LET done == Loop(LAMBDA acc, det : Substitute(text, salt, acc, det),
                   [out |-> <<>>, cursor |-> 0, components |-> <<>>], SortedByStart(detections))
  IN  [sanitised_text |-> done.out \o SubSeq(text, done.cursor + 1, Len(text)),
       components     |-> done.components]

-----------------------------------------------------------------------------
\* s in text, and where.
MatchesAt(text, i, s) == i + Len(s) - 1 <= Len(text) /\ SubSeq(text, i, i + Len(s) - 1) = s

Occurs(text, s) == \E i \in 1 .. Len(text) + 1 : MatchesAt(text, i, s)

\* Mutant: only the first occurrence is replaced.
ReplaceOnce(text, s, o) ==
  LET hits == {i \in DOMAIN text : MatchesAt(text, i, s)}
      i    == CHOOSE i \in hits : \A j \in hits : i <= j
  IN  IF hits = {} THEN text
      ELSE SubSeq(text, 1, i - 1) \o o \o SubSeq(text, i + Len(s), Len(text))

\* str.replace of a string that is not empty: every occurrence, from the left,
\* none inside another.
Replace(text, s, o) ==
  LET from[i \in 1 .. Len(text) + 1] ==
        CASE i > Len(text)         -> <<>>
          [] MatchesAt(text, i, s) -> o \o from[i + Len(s)]
          [] OTHER                 -> <<text[i]>> \o from[i + 1]
  IN  from[1]

Candidates == FlattenSeq([n \in DOMAIN forward.components |-> forward.components[n].value])

\* Mutant: sorted by length, not by descending length.
ShortestFirst(cs) ==
  LET before(m, n) == \/ Len(cs[m].surface) < Len(cs[n].surface)
                      \/ Len(cs[m].surface) = Len(cs[n].surface) /\ m < n
      order == SortSeq([n \in DOMAIN cs |-> n], before)
  IN  [n \in DOMAIN cs |-> cs[order[n]]]

\* candidates.sort(key=-len(surface)), which is stable.
LongestFirst(cs) ==
  LET before(m, n) == \/ Len(cs[m].surface) > Len(cs[n].surface)
                      \/ Len(cs[m].surface) = Len(cs[n].surface) /\ m < n
      order == SortSeq([n \in DOMAIN cs |-> n], before)
  IN  [n \in DOMAIN cs |-> cs[order[n]]]

Restore(acc, c) ==
  IF c.surface # <<>> /\ Occurs(acc.text, c.surface)
  THEN [text      |-> Replace(acc.text, c.surface, c.original_surface),
        direct    |-> acc.direct + (IF c.kind = "full" THEN 1 ELSE 0),
        component |-> acc.component + (IF c.kind = "full" THEN 0 ELSE 1)]
  ELSE acc

\* Mutant: an entity is novel when it is no surface, wherever it is found.
NovelAnywhere(known, text) == {e \in response.ner : e \notin known /\ Occurs(response.text, e)}

\* Entities of the answer that are not registered and survived the reversal.
NovelEntities(known, text) ==
  {e \in response.ner : /\ e \notin known
                        /\ Occurs(text, e)
                        /\ Occurs(response.text, e)}

reverse_substitution ==
  LET cs   == LongestFirst(Candidates)
      done == FoldLeft(Restore, [text |-> response.text, direct |-> 0, component |-> 0], cs)
  IN  [text           |-> done.text,
       direct         |-> done.direct,
       component      |-> done.component,
       novel_entities |-> NovelEntities({cs[n].surface : n \in DOMAIN cs}, done.text)]

-----------------------------------------------------------------------------
Used == {Detections[n].entity : n \in DOMAIN Detections}

\* Every way the hash can fall on the entities of the request.
Picks == LET drawn == {e \in Used : e.type \in DOMAIN Pool}
         IN  {f \in [drawn -> UNION {_pick(Pool[t]) : t \in DOMAIN Pool}] :
                \A e \in drawn : f[e] \in _pick(Pool[e.type])}

Init == /\ segments \in BoundedSeq(Segment, MaxSegments)
        /\ pick \in Picks
        /\ forward = Null /\ response = Null /\ reverse = Null /\ reply = Null

Sanitise == /\ forward = Null
            /\ forward' = apply_substitution(Text, Detections, pick)
            /\ UNCHANGED <<segments, pick, response, reverse, reply>>

\* A piece of an answer: plain text, or the mention of a registered surface,
\* with the text it stands for.
Passage(text, original) == [text |-> text, original |-> original]
Mentions == {Passage(c.surface, c.original_surface) : c \in ToSet(Candidates)}

\* The upstream may also use the words of a synthetic value that no surface is.
Fragments == {w \in UNION {ToSet(split(forward.components[n].key)) : n \in DOMAIN forward.components} :
                \A c \in ToSet(Candidates) : c.surface # w}

\* The request, as it was sent upstream.
Echo == [k \in DOMAIN segments |->
           Passage(IF segments[k].type = "plain" THEN segments[k].text ELSE synthetic_for(segments[k], pick),
                 segments[k].text)]

Answers == {Echo} \cup BoundedSeq(Mentions \cup {Passage(t, t) : t \in Plain \cup Fragments},
                                 MaxSize - Len(segments))

\* The contents of the choices, Null for a message without one: the upstream
\* repeats what it was sent, once or in two choices, or writes something of its
\* own, or nothing.
ChoiceContents(pieces) ==
  IF pieces = Echo THEN {<<forward.sanitised_text>>, <<forward.sanitised_text, forward.sanitised_text>>}
  ELSE IF pieces = <<>> THEN {<<>>, <<Null>>, <<Joined(pieces)>>}
  ELSE {<<Joined(pieces)>>}

_extract_response_text(choices) ==
  IF choices = <<>> \/ choices = <<Null>> THEN <<>> ELSE choices[1]

\* NER reports at most one name, of whole words; nothing when it fails.
_post_response_entities(text) ==
  LET breaks == {0, Len(text) + 1} \cup {i \in DOMAIN text : text[i] = " "}
      names  == {SubSeq(text, p[1] + 1, p[2] - 1) : p \in {q \in breaks \X breaks : q[1] + 1 < q[2]}}
  IN  {{}} \cup {{e} : e \in {n \in names : Head(n) # " " /\ Last(n) # " "}}

Answer == /\ forward # Null /\ response = Null
          /\ \E pieces \in Answers : \E choices \in ChoiceContents(pieces) :
             LET text == _extract_response_text(choices)
             IN  \E ner \in _post_response_entities(text) :
                   response' = [choices |-> choices, text |-> text, ner |-> ner, pieces |-> pieces]
          /\ UNCHANGED <<segments, pick, forward, reverse, reply>>

\* The first choice gets the restored text; the others stay as they came.
_replace_response_text(choices, text) ==
  IF choices = <<>> THEN <<>> ELSE [choices EXCEPT ![1] = text]

Desanitise == /\ response # Null /\ reverse = Null
              /\ reverse' = reverse_substitution
              /\ reply' = _replace_response_text(response.choices, reverse'.text)
              /\ UNCHANGED <<segments, pick, forward, response>>

Next == Sanitise \/ Answer \/ Desanitise

Spec == Init /\ [][Next]_vars

-----------------------------------------------------------------------------
\* The reference for forward substitution: each span is replaced by itself, from
\* the last to the first, so that no offset ever moves.
Splice(text, det, synthetic) == SubSeq(text, 1, det.start) \o synthetic \o SubSeq(text, det.end + 1, Len(text))

Spliced(text, detections, salt) ==
  Loop(LAMBDA t, det : Splice(t, det, synthetic_for(det.entity, salt)), text, Reverse(detections))

\* The pieces apply_substitution puts together with its cursor are the text with
\* each accepted span replaced, and nothing else moved, lost or repeated.
ForwardSplices == forward # Null => forward.sanitised_text = Spliced(Text, Detections, pick)

-----------------------------------------------------------------------------
(* What the answer means: each mention stands for its original.              *)

Standing == {k \in DOMAIN response.pieces : response.pieces[k].text # response.pieces[k].original}

\* The answer with the mentions R restored.
Restored(R) ==
  [k \in DOMAIN response.pieces |->
     [text |-> IF k \in R THEN response.pieces[k].original ELSE response.pieces[k].text]]

\* The characters of some pieces that are in its pieces K.
Characters(pieces, K) ==
  UNION {Len(Beginnings(pieces)[k - 1]) + 1 .. Len(Beginnings(pieces)[k]) : k \in K}

\* No mention has two meanings.
Unambiguous ==
  \A k \in DOMAIN response.pieces, c \in ToSet(Candidates) :
    c.surface = response.pieces[k].text => c.original_surface = response.pieces[k].original

\* "The synthetic dictionary is chosen to avoid common-word collisions"
\* (substitution/engine.py:96): at whatever point of the reversal, a surface is
\* found only inside a mention that still stands, never in plain text, in what
\* was restored, or across a border.  (Nothing checks it, and words do collide:
\* with Blida replaced by Oran, the word Orange comes back as Blidage.)
NoCollision ==
  \A R \in SUBSET Standing :
    LET now == Restored(R)
    IN  \A c \in {d \in ToSet(Candidates) : d.surface # d.original_surface}, i \in DOMAIN Joined(now) :
          MatchesAt(Joined(now), i, c.surface) =>
            \E k \in Standing \ R : i .. i + Len(c.surface) - 1 \subseteq Characters(now, {k})

Echoed == reverse # Null /\ response.choices # <<>> /\ response.pieces = Echo

\* An answer that repeats the request verbatim reaches the caller as the original
\* request, when the dictionaries avoided collisions: in its first choice, the
\* only one the gateway restores.
RoundTripApart == Echoed /\ Unambiguous /\ NoCollision => reply[1] = Text

\* The same without the provisos (PRD.md: the calling application sees original
\* values).
RoundTrip == Echoed => reply[1] = Text

\* Replacing one surface after another, each over the whole text, restores every
\* mention to what it stands for and leaves the rest as it was, in any answer,
\* when there are no collisions: a full name is not taken apart by its own first
\* or last name, partial mentions and honorifics give the matching part of the
\* right original, and what was restored is never rewritten.
MentionsRestored ==
  reverse # Null /\ Unambiguous /\ NoCollision => reverse.text = Joined(Restored(Standing))

\* Occurrences of e in a text that touch, or do not touch, some places.
OccursAt(text, e) == {i .. i + Len(e) - 1 : i \in {j \in DOMAIN text : MatchesAt(text, j, e)}}

\* The entities flagged for the dashboard are the unregistered ones the upstream
\* brought in: each that stands apart from what is restored is flagged, and one
\* that is flagged stands so, or is shown by an original that came back.
NovelAreForeign ==
  reverse # Null /\ Unambiguous /\ NoCollision =>
    LET restored == Characters(response.pieces, Standing)
        back     == Characters(Restored(Standing), Standing)
        foreign(e) == \E hit \in OccursAt(response.text, e) : hit \cap restored = {}
        shown(e)   == \E hit \in OccursAt(reverse.text, e) : hit \cap back # {}
    IN  \A e \in response.ner :
          IF \E c \in ToSet(Candidates) : c.surface = e
          THEN e \notin reverse.novel_entities
          ELSE /\ foreign(e) => e \in reverse.novel_entities
               /\ e \in reverse.novel_entities => foreign(e) \/ shown(e)
=============================================================================
