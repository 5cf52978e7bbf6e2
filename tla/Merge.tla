------------------------------- MODULE Merge -------------------------------
(***************************************************************************)
(* MergeEngine.merge (merge/engine.py): from the detections of the three   *)
(* detectors to the spans that will be masked.  Spans are half open, as in *)
(* the code; confidences are hundredths.                                   *)
(***************************************************************************)
EXTENDS Detectors

CONSTANT Threshold       \* Threshold[t]: confidence required in tier t

\* min(0.99, c + 0.05)
Boost(c) == IF c + 5 < 99 THEN c + 5 ELSE 99

DETECTOR_PRECEDENCE == [d \in {"structural", "structural.dz", "ner", "contextual"} |->
                          CASE d = "ner" -> 1 [] d = "contextual" -> 2 [] OTHER -> 0]
Precedence(d) == IF d \in DOMAIN DETECTOR_PRECEDENCE THEN DETECTOR_PRECEDENCE[d] ELSE 99

-----------------------------------------------------------------------------
_span_matches(text, d) ==
  /\ d.start >= 0 /\ d.end <= Len(text) /\ d.end > d.start
  /\ Slice(text, d.start, d.end) = d.text

matches_anything(exc) ==
  exc.rule_id # Null \/ exc.entity_type # Null \/ exc.text_match # Null

_exception_applies(exc, d) ==
  /\ matches_anything(exc)
  /\ exc.rule_id \in {Null, d.rule_id}
  /\ exc.entity_type \in {Null, d.entity_type}
  /\ exc.text_match \in {Null, d.text}

_threshold(tier) == Threshold[IF tier \in DOMAIN Threshold THEN tier ELSE 3]

-----------------------------------------------------------------------------
(* Overlap resolution works on positions in the list ds. *)

\* sorted(detections, key=(start, -end)), which is stable.
StartsFirst(ds, i, j) ==
  \/ ds[i].start < ds[j].start
  \/ ds[i].start = ds[j].start /\ ds[i].end > ds[j].end
  \/ ds[i].start = ds[j].start /\ ds[i].end = ds[j].end /\ i < j

\* (Mutant: the detections are clustered in the order they came.)
ListedPositions(ds) == [i \in DOMAIN ds |-> i]

SortedPositions(ds) ==
  InOrder(DOMAIN ds, {p \in (DOMAIN ds) \X (DOMAIN ds) : StartsFirst(ds, p[1], p[2])})

\* Mutants: the end of a cluster is that of its last member; spans that only
\* touch are joined.
ExtendNearest(ds, acc, i) ==
  IF ds[i].start < acc.end
  THEN [clusters |-> [acc.clusters EXCEPT ![Len(acc.clusters)] = Append(@, i)],
        end      |-> ds[i].end]
  ELSE [clusters |-> Append(acc.clusters, <<i>>), end |-> ds[i].end]

ExtendTouching(ds, acc, i) ==
  IF acc.clusters # <<>> /\ ds[i].start <= acc.end
  THEN [clusters |-> [acc.clusters EXCEPT ![Len(acc.clusters)] = Append(@, i)],
        end      |-> IF ds[i].end > acc.end THEN ds[i].end ELSE acc.end]
  ELSE [clusters |-> Append(acc.clusters, <<i>>), end |-> ds[i].end]

\* One round of the clustering loop: i joins the current cluster or opens one.
Extend(ds, acc, i) ==
  IF ds[i].start < acc.end
  THEN [clusters |-> [acc.clusters EXCEPT ![Len(acc.clusters)] = Append(@, i)],
        end      |-> IF ds[i].end > acc.end THEN ds[i].end ELSE acc.end]
  ELSE [clusters |-> Append(acc.clusters, <<i>>), end |-> ds[i].end]

Clusters(ds) ==
  Loop(LAMBDA acc, i : Extend(ds, acc, i),
       [clusters |-> <<>>, end |-> 0], SortedPositions(ds)).clusters

SpanLength(d) == d.end - d.start

\* sort_key of _pick_cluster_winner: longer, then lower tier, then precedence.
Outranks(d, e) ==
  LET before == Precedence(d.detector) < Precedence(e.detector)
  IN  \/ SpanLength(d) > SpanLength(e)
      \/ SpanLength(d) = SpanLength(e) /\ d.tier < e.tier
      \/ SpanLength(d) = SpanLength(e) /\ d.tier = e.tier /\ before

\* The first of the cluster that none outranks.
Winner(ds, cluster) ==
  cluster[SelectInSeq(cluster, LAMBDA i :
            ~ \E k \in DOMAIN cluster : Outranks(ds[cluster[k]], ds[i]))]

\* Other detectors' reports of the very span of w.
Corroborating(ds, cluster, w) ==
  {i \in ToSet(cluster) : /\ ds[i].start = ds[w].start /\ ds[i].end = ds[w].end
                          /\ ds[i].detector # ds[w].detector}

\* The winner, with a higher confidence when another detector reported its span:
\* higher than its own, where the docstring (engine.py:11) has the greatest raised.
_pick_cluster_winner(ds, cluster) ==
  LET w == Winner(ds, cluster)
      boosted == Boost(ds[w].confidence)
  IN  IF Corroborating(ds, cluster, w) # {} /\ boosted > ds[w].confidence
      THEN [ds[w] EXCEPT !.confidence = boosted]
      ELSE ds[w]

_resolve_overlaps(ds) ==
  [k \in DOMAIN Clusters(ds) |-> _pick_cluster_winner(ds, Clusters(ds)[k])]

-----------------------------------------------------------------------------
Excepted(excs, d) == \E exc \in excs : _exception_applies(exc, d)
Confident(d) == d.confidence >= _threshold(d.tier)

\* Mutant: exceptions are applied to the winners, after overlap resolution.
MergeExceptionsLast(text, ds, excs) ==
  LET valid == Filter(ds, LAMBDA d : _span_matches(text, d))
      won   == _resolve_overlaps(Filter(valid, Confident))
  IN  [accepted             |-> Filter(won, LAMBDA d : ~Excepted(excs, d)),
       span_invalid         |-> Filter(ds, LAMBDA d : ~_span_matches(text, d)),
       exception_suppressed |-> Filter(won, LAMBDA d : Excepted(excs, d)),
       below_threshold      |-> Filter(valid, LAMBDA d : ~Confident(d))]

merge(text, ds, excs) ==
  LET valid     == Filter(ds, LAMBDA d : _span_matches(text, d))
      validated == Filter(valid, LAMBDA d : ~Excepted(excs, d))
  IN  [accepted             |-> _resolve_overlaps(Filter(validated, Confident)),
       span_invalid         |-> Filter(ds, LAMBDA d : ~_span_matches(text, d)),
       exception_suppressed |-> Filter(valid, LAMBDA d : Excepted(excs, d)),
       below_threshold      |-> Filter(validated, LAMBDA d : ~Confident(d))]
=============================================================================
