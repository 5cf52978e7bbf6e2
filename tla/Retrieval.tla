----------------------------- MODULE Retrieval -----------------------------
(***************************************************************************)
(* HybridRetriever.retrieve (retrieval/engine.py): the rules one request   *)
(* hands to the contextual detector, on top of the rule store.             *)
(*                                                                         *)
(* The rows come in any order: neither backend promises one.  The tokens   *)
(* of the request and the lower-cased description and keywords of a rule   *)
(* are reduced to which terms occur in which rule, Haystack.               *)
(***************************************************************************)
EXTENDS RuleStore, Lists, SequencesExt

CONSTANTS Term,       \* the words of three letters or more
          Haystack,   \* Haystack[k]: the terms found in a rule with content k
          TopK        \* top_k_tier3

\* A table and a rule's words are finite, and no limit is negative.
ASSUME RetrievalAssumption == /\ IsFiniteSet(DOMAIN Seed)
                              /\ \A k \in Content : IsFiniteSet(Haystack[k])
                              /\ TopK \in Nat

VARIABLE asked        \* the last retrieval: who, for which terms, what it got

retrievalVars == <<vars, asked>>

Score(terms, i) == Cardinality(terms \cap Haystack[rules[i].content])

\* Mutant: a stable sort in ascending order.
LowestFirst(terms, rows) ==
  LET scored == At(rows, {n \in DOMAIN rows : Score(terms, rows[n]) > 0})
      score(n) == Score(terms, scored[n])
      before == {p \in (DOMAIN scored) \X (DOMAIN scored) :
                   score(p[1]) < score(p[2]) \/ (score(p[1]) = score(p[2]) /\ p[1] < p[2])}
      order == InOrder(DOMAIN scored, before)
  IN  [n \in DOMAIN order |-> scored[order[n]]]

\* Rules no term occurs in are dropped; the others are sorted, best first, and
\* rules of equal score keep their order.
_rank_by_keyword(terms, rows) ==
  LET scored == At(rows, {n \in DOMAIN rows : Score(terms, rows[n]) > 0})
      score(n) == Score(terms, scored[n])
      before == {p \in (DOMAIN scored) \X (DOMAIN scored) :
                   score(p[1]) > score(p[2]) \/ (score(p[1]) = score(p[2]) /\ p[1] < p[2])}
      order == InOrder(DOMAIN scored, before)
  IN  [n \in DOMAIN order |-> scored[order[n]]]

OfTier(rows, t) == At(rows, {n \in DOMAIN rows : rules[rows[n]].tier = t})

\* Mutant: country rules too have to share a term with the request.
RankCountryRules(terms, rows) ==
  LET ranked == _rank_by_keyword(terms, OfTier(rows, 3))
  IN  _rank_by_keyword(terms, OfTier(rows, 1)) \o OfTier(rows, 2)
        \o SubSeq(ranked, 1, IF Len(ranked) < TopK THEN Len(ranked) ELSE TopK)

retrieve(terms, rows) ==
  LET ranked == _rank_by_keyword(terms, OfTier(rows, 3))
  IN  OfTier(rows, 1) \o OfTier(rows, 2)
        \o SubSeq(ranked, 1, IF Len(ranked) < TopK THEN Len(ranked) ELSE TopK)

Retrieve(c, terms) ==
  /\ asked = Null
  /\ \E rows \in SetToSeqs(list_for_customer(c, {})) :
       asked' = [customer |-> c, terms |-> terms, snippets |-> retrieve(terms, rows)]
  /\ UNCHANGED vars

\* The detector has got its rules.
Served == asked # Null /\ asked' = Null /\ UNCHANGED vars

StoreCall == asked = Null /\ Next /\ UNCHANGED asked

RetrievalInit == Init /\ asked = Null

RetrievalNext == \/ StoreCall \/ Served
                 \/ \E c \in Customer, terms \in SUBSET Term : Retrieve(c, terms)

RetrievalSpec == RetrievalInit /\ [][RetrievalNext]_retrievalVars

-----------------------------------------------------------------------------
Snippets == ToSet(asked.snippets)

\* The customer's own rules worth showing the detector.
Relevant == {i \in list_for_customer(asked.customer, {}) :
               rules[i].tier = 3 /\ Score(asked.terms, i) > 0}

\* Whatever the customers did before, a request is always checked against every
\* enabled country rule the vendor installed for the caller's country
\* (retrieval/engine.py: "Tier 1 rules are always included"), and against no
\* rule of another customer or country.
BaselineAlwaysChecked ==
  asked # Null =>
    /\ \A i \in DOMAIN Seed : Visible(asked.customer, {}, Seed[i]) /\ Seed[i].tier # 3
                                => i \in Snippets
    /\ Snippets \subseteq list_for_customer(asked.customer, {})

\* Of the customer's own rules the detector gets the TopK most relevant, each
\* once and in order of relevance, and all of them when they are fewer: no rule
\* left out is more relevant than one that was taken.
MostRelevantTaken ==
  asked # Null =>
    LET taken == Snippets \cap Relevant
        own   == At(asked.snippets, {n \in DOMAIN asked.snippets : rules[asked.snippets[n]].tier = 3})
    IN  /\ Cardinality(taken)
             = IF Cardinality(Relevant) < TopK THEN Cardinality(Relevant) ELSE TopK
        /\ ToSet(own) = taken /\ Len(own) = Cardinality(taken)
        /\ \A i \in taken, j \in Relevant \ taken :
             Score(asked.terms, j) <= Score(asked.terms, i)
        /\ \A m, n \in DOMAIN own :
             m < n => Score(asked.terms, own[n]) <= Score(asked.terms, own[m])
=============================================================================
