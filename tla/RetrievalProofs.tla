-------------------------- MODULE RetrievalProofs --------------------------
(***************************************************************************)
(* The rules and exceptions a request is processed with, for any set of    *)
(* customers, rules and exceptions.  Of the stores: tenant isolation and   *)
(* the immutability of vendor rules, over Postgres whatever ids customers  *)
(* choose, over the in-memory store only when their ids are apart.  Of     *)
(* retrieval: what the contextual detector is handed, for any terms and    *)
(* any limit, whatever order the store lists its rows in.                  *)
(***************************************************************************)
EXTENDS Retrieval, ListProofs

\* The backend keeps the rows of different owners apart, or the callers do.
Guarded == Backend = "postgres" \/ IdsApart

\* A customer's rules are under ids it chose, or were installed as its own.
OwnersChose ==
  \A i \in RuleId : rules[i] # Null /\ rules[i].tier = 3 =>
    \/ i \in Chosen[rules[i].customer_id]
    \/ i \in DOMAIN Seed /\ Seed[i].customer_id = rules[i].customer_id

IInv == TypeOK /\ OwnersMatchTiers /\ OwnersChose /\ VendorRulesImmutable

\* What Rule's __post_init__ gives: a tier 3 rule has an owner.
LEMMA RuleFields ==
  ASSUME NEW r \in Rule
  PROVE  /\ r.tier \in 1 .. 3 /\ r.customer_id \in Customer \cup {Null}
         /\ r.tier = 3 => r.customer_id \in Customer
         /\ \A k \in Content, b \in BOOLEAN : [r EXCEPT !.content = k, !.enabled = b] \in Rule
BY DEF Rule

\* A write by the owner of r to an id it chose yields a well-formed row, and
\* replaces only an unused id or a row of the same owner.
LEMMA WrittenIsOwn ==
  ASSUME Guarded, IInv, NEW c \in Customer, NEW i \in Chosen[c], NEW r \in Rule,
         r.tier = 3, r.customer_id = c
  PROVE  /\ Written(i, r) \in Rule
         /\ \/ Written(i, r) = rules[i]
            \/ /\ Written(i, r).tier = 3 /\ Written(i, r).customer_id = c
               /\ rules[i] # Null => rules[i].tier = 3 /\ rules[i].customer_id = c
<1>1. i \in RuleId /\ rules[i] \in Rule \cup {Null}
  BY CustomerAssumption DEF IInv, TypeOK
<1>2. CASE rules[i] = Null
  BY <1>2, RuleFields DEF Written
<1>3. CASE rules[i] # Null /\ Backend = "postgres"
  <2>1. rules[i] \in Rule
    BY <1>1, <1>3
  <2>2. r.content \in Content /\ r.enabled \in BOOLEAN
    BY DEF Rule
  <2>3. CASE rules[i].customer_id = c
    <3>1. Written(i, r) = [rules[i] EXCEPT !.content = r.content, !.enabled = r.enabled]
      BY <1>3, <2>3 DEF Written
    <3>2. rules[i].tier = 3
      BY <1>1, <1>3, <2>3, CustomerAssumption DEF IInv, OwnersMatchTiers
    <3>3. [rules[i] EXCEPT !.content = r.content, !.enabled = r.enabled] \in Rule
      BY <2>1, <2>2, RuleFields
    <3>4. /\ [rules[i] EXCEPT !.content = r.content, !.enabled = r.enabled].tier = 3
          /\ [rules[i] EXCEPT !.content = r.content, !.enabled = r.enabled].customer_id = c
      BY <2>1, <2>3, <3>2 DEF Rule
    <3> QED BY <2>3, <3>1, <3>2, <3>3, <3>4
  <2>4. CASE rules[i].customer_id # c
    BY <1>3, <2>1, <2>4 DEF Written
  <2> QED BY <2>3, <2>4
<1>4. CASE rules[i] # Null /\ Backend # "postgres"
  <2>1. Written(i, r) = r
    BY <1>4, BackendAssumption DEF Written
  <2>2. IdsApart
    BY <1>4 DEF Guarded
  <2>3. i \in DOMAIN Seed => Seed[i].customer_id = c
    BY <2>2 DEF IdsApart
  <2>4. \A d \in Customer : d # c => i \notin Chosen[d]
    BY <2>2 DEF IdsApart
  <2>5. rules[i] \in Rule
    BY <1>1, <1>4
  <2>6. rules[i].tier = 3
    <3> SUFFICES ASSUME rules[i].tier # 3 PROVE FALSE
      OBVIOUS
    <3>1. i \in DOMAIN Seed /\ rules[i] = Seed[i]
      BY <1>1, <1>4 DEF IInv, VendorRulesImmutable
    <3>2. Seed[i].customer_id = Null
      BY <3>1, SeedAssumption
    <3> QED BY <3>1, <3>2, <2>3, CustomerAssumption
  <2>7. rules[i].customer_id \in Customer
    BY <2>5, <2>6, RuleFields
  <2>8. rules[i].customer_id = c
    BY <1>1, <1>4, <2>3, <2>4, <2>6, <2>7 DEF IInv, OwnersChose
  <2> QED BY <2>1, <2>6, <2>8
<1> QED BY <1>2, <1>3, <1>4

\* The one fact about a step: a row that changes is a customer row of the
\* actor, before and after, or a free id; exceptions change only in the actor's.
ChangesOwn ==
  /\ actor' \in Customer
  /\ rules' \in [RuleId -> Rule \cup {Null}]
  /\ \A i \in RuleId : rules'[i] # rules[i] =>
       /\ rules[i]  # Null => rules[i].tier  = 3 /\ rules[i].customer_id  = actor'
       /\ rules'[i] # Null => /\ rules'[i].tier = 3 /\ rules'[i].customer_id = actor'
                              /\ i \in Chosen[actor']
  /\ exceptions' \subseteq RuleException
  /\ \A x \in RuleException : x.customer_id # actor' => (x \in exceptions' <=> x \in exceptions)

\* Every operation of a customer is of that kind.
LEMMA StepChangesOwn == ASSUME Guarded, IInv, Next PROVE ChangesOwn
<1>1. PICK c \in Customer :
        \/ \E i \in Chosen[c], r \in Rule : UpsertTier3(c, i, r)
        \/ \E i \in RuleId : DeleteTier3(c, i)
        \/ \E e \in RuleException : AddException(c, e)
        \/ \E id \in ExceptionId : RemoveException(c, id)
  BY DEF Next
<1>t. TypeOK
  BY DEF IInv
<1>2. CASE \E i \in Chosen[c], r \in Rule : UpsertTier3(c, i, r)
  <2>1. PICK i \in Chosen[c], r \in Rule : UpsertTier3(c, i, r)
    BY <1>2
  <2>2. i \in RuleId
    BY CustomerAssumption
  <2>3. CASE r.tier = 3 /\ r.customer_id = c
    <3>1. rules' = [rules EXCEPT ![i] = Written(i, r)] /\ actor' = c /\ exceptions' = exceptions
      BY <2>1, <2>3 DEF UpsertTier3
    <3>2. /\ Written(i, r) \in Rule
          /\ \/ Written(i, r) = rules[i]
             \/ /\ Written(i, r).tier = 3 /\ Written(i, r).customer_id = c
                /\ rules[i] # Null => rules[i].tier = 3 /\ rules[i].customer_id = c
      BY <2>3, WrittenIsOwn
    <3> QED BY <1>t, <2>2, <3>1, <3>2 DEF ChangesOwn, TypeOK
  <2>4. CASE ~(r.tier = 3 /\ r.customer_id = c)
    BY <1>t, <2>1, <2>4 DEF UpsertTier3, ChangesOwn, TypeOK
  <2> QED BY <2>3, <2>4
<1>3. CASE \E i \in RuleId : DeleteTier3(c, i)
  BY <1>t, <1>3 DEF DeleteTier3, Owned, ChangesOwn, TypeOK
<1>4. CASE \E e \in RuleException : AddException(c, e)
  <2>1. PICK e \in RuleException : AddException(c, e)
    BY <1>4
  <2>2. exceptions' = exceptions \/ (e.customer_id = c /\ exceptions' = exceptions \cup {e})
    BY <2>1 DEF AddException
  <2>3. rules' = rules /\ actor' = c
    BY <2>1 DEF AddException
  <2> QED BY <1>t, <2>2, <2>3 DEF ChangesOwn, TypeOK
<1>5. CASE \E id \in ExceptionId : RemoveException(c, id)
  BY <1>t, <1>5 DEF RemoveException, Matching, ChangesOwn, TypeOK
<1> QED BY <1>1, <1>2, <1>3, <1>4, <1>5

\* The seed satisfies the invariant.
LEMMA InitIInv == ASSUME Init PROVE IInv
<1>1. \A i \in RuleId : rules[i] = IF i \in DOMAIN Seed THEN Seed[i] ELSE Null
  BY DEF Init
<1>2. TypeOK
  BY SeedAssumption DEF Init, TypeOK
<1>3. OwnersMatchTiers
  BY <1>1, SeedAssumption, CustomerAssumption, RuleFields DEF OwnersMatchTiers
<1>4. OwnersChose
  BY <1>1, SeedAssumption DEF OwnersChose
<1>5. VendorRulesImmutable
  BY <1>1, SeedAssumption DEF VendorRulesImmutable
<1> QED BY <1>2, <1>3, <1>4, <1>5 DEF IInv

\* Every call preserves it.
LEMMA NextIInv == ASSUME Guarded, IInv, [Next]_vars PROVE IInv'
<1>1. CASE UNCHANGED vars
  BY <1>1 DEF IInv, TypeOK, OwnersMatchTiers, OwnersChose, VendorRulesImmutable, vars
<1>2. CASE Next
  <2>1. ChangesOwn
    BY <1>2, StepChangesOwn
  <2>2. TypeOK'
    BY <2>1 DEF ChangesOwn, TypeOK
  <2>3. OwnersMatchTiers'
    BY <2>1, CustomerAssumption DEF ChangesOwn, IInv, OwnersMatchTiers
  <2>4. OwnersChose'
    BY <2>1 DEF ChangesOwn, IInv, OwnersChose
  <2>5. VendorRulesImmutable'
    <3>1. ASSUME NEW i \in RuleId, rules[i] # Null, rules[i].tier # 3
          PROVE  rules'[i] = rules[i]
      BY <2>1, <3>1 DEF ChangesOwn
    <3>2. ASSUME NEW i \in RuleId, rules'[i] # Null, rules'[i].tier # 3
          PROVE  rules'[i] = rules[i]
      BY <2>1, <3>2 DEF ChangesOwn
    <3> QED BY <3>1, <3>2, SeedAssumption DEF IInv, VendorRulesImmutable
  <2> QED BY <2>2, <2>3, <2>4, <2>5 DEF IInv
<1> QED BY <1>1, <1>2

\* The inductive invariant: the type invariant, that owners and tiers agree, and
\* that the vendor's rows are untouched.
THEOREM Invariance == ASSUME Guarded PROVE Spec => []IInv
<1>1. Init => IInv
  BY InitIInv
<1>2. IInv /\ [Next]_vars => IInv'
  BY NextIInv
<1> QED BY <1>1, <1>2, PTL DEF Spec

\* Type correctness of the rules, the exceptions and the caller.
THEOREM Typing == ASSUME Guarded PROVE Spec => []TypeOK
<1>1. IInv => TypeOK
  BY DEF IInv
<1> QED BY <1>1, Invariance, PTL

\* No sequence of customer calls changes, removes or forges a country or
\* industry rule.
THEOREM VendorRulesSafe == ASSUME Guarded PROVE Spec => []VendorRulesImmutable
<1>1. IInv => VendorRulesImmutable
  BY DEF IInv
<1> QED BY <1>1, Invariance, PTL

\* What the other customers' requests are processed with is the same before and
\* after a step.
LEMMA OthersKeepPolicy ==
  ASSUME ChangesOwn, TypeOK, NEW c \in Customer, c # actor'
  PROVE  Policy(c)' = Policy(c)
<1>1. \A i \in RuleId : Visible(c, {}, rules[i]) \/ Visible(c, {}, rules'[i])
                          => rules'[i] = rules[i]
  <2> SUFFICES ASSUME NEW i \in RuleId, rules'[i] # rules[i],
                      Visible(c, {}, rules[i]) \/ Visible(c, {}, rules'[i])
               PROVE  FALSE
    OBVIOUS
  <2> QED BY DEF ChangesOwn, Visible
<1>2. list_for_customer(c, {})' = list_for_customer(c, {})
  BY <1>1 DEF list_for_customer
<1>3. [i \in list_for_customer(c, {}) |-> rules[i]]'
        = [i \in list_for_customer(c, {}) |-> rules[i]]
  <2>1. \A i \in list_for_customer(c, {}) : rules'[i] = rules[i]
    BY <1>1 DEF list_for_customer
  <2> QED BY <1>2, <2>1
<1>4. list_active(c)' = list_active(c)
  <2>1. {x \in exceptions' : x.customer_id = c} = {x \in exceptions : x.customer_id = c}
    BY DEF ChangesOwn, TypeOK
  <2> QED BY <2>1 DEF list_active
<1> QED BY <1>3, <1>4 DEF Policy

\* A customer's call never changes the rules or the exceptions that another
\* customer's requests are processed with.
THEOREM Isolation == ASSUME Guarded PROVE Spec => TenantIsolation
<1>1. IInv /\ [Next]_vars => [\A c \in Customer : c # actor' => Policy(c)' = Policy(c)]_vars
  BY StepChangesOwn, OthersKeepPolicy DEF IInv
<1> QED BY <1>1, Invariance, PTL DEF Spec, TenantIsolation

-----------------------------------------------------------------------------
(* Retrieval. *)

\* The store holds finitely many rules.
Stored == {i \in RuleId : rules[i] # Null}
StoredFinite == IsFiniteSet(Stored)

\* What was handed out is what retrieve makes of some listing of the rules the
\* caller sees now: no rule changes between the two.
AskedInv ==
  asked # Null =>
    /\ asked.customer \in Customer /\ asked.terms \in SUBSET Term
    /\ \E rows \in SetToSeqs(list_for_customer(asked.customer, {})) :
         asked.snippets = retrieve(asked.terms, rows)

RetrievalInv == IInv /\ StoredFinite /\ AskedInv

\* Each step keeps them.
LEMMA RetrievalStep ==
  ASSUME Guarded, RetrievalInv, [RetrievalNext]_retrievalVars
  PROVE  RetrievalInv'
<1>1. IInv /\ TypeOK
  BY DEF RetrievalInv, IInv
<1>2. ASSUME StoreCall PROVE RetrievalInv'
  <2>1. IInv' /\ AskedInv'
    BY <1>1, <1>2, NextIInv DEF StoreCall, AskedInv
  <2>2. \E i : Stored' \subseteq Stored \cup {i}
    <3>1. \E i : \A j \in RuleId : j # i => rules'[j] = rules[j]
      BY <1>1, <1>2 DEF StoreCall, Next, UpsertTier3, DeleteTier3, AddException, RemoveException,
                        TypeOK
    <3> QED BY <3>1 DEF Stored
  <2>3. StoredFinite'
    BY <2>2, FS_AddElement, FS_Subset DEF RetrievalInv, StoredFinite
  <2> QED BY <2>1, <2>3 DEF RetrievalInv
<1>3. ASSUME UNCHANGED vars PROVE IInv' /\ StoredFinite'
  <2>1. IInv'
    BY <1>1, <1>3, NextIInv
  <2>2. StoredFinite'
    BY <1>3 DEF vars, RetrievalInv, StoredFinite, Stored
  <2> QED BY <2>1, <2>2
<1>4. ASSUME NEW c \in Customer, NEW terms \in SUBSET Term, Retrieve(c, terms)
      PROVE  RetrievalInv'
  <2>1. PICK rows \in SetToSeqs(list_for_customer(c, {})) :
          asked' = [customer |-> c, terms |-> terms, snippets |-> retrieve(terms, rows)]
    BY <1>4 DEF Retrieve
  <2>2. UNCHANGED vars /\ rules' = rules
    BY <1>4 DEF Retrieve, vars
  <2>3. asked'.customer = c /\ asked'.terms = terms /\ asked'.snippets = retrieve(terms, rows)
    BY <2>1
  <2>4. list_for_customer(c, {})' = list_for_customer(c, {})
        /\ retrieve(terms, rows)' = retrieve(terms, rows)
    BY <2>2 DEF list_for_customer, retrieve, _rank_by_keyword, OfTier, Score
  <2>5. AskedInv'
    BY <2>1, <2>3, <2>4 DEF AskedInv
  <2> QED BY <1>3, <2>2, <2>5 DEF RetrievalInv
<1>5. ASSUME Served PROVE RetrievalInv'
  BY <1>3, <1>5 DEF Served, RetrievalInv, AskedInv
<1>6. ASSUME UNCHANGED retrievalVars PROVE RetrievalInv'
  <2>1. UNCHANGED vars /\ rules' = rules /\ asked' = asked
    BY <1>6 DEF retrievalVars, vars
  <2>2. ASSUME NEW c, NEW terms, NEW rows
        PROVE  /\ list_for_customer(c, {})' = list_for_customer(c, {})
               /\ retrieve(terms, rows)' = retrieve(terms, rows)
    BY <2>1 DEF list_for_customer, retrieve, _rank_by_keyword, OfTier, Score
  <2>3. AskedInv'
    <3> SUFFICES ASSUME asked # Null PROVE AskedInv'
      BY <2>1 DEF AskedInv
    <3>1. PICK q : q = asked
      OBVIOUS
    <3>2. PICK rows \in SetToSeqs(list_for_customer(q.customer, {})) :
            q.snippets = retrieve(q.terms, rows)
      BY <3>1 DEF RetrievalInv, AskedInv
    <3>3. rows \in SetToSeqs(list_for_customer(q.customer, {}))' /\ q.snippets = retrieve(q.terms, rows)'
      BY <2>2, <3>2
    <3> QED BY <2>1, <3>1, <3>3 DEF RetrievalInv, AskedInv
  <2> QED BY <1>3, <2>1, <2>3 DEF RetrievalInv
<1> QED BY <1>2, <1>4, <1>5, <1>6 DEF RetrievalNext

\* They hold when the gateway starts.
LEMMA RetrievalInitially == ASSUME RetrievalInit PROVE RetrievalInv
<1>1. IInv
  BY InitIInv DEF RetrievalInit
<1>2. Stored \subseteq DOMAIN Seed
  BY DEF RetrievalInit, Init, Stored
<1>3. StoredFinite
  BY <1>2, FS_Subset, RetrievalAssumption DEF StoredFinite
<1> QED BY <1>1, <1>3 DEF RetrievalInit, RetrievalInv, AskedInv

LEMMA RetrievalInvariance == ASSUME Guarded PROVE RetrievalSpec => []RetrievalInv
BY RetrievalInitially, RetrievalStep, PTL DEF RetrievalSpec

-----------------------------------------------------------------------------
\* Whatever order a backend returns its rows in, it returns each row once.
LEMMA RowsList ==
  ASSUME NEW S, IsFiniteSet(S), NEW rows \in SetToSeqs(S)
  PROVE  ListsOnce(rows, S)
<1> DEFINE n == Cardinality(S)
<1>1. n \in Nat
  BY FS_CardinalityType
<1>2. rows \in [1 .. n -> S] /\ \A i, j \in 1 .. n : i # j => rows[i] # rows[j]
  BY DEF SetToSeqs
<1>3. IsFiniteSet(1 .. n) /\ Cardinality(1 .. n) = n
  BY <1>1, FS_Interval
<1> HIDE DEF n
<1>4. rows \in Injection(1 .. n, S)
  BY <1>2 DEF Injection, IsInjective
<1>5. rows \in Surjection(1 .. n, S)
  BY <1>3, <1>4, FS_Injection DEF n
<1>6. \A x \in S : \E k \in 1 .. n : rows[k] = x
  BY <1>5 DEF Surjection
<1>7. rows \in Seq(S) /\ Len(rows) = n
  BY <1>1, <1>2
<1> QED BY <1>2, <1>6, <1>7 DEF ListsOnce

\* The rules of one tier.
TierOf(L, t) == {i \in L : rules[i].tier = t}

LEMMA TierLists ==
  ASSUME NEW L, NEW rows, ListsOnce(rows, L), NEW t
  PROVE  ListsOnce(OfTier(rows, t), TierOf(L, t))
<1> DEFINE P == TierOf(L, t)
<1>1. DOMAIN rows = 1 .. Len(rows) /\ \A n \in 1 .. Len(rows) : rows[n] \in L
  BY DEF ListsOnce
<1>2. {n \in 1 .. Len(rows) : rows[n] \in P} = {n \in DOMAIN rows : rules[rows[n]].tier = t}
  BY <1>1 DEF TierOf
<1>3. L \cap P = P
  BY DEF TierOf
<1>4. ListsOnce(At(rows, {n \in 1 .. Len(rows) : rows[n] \in P}), L \cap P)
  BY FilterLists
<1> HIDE DEF P
<1> QED BY <1>2, <1>3, <1>4 DEF OfTier, P

\* A score counts terms.
LEMMA ScoreCounts ==
  ASSUME TypeOK, NEW terms, NEW i \in Stored
  PROVE  Score(terms, i) \in Nat
<1>1. rules[i].content \in Content
  BY DEF TypeOK, Stored, Rule
<1>2. IsFiniteSet(terms \cap Haystack[rules[i].content])
  BY <1>1, RetrievalAssumption, FS_Subset
<1> QED BY <1>2, FS_CardinalityType DEF Score

\* The rules that share a term with the request.
Scored(terms, L) == {i \in L : Score(terms, i) > 0}

\* The ranking lists them, best first.
LEMMA RankLists ==
  ASSUME TypeOK, NEW terms, NEW L \in SUBSET Stored, NEW rows, ListsOnce(rows, L),
         NEW ranked, ranked = _rank_by_keyword(terms, rows)
  PROVE  /\ ListsOnce(ranked, Scored(terms, L))
         /\ \A j, k \in 1 .. Len(ranked) :
              j < k => Score(terms, ranked[k]) <= Score(terms, ranked[j])
<1> DEFINE P == Scored(terms, L)
           scored == At(rows, {n \in DOMAIN rows : Score(terms, rows[n]) > 0})
           score(n) == Score(terms, scored[n])
           before == {p \in (DOMAIN scored) \X (DOMAIN scored) :
                        score(p[1]) > score(p[2]) \/ (score(p[1]) = score(p[2]) /\ p[1] < p[2])}
           order == InOrder(DOMAIN scored, before)
<1>1. ListsOnce(scored, P)
  <2>1. DOMAIN rows = 1 .. Len(rows) /\ \A n \in 1 .. Len(rows) : rows[n] \in L
    BY DEF ListsOnce
  <2>2. {n \in 1 .. Len(rows) : rows[n] \in P} = {n \in DOMAIN rows : Score(terms, rows[n]) > 0}
    BY <2>1 DEF Scored
  <2>3. L \cap P = P
    BY DEF Scored
  <2>4. ListsOnce(At(rows, {n \in 1 .. Len(rows) : rows[n] \in P}), L \cap P)
    BY FilterLists
  <2> HIDE DEF P
  <2> QED BY <2>2, <2>3, <2>4
<1>2. ranked = [n \in DOMAIN order |-> scored[order[n]]]
  BY DEF _rank_by_keyword
<1>3. \A i \in L : Score(terms, i) \in Nat
  BY ScoreCounts
<1> HIDE DEF scored
<1>4. DOMAIN scored = 1 .. Len(scored) /\ Len(scored) \in Nat /\ \A n \in 1 .. Len(scored) : scored[n] \in P
  BY <1>1 DEF ListsOnce
<1>5. \A n \in 1 .. Len(scored) : score(n) \in Nat
  BY <1>3, <1>4 DEF Scored
<1>6. \A j, k \in 1 .. Len(scored) :
         <<j, k>> \in before <=> score(j) > score(k) \/ (score(j) = score(k) /\ j < k)
  BY <1>4
<1> HIDE DEF before, score, P
<1>7. StrictOrder(1 .. Len(scored), before)
  <2>1. \A j \in 1 .. Len(scored) : j \in Int
    BY <1>4
  <2>2. \A j \in 1 .. Len(scored) : <<j, j>> \notin before
    BY <1>5, <1>6, <2>1
  <2>3. ASSUME NEW j \in 1 .. Len(scored), NEW k \in 1 .. Len(scored)
        PROVE  j = k \/ <<j, k>> \in before \/ <<k, j>> \in before
    <3>1. score(j) \in Int /\ score(k) \in Int /\ j \in Int /\ k \in Int
      BY <1>5, <2>1
    <3>2. \/ score(j) > score(k) \/ (score(j) = score(k) /\ j < k)
          \/ score(k) > score(j) \/ (score(k) = score(j) /\ k < j)
          \/ j = k
      BY <3>1
    <3> QED BY <1>6, <3>2
  <2>4. ASSUME NEW i \in 1 .. Len(scored), NEW j \in 1 .. Len(scored), NEW k \in 1 .. Len(scored),
               <<i, j>> \in before, <<j, k>> \in before
        PROVE  <<i, k>> \in before
    <3>1. /\ score(i) \in Int /\ score(j) \in Int /\ score(k) \in Int
          /\ i \in Int /\ j \in Int /\ k \in Int
      BY <1>5, <2>1
    <3>2. /\ score(i) > score(j) \/ (score(i) = score(j) /\ i < j)
          /\ score(j) > score(k) \/ (score(j) = score(k) /\ j < k)
      BY <1>6, <2>4
    <3>3. score(i) > score(k) \/ (score(i) = score(k) /\ i < k)
      BY <3>1, <3>2
    <3> QED BY <1>6, <3>3
  <2> QED BY <2>2, <2>3, <2>4 DEF StrictOrder
<1>8. order = InOrder(1 .. Len(scored), before)
  BY <1>4
<1> HIDE DEF order
<1>9. /\ ListsOnce(ranked, P) /\ Len(ranked) = Len(scored)
      /\ \A k \in 1 .. Len(scored) : order[k] \in 1 .. Len(scored) /\ ranked[k] = scored[order[k]]
      /\ \A j, k \in 1 .. Len(scored) : j < k <=> <<order[j], order[k]>> \in before
  BY <1>1, <1>2, <1>7, <1>8, SortedLists
<1>10. ASSUME NEW j \in 1 .. Len(ranked), NEW k \in 1 .. Len(ranked), j < k
       PROVE  Score(terms, ranked[k]) <= Score(terms, ranked[j])
  <2>1. /\ order[j] \in 1 .. Len(scored) /\ order[k] \in 1 .. Len(scored)
        /\ <<order[j], order[k]>> \in before
    BY <1>9, <1>10
  <2>2. score(order[j]) \in Nat /\ score(order[k]) \in Nat
    BY <1>5, <2>1
  <2>3. score(order[k]) <= score(order[j])
    BY <1>6, <2>1, <2>2
  <2> QED BY <1>9, <2>3 DEF score
<1> QED BY <1>9, <1>10 DEF P

\* What was handed out: the rules of tiers 1 and 2, then the first of the
\* customer's own in order of score.
Handed(L, own, ranked, n) ==
  /\ L = list_for_customer(asked.customer, {}) /\ L \subseteq Stored
  /\ own \subseteq Relevant /\ own = {ranked[k] : k \in 1 .. n}
  /\ ListsOnce(ranked, Relevant)
  /\ \A j, k \in 1 .. Len(ranked) :
       j < k => Score(asked.terms, ranked[k]) <= Score(asked.terms, ranked[j])
  /\ n \in 0 .. Len(ranked) /\ n = IF Len(ranked) < TopK THEN Len(ranked) ELSE TopK
  /\ ListsOnce(asked.snippets, TierOf(L, 1) \cup TierOf(L, 2) \cup own)
  /\ \E d \in Nat : \A k \in 1 .. Len(asked.snippets) :
       asked.snippets[k] \in own => k - d \in 1 .. n /\ asked.snippets[k] = ranked[k - d]

LEMMA HandedOut ==
  ASSUME RetrievalInv, asked # Null
  PROVE  \E L, own, ranked, n : Handed(L, own, ranked, n)
<1>1. PICK L, terms, s : L = list_for_customer(asked.customer, {}) /\ terms = asked.terms
                           /\ s = asked.snippets
  OBVIOUS
<1>2. PICK rows \in SetToSeqs(L) : s = retrieve(terms, rows)
  BY <1>1 DEF RetrievalInv, AskedInv
<1>3. TypeOK /\ IsFiniteSet(Stored) /\ L \subseteq Stored
  BY <1>1 DEF RetrievalInv, IInv, StoredFinite, Stored, list_for_customer, Visible
<1>4. ListsOnce(rows, L)
  BY <1>3, FS_Subset, RowsList
<1>5. PICK a, b, c, ranked, n :
        /\ a = OfTier(rows, 1) /\ b = OfTier(rows, 2) /\ c = OfTier(rows, 3)
        /\ ranked = _rank_by_keyword(terms, c)
        /\ n = IF Len(ranked) < TopK THEN Len(ranked) ELSE TopK
  OBVIOUS
<1>6. s = (a \o b) \o SubSeq(ranked, 1, n)
  BY <1>2, <1>5, Zenon DEF retrieve
<1>7. ListsOnce(a, TierOf(L, 1)) /\ ListsOnce(b, TierOf(L, 2)) /\ ListsOnce(c, TierOf(L, 3))
  BY <1>4, <1>5, TierLists
<1>8. TierOf(L, 3) \in SUBSET Stored /\ Scored(terms, TierOf(L, 3)) = Relevant
  BY <1>1, <1>3 DEF TierOf, Scored, Relevant
<1>9. /\ ListsOnce(ranked, Relevant)
      /\ \A j, k \in 1 .. Len(ranked) :
           j < k => Score(terms, ranked[k]) <= Score(terms, ranked[j])
  BY <1>3, <1>5, <1>7, <1>8, RankLists
<1>10. n \in 0 .. Len(ranked)
  <2>1. Len(ranked) \in Nat
    BY <1>9 DEF ListsOnce
  <2> QED BY <1>5, <2>1, RetrievalAssumption
<1>11. PICK own, taken : own = {ranked[k] : k \in 1 .. n} /\ taken = SubSeq(ranked, 1, n)
  OBVIOUS
<1>12. ListsOnce(taken, own) /\ Len(taken) = n /\ \A k \in 1 .. n : taken[k] = ranked[k]
  BY <1>9, <1>10, <1>11, PrefixLists
<1>13. own \subseteq Relevant
  <2>1. \A k \in 1 .. n : k \in 1 .. Len(ranked)
    BY <1>10
  <2>2. \A k \in 1 .. Len(ranked) : ranked[k] \in Relevant
    BY <1>9 DEF ListsOnce
  <2> QED BY <1>11, <2>1, <2>2
<1>14. TierOf(L, 1) \cap TierOf(L, 2) = {} /\ (TierOf(L, 1) \cup TierOf(L, 2)) \cap own = {}
  BY <1>13 DEF TierOf, Relevant
<1>15. PICK ab : ab = a \o b /\ ListsOnce(ab, TierOf(L, 1) \cup TierOf(L, 2))
  <2>1. PICK ab, S : ab = a \o b /\ S = TierOf(L, 1) \cup TierOf(L, 2)
    OBVIOUS
  <2>2. ListsOnce(ab, S)
    BY <1>7, <1>14, <2>1, ConcatLists
  <2> QED BY <2>1, <2>2
<1>16. /\ ListsOnce(s, TierOf(L, 1) \cup TierOf(L, 2) \cup own) /\ Len(s) = Len(ab) + n
       /\ \A k \in 1 .. Len(s) : s[k] = IF k <= Len(ab) THEN ab[k] ELSE taken[k - Len(ab)]
  <2>1. s = ab \o taken
    BY <1>6, <1>11, <1>15
  <2>2. PICK S, U : S = TierOf(L, 1) \cup TierOf(L, 2) /\ U = S \cup own
    OBVIOUS
  <2>3. ListsOnce(ab, S) /\ ListsOnce(taken, own) /\ \A i \in S : i \notin own
    BY <1>12, <1>14, <1>15, <2>2
  <2>4. ListsOnce(s, U)
    BY <2>1, <2>2, <2>3, ConcatLists
  <2>5. Len(s) = Len(ab) + Len(taken)
    BY <2>1, <2>2, <2>3, ConcatLists
  <2>6. ASSUME NEW k \in 1 .. Len(s)
        PROVE  s[k] = IF k <= Len(ab) THEN ab[k] ELSE taken[k - Len(ab)]
    BY <2>1, <2>2, <2>3, ConcatLists
  <2> QED BY <1>12, <2>2, <2>4, <2>5, <2>6
<1>17. Len(ab) \in Nat /\ \A k \in 1 .. Len(ab) : ab[k] \notin own
  BY <1>14, <1>15 DEF ListsOnce
<1>18. ASSUME NEW k \in 1 .. Len(s), s[k] \in own
       PROVE  k - Len(ab) \in 1 .. n /\ s[k] = ranked[k - Len(ab)]
  <2>1. Len(s) \in Nat /\ k \in Int /\ 1 <= k /\ k <= Len(ab) + n /\ n \in Int
    BY <1>10, <1>12, <1>16 DEF ListsOnce
  <2>2. ~(k <= Len(ab))
    BY <1>16, <1>17, <1>18, <2>1
  <2>3. k - Len(ab) \in 1 .. n
    BY <1>17, <2>1, <2>2
  <2> QED BY <1>12, <1>16, <2>2, <2>3
<1>19. Handed(L, own, ranked, n)
  <2>1. \E d \in Nat : \A k \in 1 .. Len(s) : s[k] \in own => k - d \in 1 .. n /\ s[k] = ranked[k - d]
    BY <1>17, <1>18
  <2> QED BY <1>1, <1>3, <1>5, <1>9, <1>10, <1>11, <1>13, <1>16, <2>1 DEF Handed
<1> QED BY <1>19

\* Every request is checked against the whole vendor baseline of its caller's
\* country, for any rules and any calls of the customers, and against nothing
\* of another customer's.
THEOREM BaselineChecked == ASSUME Guarded PROVE RetrievalSpec => []BaselineAlwaysChecked
<1>1. ASSUME RetrievalInv PROVE BaselineAlwaysChecked
  <2> SUFFICES ASSUME asked # Null PROVE BaselineAlwaysChecked
    BY DEF BaselineAlwaysChecked
  <2>1. PICK L, own, ranked, n : Handed(L, own, ranked, n)
    BY <1>1, HandedOut
  <2>2. Snippets = TierOf(L, 1) \cup TierOf(L, 2) \cup own
    <3>1. ListsOnce(asked.snippets, TierOf(L, 1) \cup TierOf(L, 2) \cup own)
      BY <2>1 DEF Handed
    <3> QED BY <3>1 DEF ListsOnce, Snippets, ToSet
  <2>3. Snippets \subseteq list_for_customer(asked.customer, {})
    <3>1. L = list_for_customer(asked.customer, {}) /\ own \subseteq Relevant
      BY <2>1 DEF Handed
    <3>2. Relevant \subseteq L /\ TierOf(L, 1) \subseteq L /\ TierOf(L, 2) \subseteq L
      BY <3>1 DEF TierOf, Relevant
    <3> QED BY <2>2, <3>1, <3>2
  <2>4. ASSUME NEW i \in DOMAIN Seed, Visible(asked.customer, {}, Seed[i]), Seed[i].tier # 3
        PROVE  i \in Snippets
    <3>1. rules[i] = Seed[i] /\ i \in RuleId /\ Seed[i] \in Rule
      BY <1>1, <2>4, SeedAssumption DEF RetrievalInv, IInv, VendorRulesImmutable
    <3>2. i \in L
      BY <2>1, <2>4, <3>1 DEF Handed, list_for_customer
    <3>3. rules[i].tier \in 1 .. 3 /\ rules[i].tier # 3
      BY <2>4, <3>1, RuleFields
    <3>4. rules[i].tier = 1 \/ rules[i].tier = 2
      BY <3>3
    <3> QED BY <2>2, <3>2, <3>4 DEF TierOf
  <2> QED BY <2>3, <2>4 DEF BaselineAlwaysChecked
<1> QED BY <1>1, RetrievalInvariance, PTL

\* Of the customer's own rules the detector gets the most relevant, for any
\* limit, and they are in order of relevance.
THEOREM BestTaken == ASSUME Guarded PROVE RetrievalSpec => []MostRelevantTaken
<1>1. ASSUME RetrievalInv PROVE MostRelevantTaken
  <2> SUFFICES ASSUME asked # Null PROVE MostRelevantTaken
    BY DEF MostRelevantTaken
  <2>1. PICK L, K, ranked, n : Handed(L, K, ranked, n)
    BY <1>1, HandedOut
  <2>2. PICK s, terms : s = asked.snippets /\ terms = asked.terms
    OBVIOUS
  <2> DEFINE taken == Snippets \cap Relevant
             own == At(s, {k \in DOMAIN s : rules[s[k]].tier = 3})
  <2>3. ListsOnce(s, TierOf(L, 1) \cup TierOf(L, 2) \cup K)
    BY <2>1, <2>2 DEF Handed
  <2>4. Snippets = TierOf(L, 1) \cup TierOf(L, 2) \cup K
    BY <2>2, <2>3 DEF ListsOnce, Snippets, ToSet
  <2>5. K \subseteq Relevant /\ (\A i \in Relevant : rules[i].tier = 3)
    BY <2>1 DEF Handed, Relevant
  <2>6. taken = K
    BY <2>4, <2>5 DEF TierOf
  <2>7. ListsOnce(own, K)
    <3>1. DOMAIN s = 1 .. Len(s) /\ \A k \in 1 .. Len(s) : s[k] \in TierOf(L, 1) \cup TierOf(L, 2) \cup K
      BY <2>3 DEF ListsOnce
    <3>2. {k \in DOMAIN s : rules[s[k]].tier = 3} = {k \in 1 .. Len(s) : s[k] \in K}
      BY <2>5, <3>1 DEF TierOf
    <3>3. (TierOf(L, 1) \cup TierOf(L, 2) \cup K) \cap K = K
      OBVIOUS
    <3>4. ListsOnce(At(s, {k \in 1 .. Len(s) : s[k] \in K}), (TierOf(L, 1) \cup TierOf(L, 2) \cup K) \cap K)
      BY <2>3, FilterLists
    <3> QED BY <3>2, <3>3, <3>4
  <2>8. ToSet(own) = K /\ Len(own) = Cardinality(K)
    <3>1. Len(own) = Cardinality(K)
      BY <2>7, ListsOnceLength
    <3> HIDE DEF own
    <3>2. ToSet(own) = K
      BY <2>7 DEF ListsOnce, ToSet
    <3> QED BY <3>1, <3>2
  <2>9. /\ ListsOnce(ranked, Relevant) /\ n \in 0 .. Len(ranked)
        /\ n = IF Len(ranked) < TopK THEN Len(ranked) ELSE TopK
        /\ K = {ranked[k] : k \in 1 .. n}
        /\ \A j, k \in 1 .. Len(ranked) : j < k => Score(terms, ranked[k]) <= Score(terms, ranked[j])
    BY <2>1, <2>2 DEF Handed
  <2>10. Cardinality(K) = IF Cardinality(Relevant) < TopK THEN Cardinality(Relevant) ELSE TopK
    <3>1. Len(ranked) = Cardinality(Relevant)
      BY <2>9, ListsOnceLength
    <3>2. ListsOnce(SubSeq(ranked, 1, n), K) /\ Len(SubSeq(ranked, 1, n)) = n
      BY <2>9, PrefixLists
    <3>3. Cardinality(K) = n
      BY <3>2, ListsOnceLength
    <3> QED BY <2>9, <3>1, <3>3
  <2>11. ASSUME NEW i \in K, NEW j \in Relevant \ K PROVE Score(terms, j) <= Score(terms, i)
    <3>1. PICK k \in 1 .. n : i = ranked[k]
      BY <2>9
    <3>2. PICK l \in 1 .. Len(ranked) : j = ranked[l]
      BY <2>9 DEF ListsOnce
    <3>3. Len(ranked) \in Nat /\ n \in Int /\ n <= Len(ranked) /\ l \in Int /\ k \in Int
      BY <2>9 DEF ListsOnce
    <3>4. l \notin 1 .. n
      BY <2>9, <2>11, <3>2
    <3>5. k < l /\ k \in 1 .. Len(ranked)
      BY <3>3, <3>4
    <3> QED BY <2>9, <3>1, <3>2, <3>5
  <2>12. ASSUME NEW l \in DOMAIN own, NEW m \in DOMAIN own, l < m
         PROVE  Score(terms, own[m]) <= Score(terms, own[l])
    <3> DEFINE I == {k \in DOMAIN s : rules[s[k]].tier = 3}
    <3>1. s \in Seq(TierOf(L, 1) \cup TierOf(L, 2) \cup K) /\ I \in SUBSET (1 .. Len(s)) /\ Len(s) \in Nat
      BY <2>3 DEF ListsOnce
    <3> HIDE DEF I
    <3>2. /\ Cardinality(I) \in Nat /\ Len(own) = Cardinality(I)
          /\ \E p \in [1 .. Cardinality(I) -> I] :
               /\ \A k \in 1 .. Cardinality(I) : own[k] = s[p[k]]
               /\ \A j, k \in 1 .. Cardinality(I) : j < k <=> p[j] < p[k]
      <4>1. own = At(s, I)
        BY DEF I
      <4> HIDE DEF own
      <4>2. PICK X : X = TierOf(L, 1) \cup TierOf(L, 2) \cup K
        OBVIOUS
      <4>3. s \in Seq(X) /\ I \in SUBSET (1 .. Len(s))
        BY <3>1, <4>2
      <4>4. PICK t, c : t = At(s, I) /\ c = Cardinality(I)
        OBVIOUS
      <4>5. /\ c \in Nat /\ Len(t) = c
            /\ \E p \in [1 .. c -> I] :
                 /\ \A k \in 1 .. c : t[k] = s[p[k]]
                 /\ \A i \in I : \E k \in 1 .. c : p[k] = i
                 /\ \A j, k \in 1 .. c : j < k <=> p[j] < p[k]
        BY <4>3, <4>4, AtSelects
      <4> QED BY <4>1, <4>4, <4>5
    <3> HIDE DEF own
    <3>3. PICK p \in [1 .. Len(own) -> I] :
               /\ \A k \in 1 .. Len(own) : own[k] = s[p[k]]
               /\ \A j, k \in 1 .. Len(own) : j < k <=> p[j] < p[k]
      BY <3>2
    <3>4. l \in 1 .. Len(own) /\ m \in 1 .. Len(own) /\ own[l] \in K /\ own[m] \in K
      BY <2>7, <2>12, SMTT(30) DEF ListsOnce
    <3>5. /\ p[l] \in 1 .. Len(s) /\ p[m] \in 1 .. Len(s) /\ p[l] < p[m]
          /\ own[l] = s[p[l]] /\ own[m] = s[p[m]]
      <4>1. p[l] \in I /\ p[m] \in I /\ p[l] < p[m]
        BY <2>12, <3>3, <3>4
      <4> QED BY <3>1, <3>3, <3>4, <4>1
    <3>6. PICK d \in Nat : \A k \in 1 .. Len(s) : s[k] \in K => k - d \in 1 .. n /\ s[k] = ranked[k - d]
      BY <2>1, <2>2 DEF Handed
    <3>7. /\ p[l] - d \in 1 .. n /\ p[m] - d \in 1 .. n
          /\ own[l] = ranked[p[l] - d] /\ own[m] = ranked[p[m] - d]
      BY <3>4, <3>5, <3>6
    <3>8. Len(ranked) \in Nat
      BY <2>9 DEF ListsOnce
    <3>9. p[l] - d \in 1 .. Len(ranked) /\ p[m] - d \in 1 .. Len(ranked) /\ p[l] - d < p[m] - d
      <4>1. PICK x, y : x = p[l] /\ y = p[m]
        OBVIOUS
      <4>2. x \in Int /\ y \in Int /\ x < y /\ n \in Int /\ n <= Len(ranked)
        BY <2>9, <3>5, <3>8, <4>1
      <4>3. x - d >= 1 /\ x - d <= n /\ y - d >= 1 /\ y - d <= n
        BY <3>7, <4>1, <4>2
      <4>4. x - d \in 1 .. Len(ranked) /\ y - d \in 1 .. Len(ranked) /\ x - d < y - d
        BY <3>8, <4>2, <4>3
      <4> QED BY <4>1, <4>4
    <3> QED BY <2>9, <3>7, <3>9
  <2> HIDE DEF own, taken
  <2>13. /\ Cardinality(taken) = IF Cardinality(Relevant) < TopK THEN Cardinality(Relevant) ELSE TopK
         /\ ToSet(own) = taken /\ Len(own) = Cardinality(taken)
         /\ \A i \in taken, j \in Relevant \ taken : Score(terms, j) <= Score(terms, i)
         /\ \A l, m \in DOMAIN own : l < m => Score(terms, own[m]) <= Score(terms, own[l])
    BY <2>6, <2>8, <2>10, <2>11, <2>12
  <2> QED BY <2>2, <2>13, Zenon DEF MostRelevantTaken, own, taken
<1> QED BY <1>1, RetrievalInvariance, PTL
=============================================================================
