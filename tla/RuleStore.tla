----------------------------- MODULE RuleStore -----------------------------
(***************************************************************************)
(* The layered rule base and the customers' exceptions, over either        *)
(* backend: InMemoryRuleStore (rules/store.py) with RuleExceptionStore     *)
(* (rules/exceptions.py), or the two Postgres stores                       *)
(* (rules/postgres_backend.py).                                            *)
(*                                                                         *)
(* Every operation is one SQL statement or runs without an await, so it is *)
(* one step.  Abstractions: what an upsert can change of its own rule      *)
(* (entity type, description, confidence floor, keywords) is one value,    *)
(* content; updated_at and notes are left out; the exceptions of a         *)
(* customer form a set, because merge only asks whether one of them        *)
(* applies; a call refused with an exception changes nothing.              *)
(***************************************************************************)
EXTENDS Naturals

CONSTANTS Backend,      \* "memory" or "postgres"
          Customer,     \* tenants, each in one country
          CountryOf,
          Industry,
          RuleId,       \* rule ids are one namespace for vendor and customers
          Chosen,       \* Chosen[c]: the ids customer c gives its rules
          Content,
          ExceptionId,
          Entry,        \* what an exception matches
          Seed,         \* the rules in place at the start, by id
          Null          \* None / NULL; also an unused id

VARIABLES rules,        \* rules[i]: the row of id i, or Null
          exceptions,   \* the exception rows
          actor         \* history: the customer whose call the last step was

vars == <<rules, exceptions, actor>>

Country == {CountryOf[c] : c \in Customer}

\* Rule and its __post_init__.
Rule == {r \in [tier : 1 .. 3, country_code : Country \cup {Null},
                industry : Industry \cup {Null}, customer_id : Customer \cup {Null},
                enabled : BOOLEAN, content : Content] :
           /\ r.tier = 1 => r.country_code # Null
           /\ r.tier = 3 => r.customer_id # Null}

RuleException ==
  [exception_id : ExceptionId, customer_id : Customer, entry : Entry]

\* Vendor-curated rules have no customer_id (rules/models.py).
ASSUME SeedAssumption ==
  /\ Null \notin Rule
  /\ DOMAIN Seed \subseteq RuleId
  /\ \A i \in DOMAIN Seed :
       /\ Seed[i] \in Rule
       /\ Seed[i].tier # 3 => Seed[i].customer_id = Null

ASSUME BackendAssumption == Backend \in {"memory", "postgres"}

ASSUME CustomerAssumption == /\ Null \notin Customer
                             /\ Chosen \in [Customer -> SUBSET RuleId]

\* What the dictionary needs and no code ensures: a customer's ids are used by
\* no one else.
IdsApart == \A c \in Customer : \A i \in Chosen[c] :
              /\ \A d \in Customer \ {c} : i \notin Chosen[d]
              /\ i \in DOMAIN Seed => Seed[i].customer_id = c

-----------------------------------------------------------------------------
\* The rules c's requests see; no industries means all of them.
Visible(c, industries, r) ==
  /\ r # Null
  /\ r.enabled
  /\ \/ r.tier = 1 /\ r.country_code = CountryOf[c]
     \/ r.tier = 2 /\ (industries = {} \/ r.industry \in industries)
     \/ r.tier = 3 /\ r.customer_id = c

list_for_customer(c, industries) ==
  {i \in RuleId : Visible(c, industries, rules[i])}

list_active(c) == {e.entry : e \in {x \in exceptions : x.customer_id = c}}

-----------------------------------------------------------------------------
Init == /\ rules = [i \in RuleId |-> IF i \in DOMAIN Seed THEN Seed[i] ELSE Null]
        /\ exceptions = {}
        /\ actor = Null

\* Mutant: ON CONFLICT DO UPDATE without its WHERE.
WrittenAnywhere(i, r) ==
  IF Backend = "memory" \/ rules[i] = Null
  THEN r
  ELSE [rules[i] EXCEPT !.content = r.content, !.enabled = r.enabled]

\* The row of id i once rule r has been written to it.  The dictionary replaces
\* whatever was there; the upsert updates a row of the same customer, and
\* leaves any other one alone without an error.
Written(i, r) ==
  IF Backend = "memory" \/ rules[i] = Null
  THEN r
  ELSE IF rules[i].customer_id = r.customer_id
       THEN [rules[i] EXCEPT !.content = r.content, !.enabled = r.enabled]
       ELSE rules[i]

\* upsert_tier3, called for customer c with a rule that may claim any tier and
\* any owner.
UpsertTier3(c, i, r) ==
  /\ rules' = IF r.tier = 3 /\ r.customer_id = c
              THEN [rules EXCEPT ![i] = Written(i, r)]
              ELSE rules
  /\ actor' = c
  /\ UNCHANGED exceptions

Owned(c, i) == rules[i] # Null /\ rules[i].tier = 3 /\ rules[i].customer_id = c

\* delete_tier3: an unknown id is not an error; a rule of the vendor or of
\* another customer stays.
DeleteTier3(c, i) ==
  /\ rules' = IF Owned(c, i)
              THEN [rules EXCEPT ![i] = Null]
              ELSE rules
  /\ actor' = c
  /\ UNCHANGED exceptions

\* Mutant: the exception is stored without its owner.
AddForeignException(c, e) ==
  /\ exceptions' = exceptions \cup {[e EXCEPT !.customer_id = Null]}
  /\ actor' = c
  /\ UNCHANGED rules

\* The table's primary key.
Duplicate(e) == /\ Backend = "postgres"
                /\ \E x \in exceptions : x.exception_id = e.exception_id

\* add: the exception must be the caller's, and Postgres refuses an id already
\* used by any customer.
AddException(c, e) ==
  /\ exceptions' = IF e.customer_id = c /\ ~Duplicate(e)
                   THEN exceptions \cup {e}
                   ELSE exceptions
  /\ actor' = c
  /\ UNCHANGED rules

\* Mutant: the removal is not pinned to the customer.
RemoveAnyException(c, id) ==
  /\ exceptions' = {x \in exceptions : x.exception_id # id}
  /\ actor' = c
  /\ UNCHANGED rules

Matching(c, id) == {x \in exceptions : x.exception_id = id /\ x.customer_id = c}

RemoveException(c, id) ==
  /\ exceptions' = exceptions \ Matching(c, id)
  /\ actor' = c
  /\ UNCHANGED rules

Next == \E c \in Customer :
          \/ \E i \in Chosen[c], r \in Rule : UpsertTier3(c, i, r)
          \/ \E i \in RuleId : DeleteTier3(c, i)
          \/ \E e \in RuleException : AddException(c, e)
          \/ \E id \in ExceptionId : RemoveException(c, id)

Spec == Init /\ [][Next]_vars

-----------------------------------------------------------------------------
\* Types of the two tables and of the last caller.
TypeOK == /\ rules \in [RuleId -> Rule \cup {Null}]
          /\ exceptions \subseteq RuleException
          /\ actor \in Customer \cup {Null}

\* A row without an owner is a vendor rule, and a customer's row is tier 3: what
\* makes the upsert's WHERE (which compares owners, not tiers) protect the
\* vendor's rules.
OwnersMatchTiers ==
  \A i \in RuleId : rules[i] # Null => (rules[i].customer_id = Null <=> rules[i].tier # 3)

\* Everything that decides what is masked in c's requests.
Policy(c) == [rules      |-> [i \in list_for_customer(c, {}) |-> rules[i]],
              exceptions |-> list_active(c)]

\* No call of a customer changes the rules or the exceptions another customer's
\* requests are processed with (rules/store.py, hard rule #3).
TenantIsolation == [][\A c \in Customer : c # actor' => Policy(c)' = Policy(c)]_vars

\* The country and industry rules are immutable from the customers' operations
\* (rules/store.py, hard rule #4): in every reachable state they are the ones
\* the vendor installed, and nothing passes for one of them.
VendorRulesImmutable ==
  /\ \A i \in DOMAIN Seed : Seed[i].tier # 3 => rules[i] = Seed[i]
  /\ \A i \in RuleId : rules[i] # Null /\ rules[i].tier # 3 =>
                         i \in DOMAIN Seed /\ rules[i] = Seed[i]
=============================================================================
