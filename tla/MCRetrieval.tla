---------------------------- MODULE MCRetrieval ----------------------------
\* A table that starts with a country rule, an industry rule and two rules of
\* customer c1, with a free id; c2 is of another country.  Customers write under
\* the ids in SomeIds: the vendor's, each other's and free ones.  Two terms, and
\* a limit of two for up to three own rules.
EXTENDS Retrieval, TLC

CONSTANTS c1, c2, one, both, e1, m1

MCCustomer == {c1, c2}
MCCountryOf == (c1 :> "DZ") @@ (c2 :> "FR")
MCRuleId == {"dz", "bank", "a", "b", "c"}
SomeIds == (c1 :> {"dz", "a", "b"}) @@ (c2 :> {"bank", "a"})
MCExceptionId == {e1}
MCEntry == {m1}
MCContent == {one, both}
MCHaystack == (one :> {"iban"}) @@ (both :> {"iban", "client"})

Row(tier, country, industry, customer, content) ==
  [tier |-> tier, country_code |-> country, industry |-> industry,
   customer_id |-> customer, enabled |-> TRUE, content |-> content]

MCSeed == [dz   |-> Row(1, "DZ", Null, Null, one),
           bank |-> Row(2, Null, Null, Null, one),
           a    |-> Row(3, Null, Null, c1, one),
           c    |-> Row(3, Null, Null, c1, both)]
=============================================================================
