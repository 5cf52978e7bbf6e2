SPECIFICATION RetrievalSpec
CONSTANTS
  c1 = c1
  c2 = c2
  one = one
  both = both
  e1 = e1
  m1 = m1
  Null = Null
  Backend = "memory"
  Customer <- MCCustomer
  CountryOf <- MCCountryOf
  Industry = {}
  RuleId <- MCRuleId
  Chosen <- SomeIds
  Content <- MCContent
  ExceptionId <- MCExceptionId
  Entry <- MCEntry
  Seed <- MCSeed
  Term = {"iban", "client"}
  Haystack <- MCHaystack
  TopK = 2
INVARIANT VendorRulesImmutable
