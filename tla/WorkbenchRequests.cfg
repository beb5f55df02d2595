SPECIFICATION Spec
CONSTANTS
  c1 = c1
  c2 = c2
  c3 = c3
  t1 = t1
  t2 = t2
  t3 = t3
  r1 = r1
  r2 = r2
  Calls <- ThreeCalls
  Tokens <- ThreeTokens
  Domains = {"Interactive", "CodeSearch"}
  SessionIds = {1}
  RequestIds <- TwoRequests
  NoToken = NoToken
  NoKey = NoKey
  NoCall = NoCall
  ReusedDomains = {"Interactive", "CodeSearch"}
  Ops = {"open", "class", "references", "search"}
  MaxSession = 1
  MaxCalls = 4
  MaxClasses = 1
  Panics = FALSE
SYMMETRY MCSymmetryRequests
INVARIANTS TypeOK ObserverIsOwn RegistryIsExact
PROPERTIES CancelledNeverResumes RegistrySpec
