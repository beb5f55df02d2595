SPECIFICATION MCFairSpec
CONSTANTS
  Outermost = Outermost
  Lambda = Lambda
  Helper = Helper
  Contract = Contract
  Platform = Platform
  None = None
  Absent = None
  Classes <- MCClasses
  Located <- MCLocated
  Enlarged <- MCEnlarged
  Parents <- MCParents
  Members <- MCMembers
  Damages <- MCDamages
  Mentions <- MCMentions
  Callees <- MCCallees
  ContractOwners <- MCContractOwners
  FunctionObjects <- MCFunctionObjects
  Requested <- MCRequested
  Batches <- MCBatches
  IncludeNested = TRUE
  MaxRequests = 5
  Registers <- MCRegisters
INVARIANTS TypeOK RevisionVouches RenderIsPrepared CodeIsWhole JobsAreResolved IsolatedRendersRepeat
  DominanceIsExact NormalFormIsExact SsaFormIsExact NoReturnIsExact
PROPERTY EveryRequestEnds
