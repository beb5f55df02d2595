SPECIFICATION MCSpec
CONSTANTS
  Outermost = Outermost
  Lambda = Lambda
  Helper = Helper
  Contract = Contract
  Platform = Platform
  None = None
  Absent = None
  Classes <- MCClasses
  Located <- MCLocated
  Enlarged <- MCEnlarged
  Parents <- MCParents
  Members <- MCMembers
  Damages <- MCDamages
  Mentions <- MCMentions
  Callees <- MCCallees
  ContractOwners <- MCContractOwners
  FunctionObjects <- MCFunctionObjects
  Requested <- MCRequested
  Batches <- MCBatches
  IncludeNested = TRUE
  MaxRequests = 2
  Registers <- MCRegisters
INVARIANT EveryBodyIsTerminated
