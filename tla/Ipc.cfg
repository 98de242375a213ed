CONSTANTS
  Calls = {a, b}
  Requests <- MCRequests
  NoRequest = NoRequest
  MaxFrame = 2
  Capacity = 1
SPECIFICATION FairSpec
INVARIANTS OnlyWholeRequests LimitsAgree
PROPERTIES CallReturns TaskReturns ImplementsCalls
