CONSTANTS
  c1 = c1
  c2 = c2
  c3 = c3
  h1 = h1
  h2 = h2
  None = None
  Garbled = Garbled
  Conns <- MCConns
  Hosts <- MCHosts
  AddrLenInit <- MCAddrLenValid
  CreateFails <- MCCreateOk
  MaxLine <- MCMaxLine
  Requests <- MCRequestsAny
  Responses <- MCResponsesOk
  StackGarbage <- MCGarbage
  Failures <- MCFailuresNone
SPECIFICATION Spec
PROPERTY EveryConnectionServed
CHECK_DEADLOCK FALSE
