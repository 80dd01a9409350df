CONSTANTS
  c1 = c1
  c2 = c2
  c3 = c3
  h1 = h1
  h2 = h2
  None = None
  Garbled = Garbled
  Conns <- MCConns
  Hosts <- MCHosts
  AddrLenInit <- MCAddrLenAny
  CreateFails <- MCCreateOk
  MaxLine <- MCMaxLine
  Requests <- MCRequestsOk
  Responses <- MCResponsesOk
  StackGarbage <- MCGarbage
  Failures <- MCFailuresNone
SPECIFICATION Spec
CHECK_DEADLOCK FALSE
PROPERTY EveryConnectionServed
