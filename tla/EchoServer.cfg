CONSTANTS
  c1 = c1
  c2 = c2
  c3 = c3
  Clients <- ThreeClients
  Listen = listen
  MaxConns = 2
  FirstEvents = 1
  MaxLines = 1
  LineUnits = 2
SPECIFICATION EchoFairSpec
INVARIANTS ReportedAreHandled DescriptorsKept
PROPERTY Answered
