CONSTANTS
  CheapPrepend = 1
  InitialSize = 4
  ExtraSize = 5
  Requests <- MixedRequests
  MaxRequests = 2
SPECIFICATION FairSpec
INVARIANTS AnswersInOrder BytesKept
PROPERTIES AnsweredInTurn Answered
