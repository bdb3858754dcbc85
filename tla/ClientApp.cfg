CONSTANTS
  MaxServed = 2
  MaxSaid = 2
  MaxCalls = 1
SPECIFICATION FairSpec
INVARIANTS
  TypeOK
  ReceivesInOrder
  SendsInOrder
  LeavesNoThread
  RemovesWhatIsThere
  PlayIsSafe
PROPERTIES
  EscapeLeaves
  ConsumerEnds
