CONSTANTS
  Messages <- MCMessages
  CommandCapacity = 3
  ReplyCapacity = 2
  TxDepth = 1
  DefaultMode = "cdc"
  MaxMessages = 3
SPECIFICATION Spec
INVARIANTS
  HostIsToldTheTruth
  NextStartAsAnswered
PROPERTIES
  ReplyArrives
  LinkRecovers
