SPECIFICATION Spec
CHECK_DEADLOCK FALSE
CONSTANTS
  Immediate = Immediate
  BWP = BWP
  Null = Null
  Main = Main
  Nobody = Nobody
  NoHandler = NoHandler
PROPERTIES
  CollectionEnds
  QueueIsServed
  OverflowReturns
  CallReturns
  NoSourceStarves
  FullMessageReturns
