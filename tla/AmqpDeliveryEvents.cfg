SPECIFICATION FairSpec
CONSTANTS
  i1 = i1  i2 = i2  none = none
  Instances <- MCInstances
  Names <- EventNames
  KindOf <- EventKinds
  Serves <- EventServes
  Messages <- EventMessages
  NameOf <- EventNameOf
  Child <- EventChild
  None <- none
  MaxDrops = 1
  MaxCrashes = 1
  MaxUnregisters = 2
INVARIANTS AtLeastOnce ConsumersMatch
PROPERTIES ImplementsEvents EventsHandled
CHECK_DEADLOCK FALSE
