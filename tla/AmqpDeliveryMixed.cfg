SPECIFICATION FairSpec
CONSTANTS
  i1 = i1  i2 = i2  none = none
  Instances <- MCInstances
  Names <- MixedNames
  KindOf <- MixedKinds
  Serves <- MixedServes
  Messages <- MixedMessages
  NameOf <- MixedNameOf
  Child <- MixedChild
  None <- none
  MaxDrops = 1
  MaxCrashes = 0
  MaxUnregisters = 1
INVARIANTS BroadcastAtMostOnce NoJobNotFound
PROPERTY RequestsReplied
CHECK_DEADLOCK FALSE
