SPECIFICATION FairSpec
CONSTANTS
  MaxScreens = 3
  MaxQueue = 4
INVARIANTS
  TypeOK
  NoOrphanVoice
  IconMatchesVoice
PROPERTIES
  ImplementsVoice
  SilentAfterClosing
