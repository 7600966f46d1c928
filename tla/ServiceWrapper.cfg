SPECIFICATION FairSpec
CONSTANTS
  Space = "space"
  CommandLines <- MCCommandLines
INVARIANTS
  TypeOK
  OrphanOnlyByRace
  StartsConfiguredTarget
PROPERTIES
  StoppedIsFinal
  WrapperEnds
