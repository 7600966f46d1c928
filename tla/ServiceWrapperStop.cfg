SPECIFICATION Spec
CONSTANTS
  Space = "space"
  CommandLines <- MCCommandLines
INVARIANT TargetKilledOnStop
