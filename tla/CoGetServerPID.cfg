SPECIFICATION Spec
CONSTANTS
  Byte = 2
  Pids <- SmallAndLarge
  OtherPid = 4
  MaxSockets = 2
INVARIANTS
  TypeOK
  PidIsTheServers
  ListedIsFound
  ResourcesGivenBack
