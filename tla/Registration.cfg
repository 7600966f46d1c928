SPECIFICATION Spec
CONSTANTS
  None = None
  Servers = {"Cs", "AtlExe", "AtlDll", "WinRtExe", "WinRtDll"}
  MaxRuns = 4
INVARIANTS
  TypeOK
  LoneServerCleansUp
  RegisteredIsFound
