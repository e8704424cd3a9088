SPECIFICATION Spec
CONSTANTS
  Threads <- MCThreads
  Uses <- MCUses
  MaxQps = 2
  DeviceMem = 1
  MaxRegions = 1
  MaxKeys = 1
  MaxFails = 1
  MaxCqs = 1
  MaxVisits = 3
  MaxHeld = 2
INVARIANTS TypeOK KeyReady HolderHasContext OneContext DeathHasCause Accounted
PROPERTIES CallsReturn
