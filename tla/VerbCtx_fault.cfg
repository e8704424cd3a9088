SPECIFICATION Spec
CONSTANTS
  Threads <- OneThread
  Uses <- OneUses
  MaxQps = 2
  DeviceMem = 1
  MaxRegions = 1
  MaxKeys = 1
  MaxFails = 1
  MaxCqs = 1
  MaxVisits = 1
  MaxHeld = 1
INVARIANTS ReadyIsRts
