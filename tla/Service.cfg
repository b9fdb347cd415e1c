SPECIFICATION Spec
CONSTANTS
  MaxRun = 2
  Password = {pa, pb}
  Absent = Absent
  Torn = Torn
  Broken = Broken
  Burst = 3
INVARIANTS
  CompleteSetupLoads
  IdentityIsWhole
PROPERTY Recovers
