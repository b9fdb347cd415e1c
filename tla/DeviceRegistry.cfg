\* Two devices, so that one can be approved while the other is edited.
SPECIFICATION RegistrySpec
CONSTANTS
  d1 = d1
  d2 = d2
  Device = {d1, d2}
INVARIANTS
  ApprovalIsDurable
  DeniedStaysOut
PROPERTIES
  OnlyListedIsApproved
