\* Every payment mode and one edit by an administrator: what still holds.
SPECIFICATION Spec
CONSTANTS
  Riders = {r1, r2}
  NoRider = NoRider
  Calls = {poll, a, b}
  Poller = poll
  MaxAttempts = 2
  Placements <- AllModes
  MaxAdmin = 1
  MaxCrash = 0
PROPERTY OnlyUnguardedWritesLeaveTable
CHECK_DEADLOCK FALSE
