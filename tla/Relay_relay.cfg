SPECIFICATION Spec
CONSTANTS
  User = {u1, u2, u3}
  Alike = {u2, u3}
  Slot = {s1, s2}
  Key = {k1, k2}
  MaxFaults = 2
INVARIANTS NothingLeftOver OwnSlot
