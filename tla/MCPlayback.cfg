CONSTANTS
  Address = {a, b, c, d}
  FakeSource = AC_SRCM
  FakeDests = {to_us, outgoing}
  Unknown = Unknown
  MaxFrames = 5
SPECIFICATION Spec
SYMMETRY Symmetry
INVARIANTS OnePortPerAddress CampsApart AllReplayed
CHECK_DEADLOCK FALSE
