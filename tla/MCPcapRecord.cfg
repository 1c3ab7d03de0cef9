CONSTANT MaxPackets = 3
SPECIFICATION Spec
INVARIANTS TypeOK RecordingIsPrefix HandleIsLive RecordedBeforeCounted AccountsForAll
CHECK_DEADLOCK FALSE
