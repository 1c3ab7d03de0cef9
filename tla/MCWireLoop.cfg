CONSTANTS
  Buffers = {b1, b2}
  h1 = h1
  h2 = h2
  Hosts = {h1, h2}
  Flows = {http, other}
  HttpFlows = {http}
  NoBuf = NoBuf
  NoHost = NoHost
  NoFlow = NoFlow
SPECIFICATION MCSpec
INVARIANTS TypeOK OwnsWhatItHandles NoBufferLeak AtMostOneAfterStop
PROPERTIES DestroyedForAReason Stops PoolSpec
CHECK_DEADLOCK FALSE
