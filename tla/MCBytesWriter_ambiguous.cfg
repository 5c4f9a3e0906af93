\* An empty payload, written to through poll_write before any flush.
CONSTANTS
  PayloadLens <- MCEmptyPayload
  Stream <- MCStream
  MaxBuf = 1
  PartialWrites = FALSE
  WireCap <- MCWireCap

SPECIFICATION Spec

INVARIANT NoAmbiguousState

\* After poll_shutdown has shut the sink down the writer is finished.
CHECK_DEADLOCK FALSE
